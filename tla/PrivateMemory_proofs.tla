------------------------ MODULE PrivateMemory_proofs ------------------------
(***************************************************************************)
(* What PrivateMemory promises of the stored index, for any number of      *)
(* sessions, memories, batches, retries and versions.                      *)
(***************************************************************************)
EXTENDS MCMemory, FiniteSetTheorems, NaturalsInduction, WellFoundedInduction, TLAPS

-----------------------------------------------------------------------------
(* A set of numbers has a least one.                                       *)
LEMMA LeastNumber ==
    ASSUME NEW S \in SUBSET Nat, S # {}
    PROVE  \E m \in S : \A k \in S : m <= k
<1>1. \E x \in S : \A y \in S : ~(<<y, x>> \in OpToRel(<, Nat))
  BY NatLessThanWellFounded, WFMin
<1>2. PICK x \in S : \A y \in S : ~(<<y, x>> \in OpToRel(<, Nat))
  BY <1>1
<1>3. ASSUME NEW y \in S PROVE x <= y
  <2>1. ~(y < x)
    BY <1>2 DEF OpToRel
  <2>. QED  BY <2>1
<1>. QED  BY <1>3

(* The first numbers up to n and the greatest of some of them.             *)
LEMMA UpToNext ==
    ASSUME NEW n \in Nat
    PROVE  /\ 1..(n + 1) \in SUBSET (1..(n + 1)) /\ 1..(n + 1) # {}
           /\ (1..(n + 1)) \ {n + 1} = 1..n
           /\ \A s \in SUBSET (1..(n + 1)) : n + 1 \in s => Max(s) = n + 1
<1>1. n + 1 \in 1..(n + 1)
  OBVIOUS
<1>2. (1..(n + 1)) \ {n + 1} = 1..n
  <2>1. ASSUME NEW x \in (1..(n + 1)) \ {n + 1} PROVE x \in 1..n
    OBVIOUS
  <2>2. ASSUME NEW x \in 1..n PROVE x \in (1..(n + 1)) \ {n + 1}
    OBVIOUS
  <2>. QED  BY <2>1, <2>2
<1>3. ASSUME NEW s \in SUBSET (1..(n + 1)), n + 1 \in s PROVE Max(s) = n + 1
  <2>1. \A y \in s : n + 1 >= y
    OBVIOUS
  <2>2. \A x \in s : (\A y \in s : x >= y) => x = n + 1
    BY <1>3
  <2>. QED  BY <1>3, <2>1, <2>2 DEF Max
<1>. QED  BY <1>1, <1>2, <1>3

(* The operations that the model folds over a sequence.                    *)
Step(kind, db, x) ==
    CASE kind = "delete" -> DeleteMemory(db, x)
      [] kind = "add"    -> AddMemory(db, x)
      [] kind = "replay" -> Replay(db, x)

(* f is the function by which FoldLeft is defined, over 1..n.              *)
Iter(kind, f, n, base, seq) ==
    f = [s \in SUBSET (1..n) |->
           IF s = {} THEN base
           ELSE LET x == Max(s) IN Step(kind, f[s \ {x}], seq[x])]

(* One more element can be folded.                                         *)
LEMMA IterExtends ==
    ASSUME NEW kind, NEW n \in Nat, NEW f, NEW base, NEW seq,
           Iter(kind, f, n, base, seq)
    PROVE  \E g : Iter(kind, g, n + 1, base, seq)
<1>. DEFINE g == [s \in SUBSET (1..(n + 1)) |->
                    IF n + 1 \in s THEN Step(kind, f[s \ {n + 1}], seq[n + 1]) ELSE f[s]]
<1>1. \A s \in SUBSET (1..n) :
          f[s] = IF s = {} THEN base ELSE LET x == Max(s) IN Step(kind, f[s \ {x}], seq[x])
  BY DEF Iter
<1>2. ASSUME NEW s \in SUBSET (1..(n + 1))
      PROVE  g[s] = IF s = {} THEN base
                    ELSE LET x == Max(s) IN Step(kind, g[s \ {x}], seq[x])
  <2>1. CASE n + 1 \in s
    <3>1. Max(s) = n + 1
      BY <2>1, UpToNext
    <3>2. g[s \ {n + 1}] = f[s \ {n + 1}]
      OBVIOUS
    <3>. QED  BY <2>1, <3>1, <3>2
  <2>2. CASE n + 1 \notin s
    <3>1. s \in SUBSET (1..n)
      BY <2>2
    <3>2. g[s] = f[s]
      BY <2>2
    <3>3. g[s \ {Max(s)}] = f[s \ {Max(s)}]
      BY <3>1, <2>2
    <3>. QED  BY <1>1, <3>1, <3>2, <3>3
  <2>. QED  BY <2>1, <2>2
<1>3. Iter(kind, g, n + 1, base, seq)
  <2>. HIDE DEF g
  <2>1. g = [s \in SUBSET (1..(n + 1)) |-> g[s]]
    BY DEF g
  <2>. QED  BY <1>2, <2>1 DEF Iter
<1>. QED  BY <1>3

(* So every sequence can.                                                  *)
LEMMA IterExists ==
    ASSUME NEW kind, NEW n \in Nat, NEW base, NEW seq
    PROVE  \E f : Iter(kind, f, n, base, seq)
<1>. DEFINE Bad == {k \in Nat : ~ \E f : Iter(kind, f, k, base, seq)}
<1>. SUFFICES ASSUME Bad # {} PROVE FALSE
  OBVIOUS
<1>1. PICK m \in Bad : \A k \in Bad : m <= k
  <2>1. Bad \in SUBSET Nat
    OBVIOUS
  <2>. HIDE DEF Bad
  <2>. QED  BY <2>1, LeastNumber
<1>2. CASE m = 0
  <2>1. \A s \in SUBSET (1..0) : s = {}
    OBVIOUS
  <2>2. Iter(kind, [s \in SUBSET (1..0) |-> base], 0, base, seq)
    BY <2>1 DEF Iter
  <2>. QED  BY <1>2, <2>2
<1>3. CASE m # 0
  <2>1. m - 1 \in Nat /\ m - 1 \notin Bad /\ m - 1 + 1 = m
    BY <1>1, <1>3
  <2>. QED  BY <2>1, IterExtends
<1>. QED  BY <1>2, <1>3

(* The states through which a fold over seq goes.                          *)
Course(kind, h, base, seq) ==
    /\ h[0] = base
    /\ \A k \in 1..Len(seq) : h[k] = Step(kind, h[k - 1], seq[k])

(* The function of a fold gives its course.                                *)
LEMMA IterCourse ==
    ASSUME NEW kind, NEW base, NEW E, NEW seq \in Seq(E), NEW f,
           Iter(kind, f, Len(seq), base, seq)
    PROVE  Course(kind, [k \in 0..Len(seq) |-> f[1..k]], base, seq)
<1>. DEFINE h == [k \in 0..Len(seq) |-> f[1..k]]
<1>0. Len(seq) \in Nat
  OBVIOUS
<1>1. h[0] = base
  <2>1. 1..0 = {} /\ {} \in SUBSET (1..Len(seq))
    OBVIOUS
  <2>. QED  BY <2>1 DEF Iter
<1>2. ASSUME NEW k \in 1..Len(seq) PROVE h[k] = Step(kind, h[k - 1], seq[k])
  <2>1. k - 1 \in Nat /\ k - 1 + 1 = k /\ k - 1 \in 0..Len(seq) /\ k \in 0..Len(seq)
        /\ k \in 1..k
    OBVIOUS
  <2>2. 1..k # {} /\ (1..k) \ {k} = 1..(k - 1) /\ Max(1..k) = k
    <3>. DEFINE m == k - 1
    <3>1. m \in Nat /\ k = m + 1
      BY <2>1
    <3>. HIDE DEF m
    <3>2. m + 1 \in 1..(m + 1)
      BY <3>1
    <3>3. 1..(m + 1) # {} /\ (1..(m + 1)) \ {m + 1} = 1..m /\ Max(1..(m + 1)) = m + 1
      BY <3>1, <3>2, UpToNext
    <3>. QED  BY <3>1, <3>3 DEF m
  <2>3. 1..k \in SUBSET (1..Len(seq))
    OBVIOUS
  <2>4. f[1..k] = Step(kind, f[(1..k) \ {Max(1..k)}], seq[Max(1..k)])
    BY <2>2, <2>3 DEF Iter
  <2>5. f[1..k] = Step(kind, f[1..(k - 1)], seq[k])
    BY <2>2, <2>4
  <2>. QED  BY <2>1, <2>5
<1>. QED  BY <1>1, <1>2 DEF Course

(* A fold of deletions ends where its course does.                         *)
LEMMA FoldDelete ==
    ASSUME NEW base, NEW E, NEW seq \in Seq(E)
    PROVE  \E h : /\ Course("delete", h, base, seq)
                  /\ FoldLeft(DeleteMemory, base, seq) = h[Len(seq)]
<1>. DEFINE Folds(f) == f = [s \in SUBSET (DOMAIN seq) |->
                   IF s = {} THEN base
                   ELSE LET x == Max(s) IN DeleteMemory(f[s \ {x}], seq[x])]
            f == CHOOSE f : Folds(f)
            h == [k \in 0..Len(seq) |-> f[1..k]]
<1>1. Len(seq) \in Nat /\ DOMAIN seq = 1..Len(seq)
  OBVIOUS
<1>2. \A db, x : Step("delete", db, x) = DeleteMemory(db, x)
  BY DEF Step
<1>3. \A g : Iter("delete", g, Len(seq), base, seq) <=> Folds(g)
  BY <1>1, <1>2 DEF Iter
<1>4. FoldLeft(DeleteMemory, base, seq) = f[DOMAIN seq]
  BY DEF FoldLeft, MapThenFoldSet
<1>. HIDE DEF Folds
<1>5. Folds(f)
  BY <1>1, <1>3, IterExists
<1>. HIDE DEF f
<1>6. Course("delete", h, base, seq)
  BY <1>3, <1>5, IterCourse
<1>7. h[Len(seq)] = f[DOMAIN seq]
  BY <1>1
<1>. HIDE DEF h
<1>. QED  BY <1>4, <1>6, <1>7

(* The same of the memories of a batch.                                    *)
LEMMA FoldAdd ==
    ASSUME NEW base, NEW E, NEW seq \in Seq(E)
    PROVE  \E h : /\ Course("add", h, base, seq)
                  /\ FoldLeft(AddMemory, base, seq) = h[Len(seq)]
<1>. DEFINE Folds(f) == f = [s \in SUBSET (DOMAIN seq) |->
                   IF s = {} THEN base
                   ELSE LET x == Max(s) IN AddMemory(f[s \ {x}], seq[x])]
            f == CHOOSE f : Folds(f)
            h == [k \in 0..Len(seq) |-> f[1..k]]
<1>1. Len(seq) \in Nat /\ DOMAIN seq = 1..Len(seq)
  OBVIOUS
<1>2. \A db, x : Step("add", db, x) = AddMemory(db, x)
  BY DEF Step
<1>3. \A g : Iter("add", g, Len(seq), base, seq) <=> Folds(g)
  BY <1>1, <1>2 DEF Iter
<1>4. FoldLeft(AddMemory, base, seq) = f[DOMAIN seq]
  BY DEF FoldLeft, MapThenFoldSet
<1>. HIDE DEF Folds
<1>5. Folds(f)
  BY <1>1, <1>3, IterExists
<1>. HIDE DEF f
<1>6. Course("add", h, base, seq)
  BY <1>3, <1>5, IterCourse
<1>7. h[Len(seq)] = f[DOMAIN seq]
  BY <1>1
<1>. HIDE DEF h
<1>. QED  BY <1>4, <1>6, <1>7

(* The same of a log.                                                      *)
LEMMA FoldReplay ==
    ASSUME NEW base, NEW E, NEW seq \in Seq(E)
    PROVE  \E h : /\ Course("replay", h, base, seq)
                  /\ FoldLeft(Replay, base, seq) = h[Len(seq)]
<1>. DEFINE Folds(f) == f = [s \in SUBSET (DOMAIN seq) |->
                   IF s = {} THEN base
                   ELSE LET x == Max(s) IN Replay(f[s \ {x}], seq[x])]
            f == CHOOSE f : Folds(f)
            h == [k \in 0..Len(seq) |-> f[1..k]]
<1>1. Len(seq) \in Nat /\ DOMAIN seq = 1..Len(seq)
  OBVIOUS
<1>2. \A db, x : Step("replay", db, x) = Replay(db, x)
  BY DEF Step
<1>3. \A g : Iter("replay", g, Len(seq), base, seq) <=> Folds(g)
  BY <1>1, <1>2 DEF Iter
<1>4. FoldLeft(Replay, base, seq) = f[DOMAIN seq]
  BY DEF FoldLeft, MapThenFoldSet
<1>. HIDE DEF Folds
<1>5. Folds(f)
  BY <1>1, <1>3, IterExists
<1>. HIDE DEF f
<1>6. Course("replay", h, base, seq)
  BY <1>3, <1>5, IterCourse
<1>7. h[Len(seq)] = f[DOMAIN seq]
  BY <1>1
<1>. HIDE DEF h
<1>. QED  BY <1>4, <1>6, <1>7

-----------------------------------------------------------------------------
(* Documents, log entries and indexes; an index is finite.                 *)
Docs == [id : MemoryIds, name : Names \cup {None}, blob : Nat]
Doc(e) == [id |-> e.id, name |-> e.name, blob |-> e.blob]
Entries ==
    {e \in [op   : {"AddMemory", "Remove", "Reset", "Create"},
            id   : MemoryIds \cup {None},
            name : Names \cup {None},
            blob : Nat \cup {None}] :
       /\ e.op = "AddMemory" => Doc(e) \in Docs
       /\ e.op # "AddMemory" => e.name = None
       /\ e.op = "Reset" => e.id = None}
Indexes == {db \in [docs : SUBSET Docs, log : Seq(Entries)] : IsFiniteSet(db.docs)}

(* The entry e accounts for the document d that it removes (one entry of   *)
(* Accounts), and undoes the earlier entry x (one of Stands), or the addition of d.   *)
AccountsFor(e, d) ==
    \/ e.op = "Reset"
    \/ e.op \in {"AddMemory", "Remove"} /\ e.id = d.id
    \/ e.op = "AddMemory" /\ e.name = d.name /\ d.name # None
Undoes(e, x) ==
    \/ e.op = "Reset"
    \/ e.id = x.id
    \/ e.op = "AddMemory" /\ x.op = "AddMemory" /\ e.name # None /\ e.name = x.name
UndoesAdd(e, d) ==
    \/ e.op = "Reset"
    \/ e.id = d.id
    \/ e.op = "AddMemory" /\ e.name # None /\ e.name = d.name

(* What a history adds, and what it removes, in the end.                   *)
StandingAdd(h, d) ==
    \E i \in 1..Len(h) : h[i].op = "AddMemory" /\ Doc(h[i]) = d /\ Stands(h, i)
StandingRemove(h, id) ==
    \E i \in 1..Len(h) : h[i].op = "Remove" /\ h[i].id = id /\ Stands(h, i)

(* One more entry in a history.                                            *)
LEMMA OneMore ==
    ASSUME NEW h \in Seq(Entries), NEW e \in Entries
    PROVE  /\ Append(h, e) \in Seq(Entries)
           /\ \A d : Accounts(Append(h, e), d) <=> Accounts(h, d) \/ AccountsFor(e, d)
           /\ \A d : StandingAdd(Append(h, e), d) <=>
                       \/ e.op = "AddMemory" /\ Doc(e) = d
                       \/ StandingAdd(h, d) /\ ~UndoesAdd(e, d)
           /\ \A id : StandingRemove(Append(h, e), id) <=>
                       \/ e.op = "Remove" /\ e.id = id
                       \/ StandingRemove(h, id) /\ e.op # "Reset" /\ e.id # id
<1>. DEFINE g == Append(h, e)
            n == Len(h)
<1>1. /\ g \in Seq(Entries) /\ n \in Nat /\ Len(g) = n + 1
      /\ g[n + 1] = e /\ \A i \in 1..n : g[i] = h[i]
  OBVIOUS
<1>2. \A i \in 1..(n + 1) : i \in 1..n \/ i = n + 1
  OBVIOUS
<1>3. n + 1 \in 1..(n + 1) /\ \A i \in 1..n : i \in 1..(n + 1)
  OBVIOUS
<1>4. Stands(g, n + 1)
  <2>1. (n + 1 + 1)..(n + 1) = {}
    BY <1>1
  <2>. QED  BY <1>1, <2>1 DEF Stands
<1>5. ASSUME NEW i \in 1..n PROVE Stands(g, i) <=> Stands(h, i) /\ ~Undoes(e, h[i])
  <2>1. \A j \in (i + 1)..(n + 1) : j \in (i + 1)..n \/ j = n + 1
    OBVIOUS
  <2>2. n + 1 \in (i + 1)..(n + 1) /\ \A j \in (i + 1)..n : j \in (i + 1)..(n + 1) /\ j \in 1..n
    OBVIOUS
  <2>. HIDE DEF g, n
  <2>. QED  BY <1>1, <2>1, <2>2 DEF Stands, Undoes, n
<1>. HIDE DEF g, n
<1>6. \A d : Accounts(g, d) <=> Accounts(h, d) \/ AccountsFor(e, d)
  BY <1>1, <1>2, <1>3 DEF Accounts, AccountsFor, n
<1>7. ASSUME NEW d
      PROVE  StandingAdd(g, d) <=>
                       \/ e.op = "AddMemory" /\ Doc(e) = d
                       \/ StandingAdd(h, d) /\ ~UndoesAdd(e, d)
  <2>1. \A i \in 1..n : h[i].op = "AddMemory" /\ Doc(h[i]) = d =>
            (Undoes(e, h[i]) <=> UndoesAdd(e, d))
    BY DEF Undoes, UndoesAdd, Doc
  <2>. QED  BY <1>1, <1>2, <1>3, <1>4, <1>5, <2>1 DEF StandingAdd, n
<1>8. ASSUME NEW id
      PROVE  StandingRemove(g, id) <=>
                       \/ e.op = "Remove" /\ e.id = id
                       \/ StandingRemove(h, id) /\ e.op # "Reset" /\ e.id # id
  <2>1. \A i \in 1..n : h[i].op = "Remove" /\ h[i].id = id =>
            (~Undoes(e, h[i]) <=> e.op # "Reset" /\ e.id # id)
    BY DEF Undoes
  <2>. QED  BY <1>1, <1>2, <1>3, <1>4, <1>5, <2>1 DEF StandingRemove, n
<1>. QED  BY <1>1, <1>6, <1>7, <1>8 DEF g, n

-----------------------------------------------------------------------------
(* A session's documents and log, against the base B that it had and the   *)
(* mutations o it was asked for: what is missing of B is on the log, and   *)
(* the log is about what was asked for; an addition that stands is on the  *)
(* log and in the index, and a removal that stands on the log is done.     *)
Sound(B, docs, log, o) ==
    /\ \A d \in B \ docs : Accounts(log, d)
    /\ \A d \in Docs : Accounts(log, d) => Accounts(o, d)
    /\ \A d \in Docs : StandingAdd(o, d) => StandingAdd(log, d)
    /\ \A d \in Docs : StandingAdd(log, d) => d \in docs
    /\ \A d \in docs : ~StandingRemove(log, d.id)

(* The entry e records how the documents a became b.                       *)
Recorded(a, b, e) ==
    /\ \A d \in a \ b : AccountsFor(e, d)
    /\ \A d \in b \ a : e.op = "AddMemory" /\ d = Doc(e)
    /\ e.op = "AddMemory" => Doc(e) \in b
    /\ e.op = "Remove" => /\ \A d \in b : d.id # e.id
                          /\ \E d \in a \ b : e.blob = d.blob

(* The entry e of a log that is replayed and the entry f for it.           *)
Same(e, f) == e.op = f.op /\ e.id = f.id /\ e.name = f.name /\
              (e.op = "AddMemory" => e = f)

(* A recorded change keeps the index sound.                                *)
LEMMA SoundRecorded ==
    ASSUME NEW B \in SUBSET Docs, NEW a \in SUBSET Docs, NEW b \in SUBSET Docs,
           NEW log \in Seq(Entries), NEW o \in Seq(Entries),
           NEW e \in Entries, NEW f \in Entries, Same(e, f),
           Sound(B, a, log, o), Recorded(a, b, f)
    PROVE  Sound(B, b, Append(log, f), Append(o, e))
<1>1. \A d \in B \ b : Accounts(Append(log, f), d)
  BY OneMore DEF Sound, Recorded
<1>2. \A d \in Docs : Accounts(Append(log, f), d) => Accounts(Append(o, e), d)
  <2>1. \A d : AccountsFor(f, d) <=> AccountsFor(e, d)
    BY DEF AccountsFor, Same
  <2>. QED  BY <2>1, OneMore DEF Sound
<1>3. \A d \in Docs : StandingAdd(Append(o, e), d) => StandingAdd(Append(log, f), d)
  <2>1. \A d : UndoesAdd(f, d) <=> UndoesAdd(e, d)
    BY DEF UndoesAdd, Same
  <2>2. \A d : e.op = "AddMemory" /\ Doc(e) = d => f.op = "AddMemory" /\ Doc(f) = d
    BY DEF Same
  <2>. QED  BY <2>1, <2>2, OneMore DEF Sound
<1>4. ASSUME NEW d \in Docs, StandingAdd(Append(log, f), d) PROVE d \in b
  <2>1. CASE f.op = "AddMemory" /\ Doc(f) = d
    BY <2>1 DEF Recorded
  <2>2. CASE StandingAdd(log, d) /\ ~UndoesAdd(f, d)
    <3>1. ~AccountsFor(f, d)
      BY <2>2 DEF UndoesAdd, AccountsFor
    <3>. QED  BY <2>2, <3>1 DEF Sound, Recorded
  <2>. QED  BY <1>4, <2>1, <2>2, OneMore
<1>5. ASSUME NEW d \in b PROVE ~StandingRemove(Append(log, f), d.id)
  <2>1. ~(f.op = "Remove" /\ f.id = d.id)
    BY DEF Recorded
  <2>2. d \in a => ~StandingRemove(log, d.id)
    BY DEF Sound
  <2>3. d \notin a => f.id = d.id
    BY DEF Recorded, Doc
  <2>. QED  BY <2>1, <2>2, <2>3, OneMore
<1>. HIDE DEF Sound
<1>. QED  BY <1>1, <1>2, <1>3, <1>4, <1>5 DEF Sound

(* So does a creation or a removal that is not recorded again.             *)
LEMMA SoundSkipped ==
    ASSUME NEW B \in SUBSET Docs, NEW a \in SUBSET Docs,
           NEW log \in Seq(Entries), NEW o \in Seq(Entries), NEW e \in Entries,
           Sound(B, a, log, o), e.op \in {"Create", "Remove"}
    PROVE  Sound(B, a, log, Append(o, e))
<1>1. \A d \in Docs : Accounts(log, d) => Accounts(Append(o, e), d)
  BY OneMore DEF Sound
<1>2. \A d \in Docs : StandingAdd(Append(o, e), d) => StandingAdd(log, d)
  BY OneMore DEF Sound
<1>. QED  BY <1>1, <1>2 DEF Sound

(* What a rebased log does is what the log did.                            *)
LEMMA SoundComposed ==
    ASSUME NEW B, NEW C, NEW a, NEW b, NEW log, NEW new, NEW o,
           Sound(B, a, log, o), Sound(C, b, new, log)
    PROVE  Sound(C, b, new, o)
  BY DEF Sound

(* An empty history promises nothing.                                      *)
LEMMA SoundEmpty ==
    ASSUME NEW B, NEW docs, B \subseteq docs
    PROVE  Sound(B, docs, << >>, << >>)
<1>1. 1..Len(<< >>) = {}
  OBVIOUS
<1>. QED  BY <1>1 DEF Sound, Accounts, StandingAdd, StandingRemove

-----------------------------------------------------------------------------
(* What an index is made of.                                               *)
LEMMA IndexType ==
    ASSUME NEW docs \in SUBSET Docs, IsFiniteSet(docs), NEW log \in Seq(Entries)
    PROVE  [docs |-> docs, log |-> log] \in Indexes
  BY DEF Indexes

(* delete_memories records the removal of an id, or finds nothing.         *)
LEMMA DeleteRecorded ==
    ASSUME NEW db \in Indexes, NEW id
    PROVE  /\ DeleteMemory(db, id) \in Indexes
           /\ \/ DeleteMemory(db, id) = db /\ \A d \in db.docs : d.id # id
              \/ \E e \in Entries :
                    /\ e.op = "Remove" /\ e.id = id /\ e.name = None
                    /\ DeleteMemory(db, id).log = Append(db.log, e)
                    /\ Recorded(db.docs, DeleteMemory(db, id).docs, e)
<1>. DEFINE W == WithId(db, id)
            b == DeleteMemory(db, id)
<1>0. /\ db \in [docs : SUBSET Docs, log : Seq(Entries)] /\ IsFiniteSet(db.docs)
      /\ db.docs \in SUBSET Docs /\ db.log \in Seq(Entries)
  BY DEF Indexes
<1>1. CASE W = {}
  <2>1. [i \in 1..0 |-> RemoveEntry(CHOOSE d \in W : TRUE)] = << >>
    OBVIOUS
  <2>2. db.log \o << >> = db.log
    BY <1>0
  <2>3. b = [docs |-> db.docs, log |-> db.log]
    <3>. HIDE DEF W
    <3>1. db.docs \ W = db.docs
      BY <1>1
    <3>2. b = [docs |-> db.docs \ W,
               log  |-> db.log \o [i \in 1..0 |-> RemoveEntry(CHOOSE d \in W : TRUE)]]
      BY <1>1 DEF DeleteMemory, W
    <3>. QED  BY <2>1, <2>2, <3>1, <3>2
  <2>4. b = db
    BY <1>0, <2>3
  <2>5. \A d \in db.docs : d.id # id
    BY <1>1 DEF WithId
  <2>. QED  BY <2>4, <2>5
<1>2. CASE W # {}
  <2>. DEFINE c == CHOOSE d \in W : TRUE
              e == RemoveEntry(c)
  <2>1. c \in W /\ c \in db.docs /\ c.id = id /\ c \in Docs
    BY <1>0, <1>2 DEF WithId
  <2>. HIDE DEF c
  <2>2. e \in Entries /\ e.op = "Remove" /\ e.id = id /\ e.name = None /\ e.blob = c.blob
    BY <2>1 DEF RemoveEntry, Entry, Entries, Docs
  <2>3. b.docs = db.docs \ W /\ b.log = db.log \o <<e>> /\ b = [docs |-> b.docs, log |-> b.log]
    <3>1. b = [docs |-> db.docs \ W, log |-> db.log \o [i \in 1..1 |-> e]]
      BY <1>2 DEF DeleteMemory, c
    <3>2. [i \in 1..1 |-> e] = <<e>>
      OBVIOUS
    <3>. HIDE DEF b, e, W
    <3>. QED  BY <3>1, <3>2
  <2>. HIDE DEF e, b
  <2>4. b.log = Append(db.log, e)
    BY <1>0, <2>2, <2>3
  <2>5. Recorded(db.docs, b.docs, e)
    <3>1. c \in db.docs \ b.docs
      BY <2>1, <2>3
    <3>. QED  BY <2>2, <2>3, <3>1 DEF Recorded, AccountsFor, WithId
  <2>6. b \in Indexes
    <3>1. b.docs \in SUBSET Docs /\ b.log \in Seq(Entries) /\ b.docs \in SUBSET db.docs
      BY <1>0, <2>2, <2>3, <2>4
    <3>2. IsFiniteSet(b.docs)
      BY <1>0, <3>1, FS_Subset
    <3>. QED  BY <2>3, <3>1, <3>2 DEF Indexes
  <2>. QED  BY <2>2, <2>4, <2>5, <2>6 DEF b
<1>. QED  BY <1>1, <1>2

(* put_memory_with_views, on an index from which only memories of the same *)
(* name were dropped.                                                      *)
LEMMA PutRecorded ==
    ASSUME NEW db \in Indexes, NEW doc \in Docs, NEW kept \in SUBSET db.docs,
           \A d \in db.docs \ kept : d.name = doc.name /\ doc.name # None
    PROVE  LET b == Put([db EXCEPT !.docs = kept], doc)
           IN  /\ b \in Indexes
               /\ b.log = Append(db.log, AddEntry(doc))
               /\ AddEntry(doc) \in Entries
               /\ Recorded(db.docs, b.docs, AddEntry(doc))
<1>. DEFINE b == Put([db EXCEPT !.docs = kept], doc)
            e == AddEntry(doc)
<1>1. /\ db \in [docs : SUBSET Docs, log : Seq(Entries)] /\ IsFiniteSet(db.docs)
      /\ db.docs \in SUBSET Docs /\ db.log \in Seq(Entries)
  BY DEF Indexes
<1>2. /\ e.op = "AddMemory" /\ e.id = doc.id /\ e.name = doc.name /\ e.blob = doc.blob
      /\ Doc(e) = doc /\ e \in Entries
  BY DEF AddEntry, Entry, Entries, Docs, Doc
<1>3. /\ b.docs = {d \in kept : d.id # doc.id} \cup {doc}
      /\ b.log = Append(db.log, e) /\ b = [docs |-> b.docs, log |-> b.log]
  BY <1>1 DEF Put, WithId
<1>. HIDE DEF b, e
<1>4. Recorded(db.docs, b.docs, e)
  BY <1>2, <1>3 DEF Recorded, AccountsFor
<1>5. b \in Indexes
  <2>1. b.docs \in SUBSET Docs /\ b.log \in Seq(Entries)
    BY <1>1, <1>2, <1>3
  <2>2. IsFiniteSet({d \in kept : d.id # doc.id})
    BY <1>1, FS_Subset
  <2>3. IsFiniteSet({d \in kept : d.id # doc.id} \cup {doc})
    BY <2>2, FS_AddElement
  <2>4. IsFiniteSet(b.docs)
    BY <1>3, <2>3
  <2>. QED  BY <1>3, <2>1, <2>4 DEF Indexes
<1>. QED  BY <1>2, <1>3, <1>4, <1>5 DEF b, e

(* The reset of the search engine.                                         *)
LEMMA ResetRecorded ==
    ASSUME NEW db \in Indexes
    PROVE  /\ ResetIndex(db) \in Indexes
           /\ ResetIndex(db).log = Append(db.log, ResetEntry)
           /\ ResetEntry \in Entries
           /\ ResetEntry.op = "Reset" /\ ResetEntry.id = None /\ ResetEntry.name = None
           /\ Recorded(db.docs, ResetIndex(db).docs, ResetEntry)
<1>1. db.log \in Seq(Entries)
  BY DEF Indexes
<1>2. ResetEntry \in Entries /\ ResetEntry.op = "Reset"
      /\ ResetEntry.id = None /\ ResetEntry.name = None
  BY DEF ResetEntry, Entry, Entries
<1>. HIDE DEF ResetEntry
<1>3. ResetIndex(db) = [docs |-> {}, log |-> Append(db.log, ResetEntry)]
  BY DEF ResetIndex
<1>4. IsFiniteSet({})
  BY FS_EmptySet
<1>5. ResetIndex(db) \in Indexes
  <2>1. {} \in SUBSET Docs /\ Append(db.log, ResetEntry) \in Seq(Entries)
    BY <1>1, <1>2
  <2>. QED  BY <1>3, <1>4, <2>1, IndexType
<1>6. Recorded(db.docs, {}, ResetEntry)
  BY <1>2 DEF Recorded, AccountsFor
<1>. QED  BY <1>2, <1>3, <1>5, <1>6

(* One step of import_with_changes records the entry that it replays, or   *)
(* there is nothing to do for it.                                          *)
LEMMA ReplayRecorded ==
    ASSUME NEW db \in Indexes, NEW e \in Entries
    PROVE  /\ Replay(db, e) \in Indexes
           /\ \/ /\ Replay(db, e) = db
                 /\ e.op = "Create" \/ (e.op = "Remove" /\ \A d \in db.docs : d.id # e.id)
              \/ \E f \in Entries :
                    /\ Same(e, f)
                    /\ Replay(db, e).log = Append(db.log, f)
                    /\ Recorded(db.docs, Replay(db, e).docs, f)
<1>0. /\ e.op \in {"AddMemory", "Remove", "Reset", "Create"}
      /\ e.op # "AddMemory" => e.name = None
      /\ e.op = "Reset" => e.id = None
  BY DEF Entries
<1>1. CASE e.op = "Create"
  <2>1. Replay(db, e) = db
    BY <1>1 DEF Replay
  <2>. QED  BY <1>1, <2>1
<1>2. CASE e.op = "Remove"
  <2>1. Replay(db, e) = DeleteMemory(db, e.id)
    BY <1>2 DEF Replay
  <2>2. \A f : f.op = "Remove" /\ f.id = e.id /\ f.name = None => Same(e, f)
    BY <1>0, <1>2 DEF Same
  <2>. QED  BY <1>2, <2>1, <2>2, DeleteRecorded
<1>3. CASE e.op = "Reset"
  <2>1. Replay(db, e) = ResetIndex(db)
    BY <1>3 DEF Replay
  <2>2. Same(e, ResetEntry)
    BY <1>0, <1>3, ResetRecorded DEF Same
  <2>. QED  BY <2>1, <2>2, ResetRecorded
<1>4. CASE e.op = "AddMemory"
  <2>. DEFINE same == IF e.name = None THEN {} ELSE WithName(db, e.name)
              kept == IF \E d \in same : same = {d} THEN db.docs \ same ELSE db.docs
  <2>1. Replay(db, e) = Put([db EXCEPT !.docs = kept], Doc(e))
    BY <1>4 DEF Replay, Doc
  <2>2. kept \in SUBSET db.docs
    OBVIOUS
  <2>3. \A d \in db.docs \ kept : d.name = e.name /\ e.name # None
    BY DEF WithName
  <2>. HIDE DEF kept
  <2>4. Doc(e) \in Docs /\ Doc(e).name = e.name
    BY <1>4 DEF Entries, Doc
  <2>5. Same(e, AddEntry(Doc(e)))
    BY <1>4 DEF Same, AddEntry, Entry, Doc, Entries
  <2>. QED  BY <2>1, <2>2, <2>3, <2>4, <2>5, PutRecorded
<1>. QED  BY <1>0, <1>1, <1>2, <1>3, <1>4

-----------------------------------------------------------------------------
(* An index that started as db0, with the mutations o asked for before.    *)
Grown(B, o, db0, db) ==
    /\ db \in Indexes
    /\ \E x \in Seq(Entries) :
          db.log = db0.log \o x /\ Sound(B, db.docs, db.log, o \o x)

(* The end of a concatenation.                                             *)
LEMMA ConcatAppend ==
    ASSUME NEW E, NEW s \in Seq(E), NEW x \in Seq(E), NEW e \in E
    PROVE  s \o Append(x, e) = Append(s \o x, e)
<1>. DEFINE l == s \o Append(x, e)
            r == Append(s \o x, e)
<1>1. l \in Seq(E) /\ r \in Seq(E) /\ Len(l) = Len(r)
  OBVIOUS
<1>2. ASSUME NEW i \in 1..Len(l) PROVE l[i] = r[i]
  OBVIOUS
<1>. HIDE DEF l, r
<1>. QED  BY <1>1, <1>2

(* A recorded change.                                                      *)
LEMMA GrownRecorded ==
    ASSUME NEW B \in SUBSET Docs, NEW o \in Seq(Entries), NEW db0 \in Indexes,
           NEW db, Grown(B, o, db0, db), NEW b \in Indexes, NEW e \in Entries,
           b.log = Append(db.log, e), Recorded(db.docs, b.docs, e)
    PROVE  Grown(B, o, db0, b)
<1>1. PICK x \in Seq(Entries) : db.log = db0.log \o x /\ Sound(B, db.docs, db.log, o \o x)
  BY DEF Grown
<1>2. /\ db.docs \in SUBSET Docs /\ db.log \in Seq(Entries) /\ db0.log \in Seq(Entries)
      /\ b.docs \in SUBSET Docs
  BY DEF Grown, Indexes
<1>3. /\ Append(x, e) \in Seq(Entries) /\ o \o x \in Seq(Entries)
      /\ b.log = db0.log \o Append(x, e)
      /\ o \o Append(x, e) = Append(o \o x, e)
  <2>1. Append(x, e) \in Seq(Entries) /\ o \o x \in Seq(Entries)
    BY <1>1
  <2>2. db0.log \o Append(x, e) = Append(db0.log \o x, e)
    <3>. DEFINE l0 == db0.log
    <3>1. l0 \in Seq(Entries)
      BY <1>2
    <3>. HIDE DEF l0
    <3>2. l0 \o Append(x, e) = Append(l0 \o x, e)
      BY <3>1, ConcatAppend
    <3>. QED  BY <3>2 DEF l0
  <2>3. o \o Append(x, e) = Append(o \o x, e)
    BY <1>1, ConcatAppend
  <2>. QED  BY <1>1, <2>1, <2>2, <2>3
<1>4. Same(e, e)
  BY DEF Same
<1>5. Sound(B, b.docs, Append(db.log, e), Append(o \o x, e))
  BY <1>1, <1>2, <1>3, <1>4, SoundRecorded
<1>6. Sound(B, b.docs, b.log, o \o Append(x, e))
  BY <1>3, <1>5
<1>. QED  BY <1>3, <1>6 DEF Grown

(* One deletion, and one memory of a batch.                                *)
LEMMA DeleteGrows ==
    ASSUME NEW B \in SUBSET Docs, NEW o \in Seq(Entries), NEW db0 \in Indexes,
           NEW db, Grown(B, o, db0, db), NEW id
    PROVE  Grown(B, o, db0, DeleteMemory(db, id))
<1>1. db \in Indexes
  BY DEF Grown
<1>. QED  BY <1>1, DeleteRecorded, GrownRecorded

(* The memory replaces one of the same id, on the record.                  *)
LEMMA AddGrows ==
    ASSUME NEW B \in SUBSET Docs, NEW o \in Seq(Entries), NEW db0 \in Indexes,
           NEW db, Grown(B, o, db0, db), NEW doc \in Docs
    PROVE  Grown(B, o, db0, AddMemory(db, doc))
<1>. DEFINE c == DeleteMemory(db, doc.id)
<1>1. Grown(B, o, db0, c)
  BY DeleteGrows
<1>2. AddMemory(db, doc) = Put(c, doc)
  BY DEF AddMemory
<1>. HIDE DEF c
<1>3. c \in Indexes
  BY <1>1 DEF Grown
<1>4. c = [c EXCEPT !.docs = c.docs]
  BY <1>3 DEF Indexes
<1>5. /\ Put(c, doc) \in Indexes
      /\ Put(c, doc).log = Append(c.log, AddEntry(doc))
      /\ AddEntry(doc) \in Entries
      /\ Recorded(c.docs, Put(c, doc).docs, AddEntry(doc))
  <2>1. c.docs \in SUBSET c.docs /\ c.docs \ c.docs = {}
    OBVIOUS
  <2>. QED  BY <1>3, <1>4, <2>1, PutRecorded
<1>. QED  BY <1>1, <1>2, <1>5, GrownRecorded

(* A finite set has a sequence of its elements.                            *)
LEMMA SetToSeqType ==
    ASSUME NEW S, IsFiniteSet(S)
    PROVE  SetToSeq(S) \in Seq(S)
<1>1. Cardinality(S) \in Nat /\ ExistsBijection(1..Cardinality(S), S)
  BY FS_CardinalityType
<1>2. \E f \in [1..Cardinality(S) -> S] : IsInjective(f)
  BY <1>1 DEF ExistsBijection, Bijection, Injection, IsInjective
<1>3. SetToSeq(S) \in [1..Cardinality(S) -> S]
  BY <1>2 DEF SetToSeq
<1>. QED  BY <1>1, <1>3

(* delete_memories, by the first step after which the claim would fail.    *)
LEMMA DeletesGrow ==
    ASSUME NEW B \in SUBSET Docs, NEW o \in Seq(Entries), NEW db0 \in Indexes,
           NEW db, Grown(B, o, db0, db), NEW ids, IsFiniteSet(ids)
    PROVE  Grown(B, o, db0, DeleteMemories(db, ids))
<1>. DEFINE seq == SetToSeq(ids)
<1>1. seq \in Seq(ids)
  BY SetToSeqType
<1>2. PICK h : Course("delete", h, db, seq) /\ FoldLeft(DeleteMemory, db, seq) = h[Len(seq)]
  BY <1>1, FoldDelete
<1>3. DeleteMemories(db, ids) = h[Len(seq)]
  BY <1>2 DEF DeleteMemories
<1>. HIDE DEF seq
<1>. DEFINE Bad == {k \in 0..Len(seq) : ~Grown(B, o, db0, h[k])}
<1>4. ASSUME Bad # {} PROVE FALSE
  <2>1. Bad \in SUBSET Nat
    OBVIOUS
  <2>2. PICK k \in Bad : \A j \in Bad : k <= j
    <3>. HIDE DEF Bad
    <3>. QED  BY <1>4, <2>1, LeastNumber
  <2>3. k # 0
    BY <1>2, <2>2 DEF Course
  <2>4. k \in 1..Len(seq) /\ k - 1 \in 0..Len(seq) /\ ~(k <= k - 1)
    BY <1>1, <2>2, <2>3
  <2>5. Grown(B, o, db0, h[k - 1])
    BY <2>2, <2>4
  <2>6. h[k] = DeleteMemory(h[k - 1], seq[k])
    BY <1>2, <2>4 DEF Course, Step
  <2>. QED  BY <2>2, <2>5, <2>6, DeleteGrows
<1>5. Len(seq) \in 0..Len(seq)
  BY <1>1
<1>. QED  BY <1>3, <1>4, <1>5

(* The memories of a batch, the same way.                                  *)
LEMMA AddsGrow ==
    ASSUME NEW B \in SUBSET Docs, NEW o \in Seq(Entries), NEW db0 \in Indexes,
           NEW db, Grown(B, o, db0, db), NEW seq \in Seq(Docs)
    PROVE  Grown(B, o, db0, FoldLeft(AddMemory, db, seq))
<1>2. PICK h : Course("add", h, db, seq) /\ FoldLeft(AddMemory, db, seq) = h[Len(seq)]
  BY FoldAdd
<1>. DEFINE Bad == {k \in 0..Len(seq) : ~Grown(B, o, db0, h[k])}
<1>4. ASSUME Bad # {} PROVE FALSE
  <2>1. Bad \in SUBSET Nat
    OBVIOUS
  <2>2. PICK k \in Bad : \A j \in Bad : k <= j
    <3>. HIDE DEF Bad
    <3>. QED  BY <1>4, <2>1, LeastNumber
  <2>3. k # 0
    BY <1>2, <2>2 DEF Course
  <2>4. k \in 1..Len(seq) /\ k - 1 \in 0..Len(seq) /\ ~(k <= k - 1)
    BY <2>2, <2>3
  <2>5. Grown(B, o, db0, h[k - 1])
    BY <2>2, <2>4
  <2>6. h[k] = AddMemory(h[k - 1], seq[k]) /\ seq[k] \in Docs
    BY <1>2, <2>4 DEF Course, Step
  <2>. QED  BY <2>2, <2>5, <2>6, AddGrows
<1>5. Len(seq) \in 0..Len(seq)
  OBVIOUS
<1>. QED  BY <1>2, <1>4, <1>5

(* reset_memory: every deletion, then the reset.                           *)
LEMMA ResetGrows ==
    ASSUME NEW B \in SUBSET Docs, NEW o \in Seq(Entries), NEW db0 \in Indexes,
           NEW db, Grown(B, o, db0, db)
    PROVE  Grown(B, o, db0, ResetMemory(db))
<1>. DEFINE ids == {d.id : d \in db.docs}
            c == DeleteMemories(db, ids)
<1>1. IsFiniteSet(ids)
  <2>1. IsFiniteSet(db.docs)
    BY DEF Grown, Indexes
  <2>2. [d \in db.docs |-> d.id] \in Surjection(db.docs, ids)
    BY DEF Surjection
  <2>. QED  BY <2>1, <2>2, FS_Surjection
<1>. HIDE DEF ids
<1>2. Grown(B, o, db0, c)
  BY <1>1, DeletesGrow
<1>3. ResetMemory(db) = ResetIndex(c)
  BY DEF ResetMemory, ids
<1>. HIDE DEF c
<1>4. c \in Indexes
  BY <1>2 DEF Grown
<1>. QED  BY <1>2, <1>3, <1>4, ResetRecorded, GrownRecorded

-----------------------------------------------------------------------------
(* No document is one that the history removes in the end.                 *)
Removed(docs, o) == \A d \in docs : ~StandingRemove(o, d.id)

(* One step of import_with_changes, of which o was replayed before.        *)
LEMMA ReplayStep ==
    ASSUME NEW B \in SUBSET Docs, NEW o \in Seq(Entries), NEW db \in Indexes,
           NEW e \in Entries, Sound(B, db.docs, db.log, o), Removed(db.docs, o)
    PROVE  /\ Replay(db, e) \in Indexes
           /\ Sound(B, Replay(db, e).docs, Replay(db, e).log, Append(o, e))
           /\ Removed(Replay(db, e).docs, Append(o, e))
<1>. DEFINE b == Replay(db, e)
<1>1. /\ b \in Indexes
      /\ \/ /\ b = db
            /\ e.op = "Create" \/ (e.op = "Remove" /\ \A d \in db.docs : d.id # e.id)
         \/ \E f \in Entries : /\ Same(e, f)
                               /\ b.log = Append(db.log, f)
                               /\ Recorded(db.docs, b.docs, f)
  BY ReplayRecorded
<1>. HIDE DEF b
<1>2. /\ db.docs \in SUBSET Docs /\ db.log \in Seq(Entries) /\ b.docs \in SUBSET Docs
  BY <1>1 DEF Indexes
<1>3. CASE /\ b = db
           /\ e.op = "Create" \/ (e.op = "Remove" /\ \A d \in db.docs : d.id # e.id)
  <2>1. Sound(B, b.docs, b.log, Append(o, e))
    BY <1>2, <1>3, SoundSkipped
  <2>2. Removed(b.docs, Append(o, e))
    BY <1>3, OneMore DEF Removed
  <2>. QED  BY <1>1, <2>1, <2>2 DEF b
<1>4. CASE \E f \in Entries : /\ Same(e, f)
                              /\ b.log = Append(db.log, f)
                              /\ Recorded(db.docs, b.docs, f)
  <2>1. PICK f \in Entries : /\ Same(e, f)
                             /\ b.log = Append(db.log, f)
                             /\ Recorded(db.docs, b.docs, f)
    BY <1>4
  <2>2. Sound(B, b.docs, b.log, Append(o, e))
    BY <1>2, <2>1, SoundRecorded
  <2>3. ASSUME NEW d \in b.docs PROVE ~StandingRemove(Append(o, e), d.id)
    <3>1. ~(e.op = "Remove" /\ e.id = d.id)
      BY <2>1 DEF Recorded, Same
    <3>2. d \in db.docs => ~StandingRemove(o, d.id)
      BY DEF Removed
    <3>3. d \notin db.docs => e.id = d.id
      BY <2>1 DEF Recorded, Doc, Same
    <3>. QED  BY <3>1, <3>2, <3>3, OneMore
  <2>. QED  BY <1>1, <2>2, <2>3 DEF b, Removed
<1>. QED  BY <1>1, <1>3, <1>4

(* A prefix and the next element.                                          *)
LEMMA NextPrefix ==
    ASSUME NEW E, NEW s \in Seq(E), NEW k \in 1..Len(s)
    PROVE  SubSeq(s, 1, k) = Append(SubSeq(s, 1, k - 1), s[k]) /\ SubSeq(s, 1, k - 1) \in Seq(E)
<1>. DEFINE l == SubSeq(s, 1, k)
            r == Append(SubSeq(s, 1, k - 1), s[k])
<1>1. l \in Seq(E) /\ r \in Seq(E) /\ Len(l) = Len(r) /\ SubSeq(s, 1, k - 1) \in Seq(E)
  OBVIOUS
<1>2. ASSUME NEW i \in 1..Len(l) PROVE l[i] = r[i]
  OBVIOUS
<1>. HIDE DEF l, r
<1>3. l = r
  BY <1>1, <1>2
<1>. QED  BY <1>1, <1>3 DEF l, r

(* import_with_changes: the new index is sound for the new base and the    *)
(* replayed log, and what the log removes in the end is gone.              *)
LEMMA ImportSound ==
    ASSUME NEW B \in SUBSET Docs, IsFiniteSet(B), NEW log \in Seq(Entries)
    PROVE  /\ ImportWithChanges(B, log) \in Indexes
           /\ Sound(B, ImportWithChanges(B, log).docs, ImportWithChanges(B, log).log, log)
           /\ Removed(ImportWithChanges(B, log).docs, log)
<1>. DEFINE Good(db, o) == /\ db \in Indexes
                           /\ Sound(B, db.docs, db.log, o)
                           /\ Removed(db.docs, o)
<1>1. PICK h : /\ Course("replay", h, Import(B), log)
               /\ FoldLeft(Replay, Import(B), log) = h[Len(log)]
  BY FoldReplay
<1>2. Good(Import(B), << >>)
  <2>1. Import(B) = [docs |-> B, log |-> << >>] /\ << >> \in Seq(Entries)
    BY DEF Import
  <2>2. Import(B) \in Indexes
    BY <2>1, IndexType
  <2>3. 1..Len(<< >>) = {}
    OBVIOUS
  <2>4. Removed(B, << >>)
    BY <2>3 DEF Removed, StandingRemove
  <2>. QED  BY <2>1, <2>2, <2>4, SoundEmpty
<1>3. ASSUME NEW db, NEW o \in Seq(Entries), NEW e \in Entries, Good(db, o)
      PROVE  Good(Replay(db, e), Append(o, e))
  BY <1>3, ReplayStep
<1>. HIDE DEF Good
<1>. DEFINE Bad == {k \in 0..Len(log) : ~Good(h[k], SubSeq(log, 1, k))}
<1>4. ASSUME Bad # {} PROVE FALSE
  <2>1. Bad \in SUBSET Nat
    OBVIOUS
  <2>2. PICK k \in Bad : \A j \in Bad : k <= j
    <3>. HIDE DEF Bad
    <3>. QED  BY <1>4, <2>1, LeastNumber
  <2>3. k # 0
    <3>1. SubSeq(log, 1, 0) = << >>
      OBVIOUS
    <3>. QED  BY <1>1, <1>2, <2>2, <3>1 DEF Course
  <2>4. k \in 1..Len(log) /\ k - 1 \in 0..Len(log) /\ ~(k <= k - 1)
    BY <2>2, <2>3
  <2>5. Good(h[k - 1], SubSeq(log, 1, k - 1))
    BY <2>2, <2>4
  <2>6. h[k] = Replay(h[k - 1], log[k]) /\ log[k] \in Entries
    BY <1>1, <2>4 DEF Course, Step
  <2>7. /\ SubSeq(log, 1, k) = Append(SubSeq(log, 1, k - 1), log[k])
        /\ SubSeq(log, 1, k - 1) \in Seq(Entries)
    BY <2>4, NextPrefix
  <2>. QED  BY <1>3, <2>2, <2>5, <2>6, <2>7
<1>5. Len(log) \in 0..Len(log) /\ SubSeq(log, 1, Len(log)) = log
  OBVIOUS
<1>6. Good(h[Len(log)], log)
  BY <1>4, <1>5
<1>. QED  BY <1>1, <1>6 DEF Good, ImportWithChanges

-----------------------------------------------------------------------------
(* The contexts of sessions, the stored index r, and what relates the two: *)
(* a session whose version is the stored one has a sound copy of what is   *)
(* stored, and one that has stored its copy has an older version.          *)
Contexts == {c \in [version : Nat, docs : SUBSET Docs, log : Seq(Entries),
                    size : Nat, keep : BOOLEAN] : IsFiniteSet(c.docs)}
Stored == {r \in [version : Nat, docs : SUBSET Docs] :
             IsFiniteSet(r.docs) /\ (r.version = 0 => r.docs = {})}
Base(r, c) == IF c.version = r.version THEN r.docs ELSE {}

SessionSound(r, c, o, where) ==
    /\ c \in Contexts
    /\ o \in Seq(Entries)
    /\ c.version <= r.version
    /\ Sound(Base(r, c), c.docs, c.log, o)
    /\ where = "flush" => c.log = << >> \/ c.version < r.version

(* The inductive invariant.                                                *)
MemoryInv ==
    /\ remote \in Stored
    /\ next_blob \in Nat
    /\ ctx = [s \in Sessions |-> ctx[s]]
    /\ pc = [s \in Sessions |-> pc[s]]
    /\ ops = [s \in Sessions |-> ops[s]]
    /\ \A s \in Sessions :
          pc[s] # "idle" \/ ctx[s] # None => SessionSound(remote, ctx[s], ops[s], pc[s])

(* A step of one session that leaves the stored index alone.               *)
LEMMA OneSession ==
    ASSUME MemoryInv, NEW s \in Sessions, remote' = remote, next_blob' \in Nat,
           NEW c, NEW p, NEW o,
           ctx' = [ctx EXCEPT ![s] = c],
           pc'  = [pc EXCEPT ![s] = p],
           ops' = [ops EXCEPT ![s] = o],
           p # "idle" \/ c # None => SessionSound(remote, c, o, p)
    PROVE  MemoryInv'
<1>1. /\ ctx'[s] = c /\ pc'[s] = p /\ ops'[s] = o
      /\ \A r \in Sessions \ {s} : ctx'[r] = ctx[r] /\ pc'[r] = pc[r] /\ ops'[r] = ops[r]
      /\ ctx' = [r \in Sessions |-> ctx'[r]]
      /\ pc' = [r \in Sessions |-> pc'[r]]
      /\ ops' = [r \in Sessions |-> ops'[r]]
  BY DEF MemoryInv
<1>2. \A r \in Sessions :
          pc'[r] # "idle" \/ ctx'[r] # None =>
              SessionSound(remote', ctx'[r], ops'[r], pc'[r])
  BY <1>1 DEF MemoryInv
<1>3. remote' \in Stored
  BY DEF MemoryInv
<1>. QED  BY <1>1, <1>2, <1>3 DEF MemoryInv

(* The fields of a context.                                                *)
LEMMA ContextType ==
    ASSUME NEW c \in Contexts
    PROVE  /\ c.version \in Nat /\ c.docs \in SUBSET Docs /\ c.log \in Seq(Entries)
           /\ c.size \in Nat /\ c.keep \in BOOLEAN /\ IsFiniteSet(c.docs)
           /\ [docs |-> c.docs, log |-> c.log] \in Indexes
  BY IndexType DEF Contexts

(* A sound session's index is where its next requests start.               *)
LEMMA GrownStart ==
    ASSUME NEW B \in SUBSET Docs, NEW o \in Seq(Entries), NEW db \in Indexes,
           Sound(B, db.docs, db.log, o)
    PROVE  Grown(B, o, db, db)
<1>1. << >> \in Seq(Entries) /\ db.log \o << >> = db.log /\ o \o << >> = o
  BY DEF Indexes
<1>. QED  BY <1>1 DEF Grown

(* The entries that were appended.                                         *)
LEMMA SinceConcat ==
    ASSUME NEW E, NEW s \in Seq(E), NEW x \in Seq(E)
    PROVE  Since(s \o x, s) = x
<1>. DEFINE l == SubSeq(s \o x, Len(s) + 1, Len(s \o x))
<1>1. l \in Seq(E) /\ Len(l) = Len(x)
  OBVIOUS
<1>2. ASSUME NEW i \in 1..Len(l) PROVE l[i] = x[i]
  OBVIOUS
<1>3. Since(s \o x, s) = l
  BY DEF Since
<1>. HIDE DEF l
<1>. QED  BY <1>1, <1>2, <1>3

(* A request that changes the session's own index.                         *)
LEMMA MutateSound ==
    ASSUME MemoryInv, NEW s \in Sessions, Working(s), NEW db, NEW size \in Nat,
           Grown(Base(remote, ctx[s]), ops[s], [docs |-> ctx[s].docs, log |-> ctx[s].log], db),
           Mutate(s, db, size), remote' = remote, next_blob' \in Nat, UNCHANGED pc
    PROVE  MemoryInv'
<1>. DEFINE c == [ctx[s] EXCEPT !.docs = db.docs, !.log = db.log, !.size = size]
            o == ops[s] \o Since(db.log, ctx[s].log)
<1>1. SessionSound(remote, ctx[s], ops[s], pc[s]) /\ pc[s] = "idle"
  BY DEF MemoryInv, Working
<1>2. /\ ctx[s] \in Contexts /\ ctx[s].log \in Seq(Entries) /\ ops[s] \in Seq(Entries)
      /\ ctx[s].version \in Nat /\ ctx[s].version <= remote.version
  BY <1>1, ContextType DEF SessionSound
<1>3. PICK x \in Seq(Entries) : /\ db.log = ctx[s].log \o x
                                /\ Sound(Base(remote, ctx[s]), db.docs, db.log, ops[s] \o x)
  BY DEF Grown
<1>4. o = ops[s] \o x /\ o \in Seq(Entries)
  <2>1. Since(db.log, ctx[s].log) = x
    BY <1>2, <1>3, SinceConcat
  <2>. QED  BY <1>2, <2>1
<1>5. db.docs \in SUBSET Docs /\ IsFiniteSet(db.docs) /\ db.log \in Seq(Entries)
  BY DEF Grown, Indexes
<1>6. /\ c \in Contexts /\ c.version = ctx[s].version
      /\ c.docs = db.docs /\ c.log = db.log
  BY <1>2, <1>5 DEF Contexts
<1>7. /\ ctx' = [ctx EXCEPT ![s] = c] /\ ops' = [ops EXCEPT ![s] = o]
      /\ pc' = [pc EXCEPT ![s] = "idle"]
  BY <1>1 DEF Mutate, MemoryInv
<1>. HIDE DEF c, o
<1>8. SessionSound(remote, c, o, "idle")
  BY <1>2, <1>3, <1>4, <1>6 DEF SessionSound, Base
<1>. QED  BY <1>7, <1>8, OneSession

(* key_sync_handler: a context made of what is stored.                     *)
LEMMA KeySyncSound ==
    ASSUME MemoryInv, NEW s \in Sessions, KeySync(s)
    PROVE  MemoryInv'
<1>1. PICK expired \in SUBSET {d.id : d \in remote.docs}, keep \in KeepChoices :
          /\ ctx' = [ctx EXCEPT ![s] =
                       UserSessionContext(DeleteMemories(GetOrCreateDb, expired), keep)]
          /\ ops' = [ops EXCEPT ![s] = DeleteMemories(GetOrCreateDb, expired).log]
  BY DEF KeySync
<1>. DEFINE db0 == GetOrCreateDb
            db == DeleteMemories(db0, expired)
            c == UserSessionContext(db, keep)
<1>2. /\ remote.version \in Nat /\ remote.docs \in SUBSET Docs /\ IsFiniteSet(remote.docs)
      /\ remote.version = 0 => remote.docs = {}
  BY DEF MemoryInv, Stored
<1>3. db0 \in Indexes /\ Sound(remote.docs, db0.docs, db0.log, db0.log)
  <2>1. << >> \in Seq(Entries) /\ Sound(remote.docs, remote.docs, << >>, << >>)
    BY SoundEmpty
  <2>2. CASE remote.version = 0
    <3>1. /\ CreateEntry \in Entries /\ CreateEntry.op = "Create" /\ Same(CreateEntry, CreateEntry)
      BY DEF CreateEntry, Entry, Entries, Same
    <3>2. Recorded({}, {}, CreateEntry)
      BY <3>1 DEF Recorded
    <3>3. {} \in SUBSET Docs /\ Append(<< >>, CreateEntry) = <<CreateEntry>>
          /\ <<CreateEntry>> \in Seq(Entries)
      BY <3>1
    <3>4. Sound({}, {}, <<CreateEntry>>, <<CreateEntry>>)
      <4>1. Sound({}, {}, << >>, << >>)
        BY <1>2, <2>1, <2>2
      <4>2. Sound({}, {}, Append(<< >>, CreateEntry), Append(<< >>, CreateEntry))
        BY <2>1, <3>1, <3>2, <3>3, <4>1, SoundRecorded
      <4>. QED  BY <3>3, <4>2
    <3>5. db0 = [docs |-> {}, log |-> <<CreateEntry>>]
      BY <2>2 DEF GetOrCreateDb, NewIndex
    <3>. QED  BY <1>2, <2>2, <3>3, <3>4, <3>5, IndexType
  <2>3. CASE remote.version # 0
    <3>1. db0 = [docs |-> remote.docs, log |-> << >>]
      BY <2>3 DEF GetOrCreateDb, Import
    <3>. QED  BY <1>2, <2>1, <3>1, IndexType
  <2>. QED  BY <2>2, <2>3
<1>4. db0.log \in Seq(Entries)
  BY <1>3 DEF Indexes
<1>. HIDE DEF db0
<1>5. IsFiniteSet(expired)
  <2>1. [d \in remote.docs |-> d.id] \in Surjection(remote.docs, {d.id : d \in remote.docs})
    BY DEF Surjection
  <2>. QED  BY <1>2, <2>1, FS_Surjection, FS_Subset
<1>6. Grown(remote.docs, db0.log, db0, db)
  BY <1>2, <1>3, <1>4, <1>5, GrownStart, DeletesGrow
<1>. HIDE DEF db
<1>7. /\ db.docs \in SUBSET Docs /\ IsFiniteSet(db.docs) /\ db.log \in Seq(Entries)
      /\ Sound(remote.docs, db.docs, db.log, db.log)
  BY <1>6 DEF Grown, Indexes
<1>8. /\ c \in Contexts /\ c.version = remote.version /\ c.docs = db.docs /\ c.log = db.log
  <2>1. Cardinality(remote.docs) \in Nat
    BY <1>2, FS_CardinalityType
  <2>2. keep \in BOOLEAN
    BY MemoryAssumption DEF MemoryAssumption
  <2>. QED  BY <1>2, <1>7, <2>1, <2>2 DEF Contexts, UserSessionContext
<1>9. /\ ctx' = [ctx EXCEPT ![s] = c] /\ ops' = [ops EXCEPT ![s] = db.log]
      /\ pc' = [pc EXCEPT ![s] = "idle"] /\ remote' = remote /\ next_blob' \in Nat
  BY <1>1 DEF KeySync, db, db0, store, MemoryInv
<1>. HIDE DEF c
<1>10. SessionSound(remote, c, db.log, "idle")
  BY <1>2, <1>7, <1>8 DEF SessionSound, Base
<1>. QED  BY <1>9, <1>10, OneSession

(* The requests that change the session's index.                           *)
LEMMA MutationsSound ==
    ASSUME MemoryInv, NEW s \in Sessions,
           \/ \E batch \in Batches : AddMemories(s, batch)
           \/ \E id \in MemoryIds : DeleteMemoryRequest(s, id)
           \/ ResetMemoryRequest(s)
    PROVE  MemoryInv'
<1>. DEFINE B == Base(remote, ctx[s])
            db0 == [docs |-> ctx[s].docs, log |-> ctx[s].log]
<1>1. Working(s)
  BY DEF AddMemories, DeleteMemoryRequest, ResetMemoryRequest
<1>2. /\ SessionSound(remote, ctx[s], ops[s], pc[s])
      /\ ctx[s] \in Contexts /\ ops[s] \in Seq(Entries) /\ next_blob \in Nat
  BY <1>1 DEF MemoryInv, SessionSound, Working
<1>3. db0 \in Indexes /\ ctx[s].size \in Nat
  BY <1>2, ContextType
<1>4. B \in SUBSET Docs
  BY DEF MemoryInv, Stored, Base
<1>5. Grown(B, ops[s], db0, db0)
  BY <1>2, <1>3, <1>4, GrownStart DEF SessionSound
<1>6. ASSUME NEW batch \in Batches, AddMemories(s, batch) PROVE MemoryInv'
  <2>. DEFINE docs == [i \in 1..Len(batch) |->
                         [id |-> batch[i].id, name |-> batch[i].name,
                          blob |-> next_blob + i - 1]]
  <2>1. batch \in Seq(Memories)
    <3>1. PICK n \in 1..MaxBatch : batch \in [1..n -> Memories]
      BY DEF Batches
    <3>2. n \in Nat
      BY <3>1, MemoryAssumption DEF MemoryAssumption
    <3>. QED  BY <3>1, <3>2
  <2>2. Len(batch) \in Nat /\ \A i \in 1..Len(batch) : batch[i] \in Memories
    BY <2>1
  <2>3. docs \in Seq(Docs)
    <3>1. ASSUME NEW i \in 1..Len(batch)
          PROVE  [id |-> batch[i].id, name |-> batch[i].name,
                  blob |-> next_blob + i - 1] \in Docs
      <4>1. next_blob + i - 1 \in Nat
        BY <1>2, <2>2
      <4>. QED  BY <2>2, <4>1 DEF Memories, Docs
    <3>. QED  BY <2>2, <3>1
  <2>4. /\ Mutate(s, FoldLeft(AddMemory, db0, docs), ctx[s].size + Len(batch))
        /\ next_blob' = next_blob + Len(batch) /\ remote' = remote /\ UNCHANGED pc
    BY <1>6 DEF AddMemories, IndexMemories
  <2>. HIDE DEF docs
  <2>5. Grown(B, ops[s], db0, FoldLeft(AddMemory, db0, docs))
    BY <1>2, <1>3, <1>4, <1>5, <2>3, AddsGrow
  <2>6. ctx[s].size + Len(batch) \in Nat /\ next_blob' \in Nat
    BY <1>2, <1>3, <2>2, <2>4
  <2>. QED  BY <1>1, <2>4, <2>5, <2>6, MutateSound
<1>7. ASSUME NEW id \in MemoryIds, DeleteMemoryRequest(s, id) PROVE MemoryInv'
  <2>1. /\ Mutate(s, DeleteMemory(db0, id), ctx[s].size)
        /\ next_blob' \in Nat /\ remote' = remote /\ UNCHANGED pc
    BY <1>2, <1>7 DEF DeleteMemoryRequest, store
  <2>2. Grown(B, ops[s], db0, DeleteMemory(db0, id))
    BY <1>2, <1>3, <1>4, <1>5, DeleteGrows
  <2>. QED  BY <1>1, <1>3, <2>1, <2>2, MutateSound
<1>8. ASSUME ResetMemoryRequest(s) PROVE MemoryInv'
  <2>1. /\ Mutate(s, ResetMemory(db0), 0)
        /\ next_blob' \in Nat /\ remote' = remote /\ UNCHANGED pc
    BY <1>2, <1>8 DEF ResetMemoryRequest, store
  <2>2. Grown(B, ops[s], db0, ResetMemory(db0))
    BY <1>2, <1>3, <1>4, <1>5, ResetGrows
  <2>3. 0 \in Nat
    OBVIOUS
  <2>. QED  BY <1>1, <2>1, <2>2, <2>3, MutateSound
<1>. QED  BY <1>6, <1>7, <1>8

(* pull_and_rebase leaves a sound session, which removes what its log did. *)
Pulled(c) == IF remote.version \in {0, c.version} THEN c ELSE Rebased(c)
LEMMA PulledSound ==
    ASSUME remote \in Stored, NEW c, NEW o, NEW p, SessionSound(remote, c, o, p)
    PROVE  /\ \A q : q # "flush" => SessionSound(remote, Pulled(c), o, q)
           /\ Removed(Pulled(c).docs, c.log)
<1>1. /\ c \in Contexts /\ c.version \in Nat /\ c.log \in Seq(Entries) /\ o \in Seq(Entries)
      /\ Sound(Base(remote, c), c.docs, c.log, o) /\ c.version <= remote.version
  BY ContextType DEF SessionSound
<1>2. remote.version \in Nat /\ remote.docs \in SUBSET Docs /\ IsFiniteSet(remote.docs)
  BY DEF Stored
<1>3. CASE remote.version \in {0, c.version}
  BY <1>1, <1>3 DEF Pulled, SessionSound, Removed, Sound
<1>4. CASE remote.version \notin {0, c.version}
  <2>. DEFINE db == ImportWithChanges(remote.docs, c.log)
              d == [c EXCEPT !.version = remote.version, !.docs = db.docs,
                             !.log = db.log, !.size = Cardinality(db.docs)]
  <2>1. Pulled(c) = d
    BY <1>4 DEF Pulled, Rebased
  <2>2. /\ db \in Indexes /\ Sound(remote.docs, db.docs, db.log, c.log)
        /\ Removed(db.docs, c.log)
    BY <1>1, <1>2, ImportSound
  <2>. HIDE DEF db
  <2>3. db.docs \in SUBSET Docs /\ db.log \in Seq(Entries) /\ IsFiniteSet(db.docs)
    BY <2>2 DEF Indexes
  <2>4. Cardinality(db.docs) \in Nat
    BY <2>3, FS_CardinalityType
  <2>5. /\ d \in Contexts /\ d.version = remote.version
        /\ d.docs = db.docs /\ d.log = db.log
    BY <1>1, <1>2, <2>3, <2>4 DEF Contexts
  <2>. HIDE DEF d
  <2>6. Sound(remote.docs, db.docs, db.log, o)
    BY <1>1, <2>2, SoundComposed
  <2>. QED  BY <1>1, <1>2, <2>1, <2>2, <2>5, <2>6 DEF SessionSound, Base
<1>. QED  BY <1>3, <1>4

(* The steps of a request or of the worker that leave the store alone.     *)
LEMMA QuietStepSound ==
    ASSUME MemoryInv, NEW s \in Sessions,
           \/ AddMemoryFails(s) \/ Sync(s) \/ Close(s) \/ Pull(s) \/ NothingToPersist(s)
           \/ IndexTooLarge(s) \/ Conflict(s) \/ Repull(s) \/ GiveUp(s) \/ Flush(s)
           \/ WorkerTake(s) \/ RpcFails(s)
    PROVE  MemoryInv'
<1>1. /\ remote \in Stored /\ next_blob \in Nat
      /\ ctx = [r \in Sessions |-> ctx[r]]
      /\ pc = [r \in Sessions |-> pc[r]]
      /\ ops = [r \in Sessions |-> ops[r]]
      /\ ctx = [ctx EXCEPT ![s] = ctx[s]] /\ pc = [pc EXCEPT ![s] = pc[s]]
      /\ ops = [ops EXCEPT ![s] = ops[s]]
      /\ pc[s] # "idle" \/ ctx[s] # None => SessionSound(remote, ctx[s], ops[s], pc[s])
  BY DEF MemoryInv
<1>2. \A p : (pc[s] # "idle" \/ ctx[s] # None) /\ p # "flush" =>
          SessionSound(remote, ctx[s], ops[s], p)
  BY <1>1 DEF SessionSound
<1>3. CASE AddMemoryFails(s)
  <2>1. next_blob' \in Nat /\ UNCHANGED <<remote, ctx, pc, ops>>
    BY <1>1, <1>3 DEF AddMemoryFails
  <2>. QED  BY <1>1, <2>1, OneSession
<1>4. CASE Sync(s)
  <2>1. /\ UNCHANGED <<remote, next_blob, ctx, ops>> /\ ctx[s] # None
        /\ pc' = [pc EXCEPT ![s] = "pull"]
    BY <1>4 DEF Sync, Working, Goto, store
  <2>. QED  BY <1>1, <1>2, <2>1, OneSession
<1>5. CASE Conflict(s) \/ WorkerTake(s)
  <2>1. /\ UNCHANGED <<remote, next_blob, ctx, ops>> /\ pc[s] # "idle"
        /\ pc' = [pc EXCEPT ![s] = "repull"] \/ pc' = [pc EXCEPT ![s] = "write"]
    BY <1>5 DEF Conflict, WorkerTake, Writing, Goto, store
  <2>. QED  BY <1>1, <1>2, <2>1, OneSession
<1>6. CASE NothingToPersist(s)
  <2>1. /\ UNCHANGED <<remote, next_blob, ctx, ops>> /\ pc[s] # "idle"
        /\ ctx[s].log = << >> /\ pc' = [pc EXCEPT ![s] = "flush"]
    BY <1>6 DEF NothingToPersist, Goto, store
  <2>2. SessionSound(remote, ctx[s], ops[s], "flush")
    BY <1>1, <2>1 DEF SessionSound
  <2>. QED  BY <1>1, <2>1, <2>2, OneSession
<1>7. CASE Pull(s) \/ Repull(s)
  <2>1. /\ UNCHANGED <<remote, next_blob, ops>> /\ pc[s] # "idle"
        /\ pc' = [pc EXCEPT ![s] = "write"] /\ ctx' = [ctx EXCEPT ![s] = Pulled(ctx[s])]
    BY <1>7 DEF Pull, Repull, PullAndRebase, Pulled, Goto, store
  <2>2. SessionSound(remote, Pulled(ctx[s]), ops[s], "write")
    BY <1>1, <2>1, PulledSound
  <2>. QED  BY <1>1, <2>1, <2>2, OneSession
<1>8. ASSUME NEW c, NEW o, SessionSound(remote, c, o, "idle"),
             remote' = remote, next_blob' \in Nat, Finish(s),
             DropServed(s, [ctx EXCEPT ![s] = c]),
             \/ ops' = [ops EXCEPT ![s] = o]
             \/ ops' = [ops EXCEPT ![s] = IF Served(s) THEN << >> ELSE o]
      PROVE  MemoryInv'
  <2>1. pc' = [pc EXCEPT ![s] = "idle"]
    BY <1>8 DEF Finish, Goto
  <2>2. CASE Served(s)
    <3>1. ctx' = [ctx EXCEPT ![s] = None]
      BY <1>1, <1>8, <2>2 DEF DropServed
    <3>2. \E x : ops' = [ops EXCEPT ![s] = x]
      BY <1>8
    <3>. QED  BY <1>8, <2>1, <3>1, <3>2, OneSession
  <2>3. CASE ~Served(s)
    <3>1. ctx' = [ctx EXCEPT ![s] = c] /\ ops' = [ops EXCEPT ![s] = o]
      BY <1>1, <1>8, <2>3 DEF DropServed
    <3>. QED  BY <1>8, <2>1, <3>1, OneSession
  <2>. QED  BY <2>2, <2>3
<1>9. CASE IndexTooLarge(s) \/ RpcFails(s)
  <2>1. /\ Fail(s, ctx) /\ UNCHANGED <<remote, next_blob>> /\ pc[s] # "idle"
    BY <1>9 DEF IndexTooLarge, RpcFails, Writing, store
  <2>2. /\ Finish(s) /\ DropServed(s, [ctx EXCEPT ![s] = ctx[s]])
        /\ ops' = [ops EXCEPT ![s] = IF Served(s) THEN << >> ELSE ops[s]]
    BY <1>1, <2>1 DEF Fail
  <2>3. SessionSound(remote, ctx[s], ops[s], "idle")
    BY <1>2, <2>1
  <2>. QED  BY <1>1, <1>8, <2>1, <2>2, <2>3
<1>10. CASE GiveUp(s)
  <2>1. /\ UNCHANGED <<remote, next_blob>> /\ pc[s] # "idle"
        /\ Finish(s) /\ DropServed(s, [ctx EXCEPT ![s] = Pulled(ctx[s])])
        /\ ops' = [ops EXCEPT ![s] = IF Served(s) THEN << >> ELSE ops[s]]
    BY <1>1, <1>10 DEF GiveUp, Pulled, store
  <2>2. SessionSound(remote, Pulled(ctx[s]), ops[s], "idle")
    BY <1>1, <2>1, PulledSound
  <2>. QED  BY <1>1, <1>8, <2>1, <2>2
<1>11. CASE Flush(s)
  <2>. DEFINE c == [ctx[s] EXCEPT !.log = << >>]
  <2>1. /\ UNCHANGED <<remote, next_blob>> /\ pc[s] = "flush"
        /\ Finish(s) /\ DropServed(s, [ctx EXCEPT ![s] = c])
        /\ ops' = [ops EXCEPT ![s] = << >>]
    BY <1>1, <1>11 DEF Flush
  <2>2. /\ ctx[s] \in Contexts /\ ctx[s].version \in Nat /\ ctx[s].version <= remote.version
        /\ Sound(Base(remote, ctx[s]), ctx[s].docs, ctx[s].log, ops[s])
        /\ ctx[s].log = << >> \/ ctx[s].version < remote.version
        /\ remote.version \in Nat
    BY <1>1, <2>1, ContextType DEF SessionSound, Stored
  <2>3. << >> \in Seq(Entries)
    OBVIOUS
  <2>4. c \in Contexts /\ c.version = ctx[s].version /\ c.docs = ctx[s].docs /\ c.log = << >>
    BY <2>2, <2>3 DEF Contexts
  <2>. HIDE DEF c
  <2>5. Base(remote, c) \subseteq c.docs
    <3>1. CASE ctx[s].log = << >>
      <4>1. 1..Len(<< >>) = {}
        OBVIOUS
      <4>. QED  BY <2>2, <2>4, <3>1, <4>1 DEF Sound, Accounts, Base
    <3>2. CASE ctx[s].version < remote.version
      BY <2>2, <2>4, <3>2 DEF Base
    <3>. QED  BY <2>2, <3>1, <3>2
  <2>6. SessionSound(remote, c, << >>, "idle")
    BY <2>2, <2>3, <2>4, <2>5, SoundEmpty DEF SessionSound
  <2>. QED  BY <1>1, <1>8, <2>1, <2>6
<1>12. CASE Close(s)
  <2>1. /\ UNCHANGED <<remote, next_blob>> /\ ctx[s] # None
        /\ \/ /\ pc' = [pc EXCEPT ![s] = "queued"] /\ UNCHANGED <<ctx, ops>>
           \/ /\ pc' = [pc EXCEPT ![s] = "idle"] /\ ctx' = [ctx EXCEPT ![s] = None]
              /\ ops' = [ops EXCEPT ![s] = << >>]
    BY <1>12 DEF Close, Goto, store
  <2>. QED  BY <1>1, <1>2, <2>1, OneSession
<1>. QED  BY <1>3, <1>4, <1>5, <1>6, <1>7, <1>9, <1>10, <1>11, <1>12

(* The write that is accepted: from then on every session's version is     *)
(* older than the stored one, until it pulls.                              *)
LEMMA PersistSound ==
    ASSUME MemoryInv, ~VersionsRecur, NEW s \in Sessions, Persist(s)
    PROVE  MemoryInv'
<1>1. /\ remote' = [version |-> remote.version + 1, docs |-> ctx[s].docs]
      /\ pc' = [pc EXCEPT ![s] = "flush"] /\ UNCHANGED <<next_blob, ctx, ops>> /\ pc[s] = "write"
  BY DEF Persist, Writing, NewVersion, Goto
<1>2. SessionSound(remote, ctx[s], ops[s], pc[s])
  BY <1>1 DEF MemoryInv
<1>3. remote' \in Stored /\ remote.version \in Nat /\ remote'.version = remote.version + 1
  <2>1. remote.version \in Nat
    BY DEF MemoryInv, Stored
  <2>2. ctx[s].docs \in SUBSET Docs /\ IsFiniteSet(ctx[s].docs)
    BY <1>2, ContextType DEF SessionSound
  <2>. QED  BY <1>1, <2>1, <2>2 DEF Stored
<1>4. ASSUME NEW r \in Sessions, pc'[r] # "idle" \/ ctx'[r] # None
      PROVE  SessionSound(remote', ctx'[r], ops'[r], pc'[r])
  <2>1. SessionSound(remote, ctx[r], ops[r], pc[r])
    BY <1>1, <1>4 DEF MemoryInv
  <2>2. ctx[r].version \in Nat /\ ctx[r].version < remote'.version
    <3>1. ctx[r].version \in Nat /\ ctx[r].version <= remote.version
      BY <2>1, ContextType DEF SessionSound
    <3>. QED  BY <1>3, <3>1
  <2>3. Base(remote', ctx[r]) = {}
    BY <1>3, <2>2 DEF Base
  <2>. QED  BY <1>1, <1>3, <2>1, <2>2, <2>3 DEF SessionSound, Sound
<1>5. pc' = [r \in Sessions |-> pc'[r]]
  BY <1>1 DEF MemoryInv
<1>. QED  BY <1>1, <1>3, <1>4, <1>5 DEF MemoryInv

-----------------------------------------------------------------------------
(* The store starts empty, and every step keeps the invariant, if the      *)
(* store never gives a version twice.                                      *)
LEMMA InvInit == Init => MemoryInv
<1>. SUFFICES ASSUME Init PROVE MemoryInv
  OBVIOUS
<1>1. remote = [version |-> 0, docs |-> {}] /\ IsFiniteSet({})
  BY FS_EmptySet DEF Init
<1>2. remote \in Stored
  BY <1>1 DEF Stored
<1>. QED  BY <1>2 DEF Init, MemoryInv

(* One case for each action.                                               *)
LEMMA InvNext ==
    ASSUME ~VersionsRecur
    PROVE  MemoryInv /\ [Next]_vars => MemoryInv'
<1>. SUFFICES ASSUME MemoryInv, [Next]_vars PROVE MemoryInv'
  OBVIOUS
<1>1. ASSUME NEW s \in Sessions, Request(s) PROVE MemoryInv'
  BY <1>1, KeySyncSound, MutationsSound, QuietStepSound DEF Request
<1>2. ASSUME NEW s \in Sessions, Progress(s) PROVE MemoryInv'
  BY <1>2, PersistSound, QuietStepSound DEF Progress
<1>3. ASSUME NEW s \in Sessions, RpcFails(s) PROVE MemoryInv'
  BY <1>3, QuietStepSound
<1>4. CASE Crash
  BY <1>4 DEF Crash, MemoryInv, store
<1>5. CASE UNCHANGED vars
  BY <1>5 DEF vars, MemoryInv
<1>. QED  BY <1>1, <1>2, <1>3, <1>4, <1>5 DEF Next

(* The stored index, the sessions' copies of it and their logs stay        *)
(* related as MemoryInv says (handler.rs, persistence_worker.rs, icing.rs).*)
THEOREM MemoryInvariant ==
    ASSUME ~VersionsRecur
    PROVE  Spec => []MemoryInv
<1>1. Init => MemoryInv
  BY InvInit
<1>2. MemoryInv /\ [Next]_vars => MemoryInv'
  BY InvNext
<1>. QED  BY <1>1, <1>2, PTL DEF Spec

(* How a session comes to write, and to have written.                      *)
LEMMA Advances ==
    ASSUME MemoryInv, [Next]_vars, NEW s \in Sessions,
           pc'[s] # pc[s], pc[s] # "queued", pc'[s] \in {"write", "flush"}
    PROVE  Pull(s) \/ Repull(s) \/ NothingToPersist(s) \/ Persist(s)
<1>1. \A r \in Sessions : \A p : pc' = [pc EXCEPT ![r] = p] => r = s /\ p = pc'[s]
  BY DEF MemoryInv
<1>2. ~(UNCHANGED pc)
  OBVIOUS
<1>3. ~Crash /\ ~(UNCHANGED vars)
  BY <1>2 DEF Crash, vars
<1>4. ASSUME NEW r \in Sessions, Request(r) PROVE FALSE
  <2>1. \E p \in {"pull", "queued", "idle"} : pc' = [pc EXCEPT ![r] = p]
    BY <1>2, <1>4 DEF Request, KeySync, AddMemories, AddMemoryFails, DeleteMemoryRequest,
                      ResetMemoryRequest, Sync, Close, Goto
  <2>. QED  BY <1>1, <2>1
<1>5. ASSUME NEW r \in Sessions,
             \/ IndexTooLarge(r) \/ Conflict(r) \/ GiveUp(r) \/ Flush(r) \/ RpcFails(r)
      PROVE  FALSE
  <2>1. \E p \in {"repull", "idle"} : pc' = [pc EXCEPT ![r] = p]
    BY <1>5 DEF IndexTooLarge, Conflict, GiveUp, Flush, RpcFails, Fail, Finish, Goto
  <2>. QED  BY <1>1, <2>1
<1>6. ASSUME NEW r \in Sessions, WorkerTake(r) PROVE FALSE
  BY <1>1, <1>6 DEF WorkerTake, Goto
<1>7. ASSUME NEW r \in Sessions, Pull(r) \/ Repull(r) \/ NothingToPersist(r) \/ Persist(r)
      PROVE  r = s
  BY <1>1, <1>7 DEF Pull, Repull, NothingToPersist, Persist, Goto
<1>. QED  BY <1>3, <1>4, <1>5, <1>6, <1>7 DEF Next, Progress

(* No write of a session undoes another's (persist_database's version      *)
(* check and rebase), however many sessions there are.                     *)
THEOREM NoUpdateIsLost ==
    ASSUME ~VersionsRecur
    PROVE  Spec => NoLostUpdate
<1>1. ASSUME MemoryInv, [Next]_vars, NEW s \in Sessions,
             NEW d \in remote.docs \ remote'.docs, pc[s] = "write", pc'[s] = "flush"
      PROVE  Accounts(ops[s], d)
  <2>1. Persist(s)
    <3>1. ~(Pull(s) \/ Repull(s) \/ NothingToPersist(s))
      BY <1>1 DEF Pull, Repull, NothingToPersist, store
    <3>. QED  BY <1>1, <3>1, Advances
  <2>2. remote'.docs = ctx[s].docs /\ remote.version \in {0, ctx[s].version}
    BY <2>1 DEF Persist, VersionConflict
  <2>3. /\ SessionSound(remote, ctx[s], ops[s], pc[s])
        /\ remote.version = 0 => remote.docs = {}
        /\ remote.docs \in SUBSET Docs
    BY <1>1 DEF MemoryInv, Stored
  <2>4. Base(remote, ctx[s]) = remote.docs
    BY <1>1, <2>2, <2>3 DEF Base
  <2>. QED  BY <1>1, <2>2, <2>3, <2>4 DEF SessionSound, Sound
<1>2. MemoryInv /\ [Next]_vars =>
          [\A s \in Sessions, d \in remote.docs \ remote'.docs :
               pc[s] = "write" /\ pc'[s] = "flush" => Accounts(ops[s], d)]_vars
  BY <1>1
<1>3. Spec => []MemoryInv
  BY MemoryInvariant
<1>. QED  BY <1>2, <1>3, PTL DEF Spec, NoLostUpdate

(* A success of persist_database means what the client was told: its       *)
(* additions are stored, and the removals of its log are done, when they   *)
(* are stored and whenever they are replayed.                              *)
THEOREM SuccessIsDurable ==
    ASSUME ~VersionsRecur
    PROVE  Spec => PersistedMeansDurable
<1>1. ASSUME MemoryInv, [Next]_vars, NEW s \in Sessions, pc[s] = "write", pc'[s] = "flush",
             NEW i \in 1..Len(ops[s]), ops[s][i].op = "AddMemory", Stands(ops[s], i)
      PROVE  Doc(ops[s][i]) \in remote'.docs
  <2>. DEFINE d == Doc(ops[s][i])
  <2>1. NothingToPersist(s) \/ Persist(s)
    <3>1. ~(Pull(s) \/ Repull(s))
      BY <1>1 DEF Pull, Repull
    <3>. QED  BY <1>1, <3>1, Advances
  <2>2. SessionSound(remote, ctx[s], ops[s], pc[s])
    BY <1>1 DEF MemoryInv
  <2>3. ops[s][i] \in Entries
    BY <2>2 DEF SessionSound
  <2>4. d \in Docs
    BY <1>1, <2>3 DEF Entries
  <2>5. StandingAdd(ops[s], d)
    BY <1>1 DEF StandingAdd
  <2>. HIDE DEF d
  <2>6. StandingAdd(ctx[s].log, d) /\ d \in ctx[s].docs
    BY <2>2, <2>4, <2>5 DEF SessionSound, Sound
  <2>7. ctx[s].log # << >>
    <3>1. 1..Len(<< >>) = {}
      OBVIOUS
    <3>. QED  BY <2>6, <3>1 DEF StandingAdd
  <2>. QED  BY <2>1, <2>6, <2>7 DEF NothingToPersist, Persist, d
<1>2. ASSUME MemoryInv, [Next]_vars, NEW s \in Sessions, pc[s] \in {"pull", "write", "repull"},
             pc'[s] \in {"write", "flush"} \ {pc[s]},
             NEW i \in 1..Len(ctx[s].log), ctx[s].log[i].op = "Remove", Stands(ctx[s].log, i),
             NEW d \in IF pc'[s] = "flush" THEN remote'.docs ELSE ctx'[s].docs
      PROVE  d.id # ctx[s].log[i].id
  <2>1. StandingRemove(ctx[s].log, ctx[s].log[i].id)
    BY <1>2 DEF StandingRemove
  <2>2. SessionSound(remote, ctx[s], ops[s], pc[s]) /\ remote \in Stored
    BY <1>2 DEF MemoryInv
  <2>3. Removed(ctx[s].docs, ctx[s].log)
    BY <2>2 DEF SessionSound, Sound, Removed
  <2>4. Pull(s) \/ Repull(s) \/ NothingToPersist(s) \/ Persist(s)
    BY <1>2, Advances
  <2>5. CASE Pull(s) \/ Repull(s)
    <3>1. ctx' = [ctx EXCEPT ![s] = Pulled(ctx[s])] /\ pc' = [pc EXCEPT ![s] = "write"]
      BY <2>5 DEF Pull, Repull, PullAndRebase, Pulled, Goto
    <3>2. ctx'[s] = Pulled(ctx[s]) /\ pc'[s] = "write"
      BY <1>2, <3>1 DEF MemoryInv
    <3>3. Removed(Pulled(ctx[s]).docs, ctx[s].log)
      BY <2>2, PulledSound
    <3>. QED  BY <1>2, <2>1, <3>2, <3>3 DEF Removed
  <2>6. CASE NothingToPersist(s)
    BY <1>2, <2>6 DEF NothingToPersist
  <2>7. CASE Persist(s)
    <3>1. remote'.docs = ctx[s].docs /\ pc' = [pc EXCEPT ![s] = "flush"]
      BY <2>7 DEF Persist, Goto
    <3>2. pc'[s] = "flush"
      BY <1>2, <3>1 DEF MemoryInv
    <3>. QED  BY <1>2, <2>1, <2>3, <3>1, <3>2 DEF Removed
  <2>. QED  BY <2>4, <2>5, <2>6, <2>7
<1>3. MemoryInv /\ [Next]_vars =>
         \A s \in Sessions :
           /\ pc[s] = "write" /\ pc'[s] = "flush" =>
                 \A i \in 1..Len(ops[s]) :
                     LET e == ops[s][i]
                     IN  e.op = "AddMemory" /\ Stands(ops[s], i) =>
                           [id |-> e.id, name |-> e.name, blob |-> e.blob] \in remote'.docs
           /\ /\ pc[s] \in {"pull", "write", "repull"}
              /\ pc'[s] \in {"write", "flush"} \ {pc[s]}
              => \A i \in 1..Len(ctx[s].log) :
                     LET e == ctx[s].log[i]
                     IN  e.op = "Remove" /\ Stands(ctx[s].log, i) =>
                           \A d \in IF pc'[s] = "flush" THEN remote'.docs ELSE ctx'[s].docs :
                               d.id # e.id
  BY <1>1, <1>2 DEF Doc
<1>4. Spec => []MemoryInv
  BY MemoryInvariant
<1>. QED  BY <1>3, <1>4, PTL DEF Spec, PersistedMeansDurable

-----------------------------------------------------------------------------
(* The blobs of documents, those that a log adds up to its k-th entry, and *)
(* a log that adds none twice.                                             *)
BlobsOf(docs) == {d.blob : d \in docs}
AddedUpTo(log, k) == {log[i].blob : i \in {j \in 1..k : log[j].op = "AddMemory"}}
Added(log) == AddedUpTo(log, Len(log))
AddsOnce(log) ==
    \A k \in 1..Len(log) : log[k].op = "AddMemory" => log[k].blob \notin AddedUpTo(log, k - 1)

(* An index made of the base B: its blobs and those it will delete are the *)
(* base's and its own, it deletes none that it holds, and every memory has *)
(* a blob of its own.                                                      *)
Clean(B, docs, log) ==
    /\ BlobsOf(docs) \subseteq BlobsOf(B) \cup Added(log)
    /\ PendingBlobDeletes(log) \subseteq BlobsOf(B) \cup Added(log)
    /\ PendingBlobDeletes(log) \cap BlobsOf(docs) = {}
    /\ \A d, e \in docs : d.blob = e.blob => d = e

(* The index db knows blobs below n, added some of A, each once, and is    *)
(* made of the base B if it is current.                                    *)
Owned(B, current, n, A, db) ==
    /\ db \in Indexes
    /\ AddsOnce(db.log)
    /\ Added(db.log) \subseteq A
    /\ BlobsOf(db.docs) \cup PendingBlobDeletes(db.log) \cup Added(db.log) \subseteq 0..(n - 1)
    /\ current => Clean(B, db.docs, db.log)

(* What holds at first and is kept holds after n steps.                    *)
LEMMA AllSteps ==
    ASSUME NEW n \in Nat, NEW S, 0 \in S, \A k \in 1..n : k - 1 \in S => k \in S
    PROVE  n \in S
<1>. DEFINE Bad == {k \in 0..n : k \notin S}
<1>. SUFFICES ASSUME n \notin S PROVE FALSE
  OBVIOUS
<1>1. Bad \in SUBSET Nat /\ Bad # {}
  OBVIOUS
<1>2. PICK m \in Bad : \A k \in Bad : m <= k
  <2>. HIDE DEF Bad
  <2>. QED  BY <1>1, LeastNumber
<1>3. m \in 1..n /\ m - 1 \in 0..n /\ ~(m <= m - 1)
  BY <1>2
<1>. QED  BY <1>2, <1>3

(* One more entry in a log.                                                *)
LEMMA OneMoreBlob ==
    ASSUME NEW log \in Seq(Entries), NEW e \in Entries
    PROVE  /\ Added(Append(log, e)) =
                  IF e.op = "AddMemory" THEN Added(log) \cup {e.blob} ELSE Added(log)
           /\ PendingBlobDeletes(Append(log, e)) =
                  IF e.op = "Remove" THEN PendingBlobDeletes(log) \cup {e.blob}
                  ELSE PendingBlobDeletes(log)
           /\ AddsOnce(log) /\ (e.op = "AddMemory" => e.blob \notin Added(log)) =>
                  AddsOnce(Append(log, e))
<1>. DEFINE g == Append(log, e)
            n == Len(log)
<1>1. n \in Nat /\ Len(g) = n + 1 /\ g[n + 1] = e /\ \A i \in 1..n : g[i] = log[i]
  OBVIOUS
<1>2. \A i : i \in 1..(n + 1) <=> i \in 1..n \/ i = n + 1
  OBVIOUS
<1>. HIDE DEF g, n
<1>3. Added(g) = IF e.op = "AddMemory" THEN Added(log) \cup {e.blob} ELSE Added(log)
  BY <1>1, <1>2 DEF Added, AddedUpTo, n
<1>4. PendingBlobDeletes(g) = IF e.op = "Remove" THEN PendingBlobDeletes(log) \cup {e.blob}
                              ELSE PendingBlobDeletes(log)
  BY <1>1, <1>2 DEF PendingBlobDeletes, n
<1>5. ASSUME AddsOnce(log), e.op = "AddMemory" => e.blob \notin Added(log)
      PROVE  AddsOnce(g)
  <2>1. ASSUME NEW k \in 0..n PROVE AddedUpTo(g, k) = AddedUpTo(log, k)
    <3>1. \A i \in 1..k : i \in 1..n
      BY <1>1
    <3>. QED  BY <1>1, <3>1 DEF AddedUpTo
  <2>2. ASSUME NEW k \in 1..n, g[k].op = "AddMemory" PROVE g[k].blob \notin AddedUpTo(g, k - 1)
    <3>1. k - 1 \in 0..n
      BY <1>1
    <3>. QED  BY <1>1, <1>5, <2>1, <2>2, <3>1 DEF AddsOnce, n
  <2>3. n + 1 - 1 = n /\ n \in 0..n
    BY <1>1
  <2>4. e.op = "AddMemory" => e.blob \notin AddedUpTo(g, n + 1 - 1)
    BY <1>5, <2>1, <2>3 DEF Added, n
  <2>. QED  BY <1>1, <1>2, <2>2, <2>4 DEF AddsOnce
<1>. QED  BY <1>3, <1>4, <1>5 DEF g

(* Nothing yet.                                                            *)
LEMMA NoBlobYet ==
    ASSUME NEW log, log = << >> \/ log = <<CreateEntry>>
    PROVE  Added(log) = {} /\ PendingBlobDeletes(log) = {} /\ AddsOnce(log)
<1>1. CreateEntry.op = "Create"
  BY DEF CreateEntry, Entry
<1>. HIDE DEF CreateEntry
<1>2. \A i \in 1..Len(log) : log[i].op = "Create"
  BY <1>1
<1>. QED  BY <1>2 DEF Added, AddedUpTo, PendingBlobDeletes, AddsOnce

(* A recorded change whose blob, if it adds one, is a new one.             *)
LEMMA OwnedRecorded ==
    ASSUME NEW B, NEW current, NEW n \in Nat, NEW m \in Nat, n <= m, NEW A, NEW C, A \subseteq C,
           NEW a, Owned(B, current, n, A, a),
           NEW b \in Indexes, NEW e \in Entries,
           b.log = Append(a.log, e), Recorded(a.docs, b.docs, e),
           e.op = "AddMemory" => /\ e.blob \in C /\ e.blob \in 0..(m - 1)
                                 /\ e.blob \notin Added(a.log) /\ e.blob \notin BlobsOf(B)
    PROVE  Owned(B, current, m, C, b)
<1>1. a.log \in Seq(Entries)
  BY DEF Owned, Indexes
<1>2. /\ Added(b.log) = IF e.op = "AddMemory" THEN Added(a.log) \cup {e.blob} ELSE Added(a.log)
      /\ PendingBlobDeletes(b.log) =
             IF e.op = "Remove" THEN PendingBlobDeletes(a.log) \cup {e.blob}
             ELSE PendingBlobDeletes(a.log)
      /\ AddsOnce(b.log)
  BY <1>1, OneMoreBlob DEF Owned
<1>3. /\ \A d \in b.docs : d \in a.docs \/ (e.op = "AddMemory" /\ d.blob = e.blob)
      /\ e.op = "AddMemory" => \A d \in b.docs : d \in a.docs \/ d = Doc(e)
      /\ e.op = "Remove" => \E d \in a.docs \ b.docs : e.blob = d.blob
  BY DEF Recorded, Doc
<1>4. 0..(n - 1) \subseteq 0..(m - 1)
  OBVIOUS
<1>5. BlobsOf(b.docs) \cup PendingBlobDeletes(b.log) \cup Added(b.log) \subseteq 0..(m - 1)
  <2>1. /\ BlobsOf(a.docs) \subseteq 0..(m - 1) /\ PendingBlobDeletes(a.log) \subseteq 0..(m - 1)
        /\ Added(a.log) \subseteq 0..(m - 1)
    BY <1>4 DEF Owned
  <2>2. BlobsOf(b.docs) \subseteq 0..(m - 1)
    BY <1>3, <2>1 DEF BlobsOf
  <2>3. e.op = "Remove" => e.blob \in 0..(m - 1)
    BY <1>3, <2>1 DEF BlobsOf
  <2>. QED  BY <1>2, <2>1, <2>2, <2>3
<1>6. ASSUME current PROVE Clean(B, b.docs, b.log)
  <2>1. /\ BlobsOf(a.docs) \subseteq BlobsOf(B) \cup Added(a.log)
        /\ PendingBlobDeletes(a.log) \subseteq BlobsOf(B) \cup Added(a.log)
        /\ PendingBlobDeletes(a.log) \cap BlobsOf(a.docs) = {}
        /\ \A d, f \in a.docs : d.blob = f.blob => d = f
    BY <1>6 DEF Owned, Clean
  <2>2. e.op = "AddMemory" => e.blob \notin BlobsOf(a.docs) \cup PendingBlobDeletes(a.log)
    BY <2>1
  <2>3. BlobsOf(b.docs) \subseteq BlobsOf(B) \cup Added(b.log)
    BY <1>2, <1>3, <2>1 DEF BlobsOf
  <2>4. PendingBlobDeletes(b.log) \subseteq BlobsOf(B) \cup Added(b.log)
    <3>1. e.op = "Remove" => e.blob \in BlobsOf(a.docs)
      BY <1>3 DEF BlobsOf
    <3>. QED  BY <1>2, <2>1, <3>1
  <2>5. PendingBlobDeletes(b.log) \cap BlobsOf(b.docs) = {}
    <3>1. e.op = "Remove" => e.blob \notin BlobsOf(b.docs)
      BY <1>3, <2>1 DEF BlobsOf
    <3>2. BlobsOf(b.docs) \subseteq IF e.op = "AddMemory" THEN BlobsOf(a.docs) \cup {e.blob}
                                    ELSE BlobsOf(a.docs)
      BY <1>3 DEF BlobsOf
    <3>. QED  BY <1>2, <2>1, <2>2, <3>1, <3>2
  <2>6. \A d, f \in b.docs : d.blob = f.blob => d = f
    <3>1. e.op = "AddMemory" => \A d \in a.docs : d.blob # e.blob
      BY <2>2 DEF BlobsOf
    <3>2. Doc(e).blob = e.blob
      BY DEF Doc
    <3>. QED  BY <1>3, <2>1, <3>1, <3>2
  <2>. QED  BY <2>3, <2>4, <2>5, <2>6 DEF Clean
<1>7. Added(b.log) \subseteq C
  BY <1>2 DEF Owned
<1>. QED  BY <1>2, <1>5, <1>6, <1>7 DEF Owned

(* delete_memories for one id.                                             *)
LEMMA DeleteOwned ==
    ASSUME NEW B, NEW current, NEW n \in Nat, NEW A, NEW db, Owned(B, current, n, A, db), NEW id
    PROVE  Owned(B, current, n, A, DeleteMemory(db, id))
<1>1. db \in Indexes
  BY DEF Owned
<1>2. n <= n /\ A \subseteq A
  OBVIOUS
<1>3. CASE DeleteMemory(db, id) = db
  BY <1>3
<1>4. ASSUME NEW e \in Entries, e.op = "Remove",
             DeleteMemory(db, id).log = Append(db.log, e),
             Recorded(db.docs, DeleteMemory(db, id).docs, e)
      PROVE  Owned(B, current, n, A, DeleteMemory(db, id))
  <2>1. DeleteMemory(db, id) \in Indexes
    BY <1>1, DeleteRecorded
  <2>2. e.op # "AddMemory"
    BY <1>4
  <2>. QED  BY <1>2, <1>4, <2>1, <2>2, OwnedRecorded
<1>. QED  BY <1>1, <1>3, <1>4, DeleteRecorded

(* add_memory with a new blob.                                             *)
LEMMA AddOwned ==
    ASSUME NEW B, NEW current, NEW n \in Nat, BlobsOf(B) \subseteq 0..(n - 1), NEW A,
           NEW db, Owned(B, current, n, A, db), NEW doc \in Docs, doc.blob = n
    PROVE  Owned(B, current, n + 1, A \cup {n}, AddMemory(db, doc))
<1>. DEFINE c == DeleteMemory(db, doc.id)
<1>1. Owned(B, current, n, A, c)
  BY DeleteOwned
<1>2. AddMemory(db, doc) = Put(c, doc)
  BY DEF AddMemory
<1>. HIDE DEF c
<1>3. c \in Indexes
  BY <1>1 DEF Owned
<1>4. c = [c EXCEPT !.docs = c.docs]
  BY <1>3 DEF Indexes
<1>5. /\ Put(c, doc) \in Indexes
      /\ Put(c, doc).log = Append(c.log, AddEntry(doc))
      /\ AddEntry(doc) \in Entries
      /\ Recorded(c.docs, Put(c, doc).docs, AddEntry(doc))
  <2>1. c.docs \in SUBSET c.docs /\ c.docs \ c.docs = {}
    OBVIOUS
  <2>. QED  BY <1>3, <1>4, <2>1, PutRecorded
<1>6. AddEntry(doc).blob = n
  BY DEF AddEntry, Entry
<1>7. /\ n + 1 \in Nat /\ n <= n + 1 /\ A \subseteq A \cup {n} /\ n \in A \cup {n}
      /\ n \in 0..(n + 1 - 1) /\ n \notin 0..(n - 1)
  OBVIOUS
<1>8. n \notin Added(c.log) /\ n \notin BlobsOf(B)
  BY <1>1, <1>7 DEF Owned
<1>. DEFINE b == Put(c, doc)
            e == AddEntry(doc)
            C == A \cup {n}
            m == n + 1
<1>9. /\ b \in Indexes /\ e \in Entries /\ b.log = Append(c.log, e)
      /\ Recorded(c.docs, b.docs, e)
      /\ e.blob \in C /\ e.blob \in 0..(m - 1) /\ e.blob \notin Added(c.log)
      /\ e.blob \notin BlobsOf(B) /\ m \in Nat /\ n <= m /\ A \subseteq C
  BY <1>5, <1>6, <1>7, <1>8
<1>. HIDE DEF b, e, C, m
<1>10. Owned(B, current, m, C, b)
  BY <1>1, <1>9, OwnedRecorded
<1>. QED  BY <1>2, <1>10 DEF b, C, m

(* delete_memories.                                                        *)
LEMMA DeletesOwned ==
    ASSUME NEW B, NEW current, NEW n \in Nat, NEW A, NEW db, Owned(B, current, n, A, db),
           NEW ids, IsFiniteSet(ids)
    PROVE  Owned(B, current, n, A, DeleteMemories(db, ids))
<1>. DEFINE seq == SetToSeq(ids)
<1>1. seq \in Seq(ids)
  BY SetToSeqType
<1>2. PICK h : Course("delete", h, db, seq) /\ FoldLeft(DeleteMemory, db, seq) = h[Len(seq)]
  BY <1>1, FoldDelete
<1>3. DeleteMemories(db, ids) = h[Len(seq)]
  BY <1>2 DEF DeleteMemories
<1>. HIDE DEF seq
<1>. DEFINE S == {k \in 0..Len(seq) : Owned(B, current, n, A, h[k])}
<1>4. Len(seq) \in Nat /\ 0 \in S
  BY <1>1, <1>2 DEF Course
<1>5. ASSUME NEW k \in 1..Len(seq), k - 1 \in S PROVE k \in S
  <2>1. h[k] = DeleteMemory(h[k - 1], seq[k])
    BY <1>2 DEF Course, Step
  <2>2. k \in 0..Len(seq) /\ Owned(B, current, n, A, h[k - 1])
    BY <1>4, <1>5
  <2>. QED  BY <2>1, <2>2, DeleteOwned
<1>. HIDE DEF S
<1>6. Len(seq) \in S
  BY <1>4, <1>5, AllSteps
<1>. QED  BY <1>3, <1>6 DEF S

(* The memories of a batch, with the next blobs.                           *)
LEMMA AddsOwned ==
    ASSUME NEW B, NEW current, NEW n \in Nat, BlobsOf(B) \subseteq 0..(n - 1), NEW A,
           NEW db, Owned(B, current, n, A, db), NEW seq \in Seq(Docs),
           \A k \in 1..Len(seq) : seq[k].blob = n + k - 1
    PROVE  Owned(B, current, n + Len(seq), A \cup n..(n + Len(seq) - 1),
                 FoldLeft(AddMemory, db, seq))
<1>1. PICK h : Course("add", h, db, seq) /\ FoldLeft(AddMemory, db, seq) = h[Len(seq)]
  BY FoldAdd
<1>. DEFINE Good(k) == Owned(B, current, n + k, A \cup n..(n + k - 1), h[k])
            S == {k \in 0..Len(seq) : Good(k)}
<1>2. Len(seq) \in Nat /\ 0 \in S
  <2>1. n + 0 = n /\ A \cup n..(n + 0 - 1) = A /\ h[0] = db
    BY <1>1 DEF Course
  <2>2. Good(0)
    BY <2>1
  <2>. HIDE DEF Good
  <2>. QED  BY <2>2
<1>3. ASSUME NEW k \in 1..Len(seq), k - 1 \in S PROVE k \in S
  <2>. DEFINE m == n + (k - 1)
              C == A \cup n..(m - 1)
  <2>1. h[k] = AddMemory(h[k - 1], seq[k]) /\ seq[k] \in Docs
    BY <1>1 DEF Course, Step
  <2>2. k \in 0..Len(seq) /\ Owned(B, current, m, C, h[k - 1])
    <3>1. k \in 0..Len(seq) /\ Good(k - 1)
      <4>. HIDE DEF Good
      <4>. QED  BY <1>2, <1>3
    <3>. QED  BY <3>1
  <2>3. m \in Nat /\ m + 1 = n + k /\ n <= m /\ seq[k].blob = m
    OBVIOUS
  <2>4. C \cup {m} = A \cup n..(n + k - 1)
    <3>1. \A x : x \in n..(n + k - 1) <=> x \in n..(m - 1) \/ x = m
      OBVIOUS
    <3>. HIDE DEF m
    <3>. QED  BY <3>1
  <2>5. BlobsOf(B) \subseteq 0..(m - 1)
    <3>1. 0..(n - 1) \subseteq 0..(m - 1)
      OBVIOUS
    <3>. QED  BY <3>1
  <2>. HIDE DEF m, C
  <2>6. Owned(B, current, m + 1, C \cup {m}, AddMemory(h[k - 1], seq[k]))
    BY <2>1, <2>2, <2>3, <2>5, AddOwned
  <2>7. Good(k)
    BY <2>1, <2>3, <2>4, <2>6
  <2>. HIDE DEF Good
  <2>. QED  BY <2>2, <2>7
<1>. HIDE DEF S
<1>4. Len(seq) \in S
  BY <1>2, <1>3, AllSteps
<1>. QED  BY <1>1, <1>4 DEF S

(* reset_memory.                                                           *)
LEMMA ResetOwned ==
    ASSUME NEW B, NEW current, NEW n \in Nat, NEW A, NEW db, Owned(B, current, n, A, db)
    PROVE  Owned(B, current, n, A, ResetMemory(db))
<1>. DEFINE ids == {d.id : d \in db.docs}
            c == DeleteMemories(db, ids)
<1>1. IsFiniteSet(ids)
  <2>1. IsFiniteSet(db.docs)
    BY DEF Owned, Indexes
  <2>2. [d \in db.docs |-> d.id] \in Surjection(db.docs, ids)
    BY DEF Surjection
  <2>. QED  BY <2>1, <2>2, FS_Surjection
<1>. HIDE DEF ids
<1>2. Owned(B, current, n, A, c)
  BY <1>1, DeletesOwned
<1>3. ResetMemory(db) = ResetIndex(c)
  BY DEF ResetMemory, ids
<1>. HIDE DEF c
<1>4. c \in Indexes
  BY <1>2 DEF Owned
<1>5. n <= n /\ A \subseteq A /\ ResetEntry.op # "AddMemory"
  BY <1>4, ResetRecorded
<1>. QED  BY <1>2, <1>3, <1>4, <1>5, ResetRecorded, OwnedRecorded

(* import_with_changes of a log whose additions the new base does not have.*)
LEMMA ImportOwned ==
    ASSUME NEW B \in SUBSET Docs, IsFiniteSet(B), NEW n \in Nat,
           BlobsOf(B) \subseteq 0..(n - 1), \A d, e \in B : d.blob = e.blob => d = e,
           NEW log \in Seq(Entries), AddsOnce(log), Added(log) \subseteq 0..(n - 1),
           Added(log) \cap BlobsOf(B) = {}
    PROVE  Owned(B, TRUE, n, Added(log), ImportWithChanges(B, log))
<1>1. PICK h : /\ Course("replay", h, Import(B), log)
               /\ FoldLeft(Replay, Import(B), log) = h[Len(log)]
  BY FoldReplay
<1>. DEFINE Good(k) == Owned(B, TRUE, n, AddedUpTo(log, k), h[k])
            S == {k \in 0..Len(log) : Good(k)}
<1>2. Len(log) \in Nat /\ 0 \in S
  <2>1. Import(B) = [docs |-> B, log |-> << >>] /\ << >> \in Seq(Entries)
    BY DEF Import
  <2>2. Import(B) \in Indexes
    BY <2>1, IndexType
  <2>3. Clean(B, B, << >>)
    BY NoBlobYet DEF Clean
  <2>4. Owned(B, TRUE, n, AddedUpTo(log, 0), Import(B))
    BY <2>1, <2>2, <2>3, NoBlobYet DEF Owned
  <2>5. Good(0)
    BY <1>1, <2>4 DEF Course
  <2>. HIDE DEF Good
  <2>. QED  BY <2>5
<1>3. ASSUME NEW k \in 1..Len(log), k - 1 \in S PROVE k \in S
  <2>. DEFINE a == h[k - 1]
              b == h[k]
              e == log[k]
              A == AddedUpTo(log, k - 1)
              C == AddedUpTo(log, k)
  <2>1. b = Replay(a, e) /\ e \in Entries
    BY <1>1 DEF Course, Step
  <2>2. k \in 0..Len(log) /\ k - 1 \in Nat /\ Owned(B, TRUE, n, A, a)
    <3>1. k \in 0..Len(log) /\ k - 1 \in Nat /\ Good(k - 1)
      <4>. HIDE DEF Good
      <4>. QED  BY <1>2, <1>3
    <3>. QED  BY <3>1
  <2>3. a \in Indexes /\ n <= n
    BY <2>2 DEF Owned
  <2>4. A \subseteq C /\ (e.op = "AddMemory" => e.blob \in C)
    <3>1. \A i \in 1..(k - 1) : i \in 1..k
      OBVIOUS
    <3>2. k \in 1..k
      OBVIOUS
    <3>. QED  BY <3>1, <3>2 DEF AddedUpTo
  <2>5. C \subseteq Added(log)
    <3>1. \A i \in 1..k : i \in 1..Len(log)
      OBVIOUS
    <3>. QED  BY <3>1 DEF Added, AddedUpTo
  <2>6. e.op = "AddMemory" => /\ e.blob \in 0..(n - 1) /\ e.blob \notin Added(a.log)
                              /\ e.blob \notin BlobsOf(B)
    <3>1. e.op = "AddMemory" => e.blob \notin A
      BY DEF AddsOnce
    <3>. QED  BY <2>2, <2>4, <2>5, <3>1 DEF Owned
  <2>. HIDE DEF a, b, e, A, C
  <2>7. Owned(B, TRUE, n, C, b)
    <3>1. CASE b = a
      BY <2>2, <2>4, <3>1 DEF Owned
    <3>2. ASSUME NEW f \in Entries, Same(e, f), b.log = Append(a.log, f),
                 Recorded(a.docs, b.docs, f)
          PROVE  Owned(B, TRUE, n, C, b)
      <4>1. b \in Indexes
        BY <2>1, <2>3, ReplayRecorded
      <4>2. f.op = "AddMemory" => /\ f.blob \in C /\ f.blob \in 0..(n - 1)
                                  /\ f.blob \notin Added(a.log) /\ f.blob \notin BlobsOf(B)
        BY <2>4, <2>6, <3>2 DEF Same
      <4>. QED  BY <2>2, <2>3, <2>4, <3>2, <4>1, <4>2, OwnedRecorded
    <3>. QED  BY <2>1, <2>3, <3>1, <3>2, ReplayRecorded
  <2>8. Good(k)
    BY <2>7 DEF b, C
  <2>. HIDE DEF Good
  <2>. QED  BY <2>2, <2>8
<1>. HIDE DEF S
<1>4. Len(log) \in S
  BY <1>2, <1>3, AllSteps
<1>. QED  BY <1>1, <1>4 DEF S, ImportWithChanges, Added

-----------------------------------------------------------------------------
(* A session that holds a context, the blobs it has added and not stored   *)
(* yet, and those that it deletes because it has stored its index.         *)
Live(s) == pc[s] # "idle" \/ ctx[s] # None
AddedBy(s) == IF Live(s) /\ pc[s] # "flush" THEN Added(ctx[s].log) ELSE {}
DeletedBy(s) == IF pc[s] = "flush" THEN PendingBlobDeletes(ctx[s].log) ELSE {}

(* The stored memories have blobs of their own.  What a session has added  *)
(* is there, and neither stored nor added or deleted by another; what a    *)
(* session deletes is not stored.                                          *)
StoredOwned ==
    /\ BlobsOf(remote.docs) \subseteq blobs
    /\ BlobsOf(remote.docs) \subseteq 0..(next_blob - 1)
    /\ \A d, e \in remote.docs : d.blob = e.blob => d = e
SessionOwned(r, n, c) ==
    Owned(r.docs, c.version = r.version, n, Nat, [docs |-> c.docs, log |-> c.log])
BlobInv ==
    /\ StoredOwned
    /\ \A s \in Sessions : Live(s) => SessionOwned(remote, next_blob, ctx[s])
    /\ \A s \in Sessions : /\ AddedBy(s) \subseteq blobs
                           /\ AddedBy(s) \cap BlobsOf(remote.docs) = {}
                           /\ DeletedBy(s) \cap BlobsOf(remote.docs) = {}
    /\ \A s, r \in Sessions :
          s # r => AddedBy(s) \cap AddedBy(r) = {} /\ DeletedBy(s) \cap AddedBy(r) = {}

(* The names of memories are unique.                                       *)
UniqueNames(docs) == \A d, e \in docs : d.name = e.name /\ d.name # None => d = e
NamesInv ==
    /\ UniqueNames(remote.docs)
    /\ \A s \in Sessions : Live(s) => UniqueNames(ctx[s].docs)

(* The blobs below m are those below n and further ones.                   *)
LEMMA FurtherBlobs ==
    ASSUME NEW n \in Nat, NEW m \in Nat, n <= m
    PROVE  0..(n - 1) \subseteq 0..(m - 1) /\ n..(m - 1) \cap 0..(n - 1) = {}
  OBVIOUS

(* What an index owned of fewer blobs is owned of more.                    *)
LEMMA OwnedMore ==
    ASSUME NEW B, NEW current, NEW n \in Nat, NEW m \in Nat, n <= m, NEW A, NEW C, A \subseteq C,
           NEW db, Owned(B, current, n, A, db)
    PROVE  Owned(B, current, m, C, db)
<1>1. 0..(n - 1) \subseteq 0..(m - 1)
  OBVIOUS
<1>. QED  BY <1>1 DEF Owned

(* What a session has added and what it deletes are blobs it knows.        *)
LEMMA KnownBlobs ==
    ASSUME BlobInv, NEW s \in Sessions
    PROVE  AddedBy(s) \subseteq 0..(next_blob - 1) /\ DeletedBy(s) \subseteq 0..(next_blob - 1)
<1>1. pc[s] = "flush" => Live(s)
  BY DEF Live
<1>2. Live(s) => /\ Added(ctx[s].log) \subseteq 0..(next_blob - 1)
                 /\ PendingBlobDeletes(ctx[s].log) \subseteq 0..(next_blob - 1)
  BY DEF BlobInv, SessionOwned, Owned
<1>. QED  BY <1>1, <1>2 DEF AddedBy, DeletedBy

(* A step of one session that leaves the stored index alone, deletes no    *)
(* blob and adds none but new ones.                                        *)
LEMMA OneOwner ==
    ASSUME MemoryInv, BlobInv, NEW s \in Sessions, remote' = remote,
           next_blob' \in Nat, next_blob <= next_blob',
           blobs \cup next_blob..(next_blob' - 1) \subseteq blobs',
           NEW c, NEW p,
           ctx' = [ctx EXCEPT ![s] = c],
           pc'  = [pc EXCEPT ![s] = p],
           p # "idle" \/ c # None =>
               /\ SessionOwned(remote, next_blob', c)
               /\ Added(c.log) \subseteq AddedBy(s) \cup next_blob..(next_blob' - 1),
           p = "flush" => PendingBlobDeletes(c.log) = {}
    PROVE  BlobInv'
<1>. DEFINE new == next_blob..(next_blob' - 1)
<1>1. /\ ctx'[s] = c /\ pc'[s] = p
      /\ \A r \in Sessions \ {s} : ctx'[r] = ctx[r] /\ pc'[r] = pc[r]
  BY DEF MemoryInv
<1>2. next_blob \in Nat
  BY DEF MemoryInv
<1>3. new \cap 0..(next_blob - 1) = {} /\ 0..(next_blob - 1) \subseteq 0..(next_blob' - 1)
  BY <1>2, FurtherBlobs
<1>4. \A r \in Sessions \ {s} :
          /\ Live(r)' = Live(r) /\ AddedBy(r)' = AddedBy(r) /\ DeletedBy(r)' = DeletedBy(r)
  BY <1>1 DEF Live, AddedBy, DeletedBy
<1>5. AddedBy(s)' \subseteq AddedBy(s) \cup new /\ DeletedBy(s)' = {}
  BY <1>1 DEF Live, AddedBy, DeletedBy
<1>6. \A r \in Sessions : /\ AddedBy(r) \subseteq 0..(next_blob - 1)
                          /\ DeletedBy(r) \subseteq 0..(next_blob - 1)
  BY KnownBlobs
<1>7. StoredOwned'
  BY <1>3 DEF BlobInv, StoredOwned
<1>8. ASSUME NEW r \in Sessions, Live(r)' PROVE SessionOwned(remote', next_blob', ctx'[r])
  <2>1. CASE r = s
    BY <1>1, <1>8, <2>1 DEF Live
  <2>2. CASE r # s
    <3>1. SessionOwned(remote, next_blob, ctx[r]) /\ ctx'[r] = ctx[r]
      BY <1>1, <1>4, <1>8, <2>2 DEF BlobInv
    <3>2. Nat \subseteq Nat
      OBVIOUS
    <3>. QED  BY <1>2, <3>1, <3>2, OwnedMore DEF SessionOwned
  <2>. QED  BY <2>1, <2>2
<1>. HIDE DEF new
<1>9. ASSUME NEW r \in Sessions
      PROVE  /\ AddedBy(r)' \subseteq blobs'
             /\ AddedBy(r)' \cap BlobsOf(remote'.docs) = {}
             /\ DeletedBy(r)' \cap BlobsOf(remote'.docs) = {}
  <2>1. /\ AddedBy(r) \subseteq blobs /\ blobs \subseteq blobs' /\ new \subseteq blobs'
        /\ AddedBy(r) \cap BlobsOf(remote.docs) = {}
        /\ DeletedBy(r) \cap BlobsOf(remote.docs) = {}
        /\ BlobsOf(remote.docs) \subseteq 0..(next_blob - 1)
    BY DEF BlobInv, StoredOwned, new
  <2>2. CASE r = s
    BY <1>3, <1>5, <2>1, <2>2
  <2>3. CASE r # s
    BY <1>4, <2>1, <2>3
  <2>. QED  BY <2>2, <2>3
<1>10. ASSUME NEW q \in Sessions, NEW r \in Sessions, q # r
       PROVE  AddedBy(q)' \cap AddedBy(r)' = {} /\ DeletedBy(q)' \cap AddedBy(r)' = {}
  <2>1. /\ AddedBy(q) \cap AddedBy(r) = {} /\ DeletedBy(q) \cap AddedBy(r) = {}
    BY <1>10 DEF BlobInv
  <2>2. CASE q = s
    BY <1>3, <1>4, <1>5, <1>6, <1>10, <2>1, <2>2
  <2>3. CASE r = s
    BY <1>3, <1>4, <1>5, <1>6, <1>10, <2>1, <2>3
  <2>4. CASE q # s /\ r # s
    BY <1>4, <2>1, <2>4
  <2>. QED  BY <2>2, <2>3, <2>4
<1>. QED  BY <1>7, <1>8, <1>9, <1>10 DEF BlobInv

(* What a live session's log adds, as long as it has not stored it.        *)
LEMMA LiveOwned ==
    ASSUME MemoryInv, BlobInv, NEW s \in Sessions, Live(s)
    PROVE  /\ SessionSound(remote, ctx[s], ops[s], pc[s])
           /\ ctx[s] \in Contexts
           /\ [docs |-> ctx[s].docs, log |-> ctx[s].log] \in Indexes
           /\ SessionOwned(remote, next_blob, ctx[s])
           /\ pc[s] # "flush" => AddedBy(s) = Added(ctx[s].log)
<1>1. SessionSound(remote, ctx[s], ops[s], pc[s]) /\ ctx[s] \in Contexts
  BY DEF MemoryInv, Live, SessionSound
<1>2. SessionOwned(remote, next_blob, ctx[s])
  BY DEF BlobInv
<1>. QED  BY <1>1, <1>2, ContextType DEF AddedBy

(* A request that changes the session's own index.                         *)
LEMMA MutateOwned ==
    ASSUME MemoryInv, BlobInv, NEW s \in Sessions, Working(s), NEW db, NEW size,
           Mutate(s, db, size), remote' = remote, UNCHANGED pc,
           next_blob' \in Nat, next_blob <= next_blob',
           blobs \cup next_blob..(next_blob' - 1) \subseteq blobs',
           Owned(remote.docs, ctx[s].version = remote.version, next_blob',
                 AddedBy(s) \cup next_blob..(next_blob' - 1), db)
    PROVE  BlobInv'
<1>. DEFINE c == [ctx[s] EXCEPT !.docs = db.docs, !.log = db.log, !.size = size]
            A == AddedBy(s) \cup next_blob..(next_blob' - 1)
<1>1. Live(s) /\ pc[s] = "idle"
  BY DEF Live, Working
<1>2. ctx[s] \in Contexts
  BY <1>1, LiveOwned
<1>3. /\ ctx' = [ctx EXCEPT ![s] = c] /\ pc' = [pc EXCEPT ![s] = "idle"]
  BY <1>1 DEF Mutate, MemoryInv
<1>4. /\ c.version = ctx[s].version /\ c.docs = db.docs /\ c.log = db.log
      /\ [docs |-> c.docs, log |-> c.log] = db
  <2>1. /\ c.version = ctx[s].version /\ c.docs = db.docs /\ c.log = db.log
    BY <1>2 DEF Contexts
  <2>2. db \in [docs : SUBSET Docs, log : Seq(Entries)]
    BY DEF Owned, Indexes
  <2>. HIDE DEF c
  <2>. QED  BY <2>1, <2>2
<1>. HIDE DEF c
<1>5. Added(c.log) \subseteq A
  BY <1>4 DEF Owned
<1>6. SessionOwned(remote, next_blob', c)
  <2>1. Owned(remote.docs, c.version = remote.version, next_blob', A,
              [docs |-> c.docs, log |-> c.log])
    BY <1>4
  <2>2. A \subseteq Nat /\ next_blob' <= next_blob'
    <3>1. AddedBy(s) \subseteq 0..(next_blob - 1)
      BY KnownBlobs
    <3>2. next_blob \in Nat
      BY DEF MemoryInv
    <3>. QED  BY <3>1, <3>2
  <2>. HIDE DEF A
  <2>. QED  BY <2>1, <2>2, OwnedMore DEF SessionOwned
<1>7. "idle" # "flush"
  OBVIOUS
<1>. QED  BY <1>3, <1>5, <1>6, <1>7, OneOwner

(* Where a working session's request starts.                               *)
LEMMA WorkingOwned ==
    ASSUME MemoryInv, BlobInv, NEW s \in Sessions, Working(s)
    PROVE  Owned(remote.docs, ctx[s].version = remote.version, next_blob, AddedBy(s),
                 [docs |-> ctx[s].docs, log |-> ctx[s].log])
<1>1. Live(s) /\ pc[s] # "flush"
  BY DEF Live, Working
<1>2. AddedBy(s) = Added(ctx[s].log) /\ SessionOwned(remote, next_blob, ctx[s])
  BY <1>1, LiveOwned
<1>. QED  BY <1>2 DEF SessionOwned, Owned

(* add_memory, delete_memory and reset_memory.                             *)
LEMMA MutationsOwned ==
    ASSUME MemoryInv, BlobInv, NEW s \in Sessions,
           \/ \E batch \in Batches : AddMemories(s, batch)
           \/ \E id \in MemoryIds : DeleteMemoryRequest(s, id)
           \/ ResetMemoryRequest(s)
    PROVE  BlobInv'
<1>. DEFINE db0 == [docs |-> ctx[s].docs, log |-> ctx[s].log]
            current == ctx[s].version = remote.version
            B == remote.docs
            A == AddedBy(s)
            n == next_blob
<1>1. Working(s)
  BY DEF AddMemories, DeleteMemoryRequest, ResetMemoryRequest
<1>2. n \in Nat /\ BlobsOf(B) \subseteq 0..(n - 1)
  BY DEF MemoryInv, BlobInv, StoredOwned
<1>3. Owned(B, current, n, A, db0)
  BY <1>1, WorkingOwned
<1>4. ASSUME NEW batch \in Batches, AddMemories(s, batch) PROVE BlobInv'
  <2>. DEFINE docs == [i \in 1..Len(batch) |->
                         [id |-> batch[i].id, name |-> batch[i].name,
                          blob |-> next_blob + i - 1]]
  <2>1. batch \in Seq(Memories)
    <3>1. PICK k \in 1..MaxBatch : batch \in [1..k -> Memories]
      BY DEF Batches
    <3>2. k \in Nat
      BY <3>1, MemoryAssumption DEF MemoryAssumption
    <3>. QED  BY <3>1, <3>2
  <2>2. Len(batch) \in Nat /\ \A i \in 1..Len(batch) : batch[i] \in Memories
    BY <2>1
  <2>3. docs \in Seq(Docs) /\ Len(docs) = Len(batch)
    <3>1. ASSUME NEW i \in 1..Len(batch)
          PROVE  [id |-> batch[i].id, name |-> batch[i].name,
                  blob |-> next_blob + i - 1] \in Docs
      <4>1. next_blob + i - 1 \in Nat
        BY <1>2, <2>2
      <4>. QED  BY <2>2, <4>1 DEF Memories, Docs
    <3>. QED  BY <2>2, <3>1
  <2>4. \A i \in 1..Len(batch) : docs[i].blob = n + i - 1
    OBVIOUS
  <2>5. /\ Mutate(s, FoldLeft(AddMemory, db0, docs), ctx[s].size + Len(batch))
        /\ next_blob' = n + Len(batch) /\ remote' = remote /\ UNCHANGED pc
        /\ blobs' = blobs \cup {docs[i].blob : i \in 1..Len(docs)}
    BY <1>4 DEF AddMemories, IndexMemories
  <2>. HIDE DEF docs, db0, current, B, A
  <2>. DEFINE db == FoldLeft(AddMemory, db0, docs)
  <2>6. Owned(B, current, n + Len(docs), A \cup n..(n + Len(docs) - 1), db)
    <3>. HIDE DEF n
    <3>. QED  BY <1>2, <1>3, <2>3, <2>4, AddsOwned
  <2>. HIDE DEF db
  <2>7. next_blob' \in Nat /\ next_blob <= next_blob'
    BY <1>2, <2>2, <2>5
  <2>8. blobs \cup next_blob..(next_blob' - 1) \subseteq blobs'
    <3>1. ASSUME NEW x \in next_blob..(next_blob' - 1)
          PROVE  \E i \in 1..Len(batch) : docs[i].blob = x
      <4>1. x - n + 1 \in 1..Len(batch) /\ n + (x - n + 1) - 1 = x
        BY <1>2, <2>2, <2>5
      <4>. QED  BY <2>4, <4>1
    <3>. QED  BY <2>3, <2>5, <3>1
  <2>9. Owned(remote.docs, ctx[s].version = remote.version, next_blob',
              AddedBy(s) \cup next_blob..(next_blob' - 1), db)
    <3>1. next_blob' = n + Len(docs)
      BY <2>3, <2>5
    <3>2. Owned(B, current, next_blob', A \cup n..(next_blob' - 1), db)
      <4>. HIDE DEF n
      <4>. QED  BY <1>2, <2>2, <2>3, <2>6, <3>1
    <3>. QED  BY <3>2 DEF B, A, current
  <2>10. Mutate(s, db, ctx[s].size + Len(batch))
    BY <2>5 DEF db
  <2>. QED  BY <1>1, <2>5, <2>7, <2>8, <2>9, <2>10, MutateOwned
<1>5. ASSUME NEW db, NEW size, Mutate(s, db, size), Owned(B, current, n, A, db),
             UNCHANGED <<store, pc>>
      PROVE  BlobInv'
  <2>1. UNCHANGED <<remote, blobs, next_blob, pc>>
    BY <1>5 DEF store
  <2>2. next_blob..(next_blob - 1) = {} /\ A \cup {} = A
    BY <1>2
  <2>3. /\ next_blob' \in Nat /\ next_blob <= next_blob'
        /\ blobs \cup next_blob..(next_blob' - 1) \subseteq blobs'
    BY <1>2, <2>1, <2>2
  <2>4. Owned(remote.docs, ctx[s].version = remote.version, next_blob',
              AddedBy(s) \cup next_blob..(next_blob' - 1), db)
    BY <1>5, <2>1, <2>2
  <2>. QED  BY <1>1, <1>5, <2>1, <2>3, <2>4, MutateOwned
<1>6. ASSUME NEW id \in MemoryIds, DeleteMemoryRequest(s, id) PROVE BlobInv'
  <2>1. Mutate(s, DeleteMemory(db0, id), ctx[s].size) /\ UNCHANGED <<store, pc>>
    BY <1>6 DEF DeleteMemoryRequest
  <2>2. Owned(B, current, n, A, DeleteMemory(db0, id))
    <3>. HIDE DEF db0, B, A, n, current
    <3>. QED  BY <1>2, <1>3, DeleteOwned
  <2>. QED  BY <1>5, <2>1, <2>2
<1>7. ASSUME ResetMemoryRequest(s) PROVE BlobInv'
  <2>1. Mutate(s, ResetMemory(db0), 0) /\ UNCHANGED <<store, pc>>
    BY <1>7 DEF ResetMemoryRequest
  <2>2. Owned(B, current, n, A, ResetMemory(db0))
    <3>. HIDE DEF db0, B, A, n, current
    <3>. QED  BY <1>2, <1>3, ResetOwned
  <2>. QED  BY <1>5, <2>1, <2>2
<1>. QED  BY <1>4, <1>6, <1>7

-----------------------------------------------------------------------------
(* What a session starts from: nothing is added or deleted yet.            *)
LEMMA StartOwned ==
    ASSUME MemoryInv, BlobInv
    PROVE  Owned(remote.docs, TRUE, next_blob, {}, GetOrCreateDb)
<1>1. /\ remote.docs \in SUBSET Docs /\ IsFiniteSet(remote.docs)
      /\ remote.version = 0 => remote.docs = {}
  BY DEF MemoryInv, Stored
<1>2. /\ BlobsOf(remote.docs) \subseteq 0..(next_blob - 1)
      /\ \A d, e \in remote.docs : d.blob = e.blob => d = e
  BY DEF BlobInv, StoredOwned
<1>3. ASSUME NEW log \in {<< >>, <<CreateEntry>>},
             GetOrCreateDb = [docs |-> remote.docs, log |-> log]
      PROVE  Owned(remote.docs, TRUE, next_blob, {}, GetOrCreateDb)
  <2>1. CreateEntry \in Entries
    BY DEF CreateEntry, Entry, Entries
  <2>2. log \in Seq(Entries)
    <3>1. << >> \in Seq(Entries)
      OBVIOUS
    <3>2. <<CreateEntry>> \in Seq(Entries)
      <4>. HIDE DEF CreateEntry
      <4>. QED  BY <2>1
    <3>. QED  BY <3>1, <3>2
  <2>3. GetOrCreateDb \in Indexes
    BY <1>1, <1>3, <2>2, IndexType
  <2>4. Added(log) = {} /\ PendingBlobDeletes(log) = {} /\ AddsOnce(log)
    BY NoBlobYet
  <2>5. Clean(remote.docs, remote.docs, log)
    BY <1>2, <2>4 DEF Clean
  <2>. QED  BY <1>2, <1>3, <2>3, <2>4, <2>5 DEF Owned
<1>4. CASE remote.version = 0
  <2>1. GetOrCreateDb = [docs |-> remote.docs, log |-> <<CreateEntry>>]
    BY <1>1, <1>4 DEF GetOrCreateDb, NewIndex
  <2>. QED  BY <1>3, <2>1
<1>5. CASE remote.version # 0
  <2>1. GetOrCreateDb = [docs |-> remote.docs, log |-> << >>]
    BY <1>5 DEF GetOrCreateDb, Import
  <2>. QED  BY <1>3, <2>1
<1>. QED  BY <1>4, <1>5

(* The expired memories are finitely many.                                 *)
LEMMA ExpiredFinite ==
    ASSUME MemoryInv, NEW expired \in SUBSET {d.id : d \in remote.docs}
    PROVE  IsFiniteSet(expired)
<1>1. IsFiniteSet(remote.docs)
  BY DEF MemoryInv, Stored
<1>2. [d \in remote.docs |-> d.id] \in Surjection(remote.docs, {d.id : d \in remote.docs})
  BY DEF Surjection
<1>. QED  BY <1>1, <1>2, FS_Surjection, FS_Subset

(* key_sync_handler.                                                       *)
LEMMA KeySyncOwned ==
    ASSUME MemoryInv, BlobInv, NEW s \in Sessions, KeySync(s)
    PROVE  BlobInv'
<1>1. PICK expired \in SUBSET {d.id : d \in remote.docs}, keep \in KeepChoices :
          ctx' = [ctx EXCEPT ![s] =
                       UserSessionContext(DeleteMemories(GetOrCreateDb, expired), keep)]
  BY DEF KeySync
<1>. DEFINE db == DeleteMemories(GetOrCreateDb, expired)
            c == UserSessionContext(db, keep)
<1>2. next_blob \in Nat
  BY DEF MemoryInv
<1>3. Owned(remote.docs, TRUE, next_blob, {}, db)
  <2>1. IsFiniteSet(expired)
    BY <1>1, ExpiredFinite
  <2>. HIDE DEF GetOrCreateDb
  <2>. QED  BY <1>2, <2>1, StartOwned, DeletesOwned
<1>. HIDE DEF db
<1>4. /\ c.version = remote.version /\ c.log = db.log
      /\ [docs |-> c.docs, log |-> c.log] = db
  <2>1. c.version = remote.version /\ c.docs = db.docs /\ c.log = db.log
    BY DEF UserSessionContext
  <2>2. db \in [docs : SUBSET Docs, log : Seq(Entries)]
    BY <1>3 DEF Owned, Indexes
  <2>. HIDE DEF c
  <2>. QED  BY <2>1, <2>2
<1>. HIDE DEF c
<1>5. SessionOwned(remote, next_blob, c) /\ Added(c.log) = {}
  BY <1>3, <1>4 DEF SessionOwned, Owned
<1>6. /\ ctx' = [ctx EXCEPT ![s] = c] /\ pc' = [pc EXCEPT ![s] = "idle"]
      /\ remote' = remote /\ blobs' = blobs /\ next_blob' = next_blob
  BY <1>1 DEF KeySync, db, c, store, MemoryInv
<1>7. next_blob..(next_blob - 1) = {} /\ next_blob <= next_blob /\ "idle" # "flush"
  BY <1>2
<1>. QED  BY <1>2, <1>5, <1>6, <1>7, OneOwner

(* pull_and_rebase, of a session whose additions are not stored.           *)
LEMMA PulledOwned ==
    ASSUME MemoryInv, BlobInv, NEW s \in Sessions, Live(s), pc[s] # "flush"
    PROVE  /\ SessionOwned(remote, next_blob, Pulled(ctx[s]))
           /\ Added(Pulled(ctx[s]).log) \subseteq AddedBy(s)
<1>. DEFINE c == ctx[s]
            db == ImportWithChanges(remote.docs, c.log)
<1>1. /\ c \in Contexts /\ SessionOwned(remote, next_blob, c) /\ AddedBy(s) = Added(c.log)
      /\ c.log \in Seq(Entries)
  BY LiveOwned, ContextType
<1>2. CASE remote.version \in {0, c.version}
  BY <1>1, <1>2 DEF Pulled
<1>3. CASE remote.version \notin {0, c.version}
  <2>1. /\ remote.docs \in SUBSET Docs /\ IsFiniteSet(remote.docs) /\ next_blob \in Nat
    BY DEF MemoryInv, Stored
  <2>2. /\ BlobsOf(remote.docs) \subseteq 0..(next_blob - 1)
        /\ \A d, e \in remote.docs : d.blob = e.blob => d = e
        /\ Added(c.log) \cap BlobsOf(remote.docs) = {}
    BY <1>1 DEF BlobInv, StoredOwned
  <2>3. AddsOnce(c.log) /\ Added(c.log) \subseteq 0..(next_blob - 1)
    BY <1>1 DEF SessionOwned, Owned
  <2>4. Owned(remote.docs, TRUE, next_blob, Added(c.log), db)
    <3>. HIDE DEF c
    <3>. QED  BY <1>1, <2>1, <2>2, <2>3, ImportOwned
  <2>. HIDE DEF db
  <2>5. db \in [docs : SUBSET Docs, log : Seq(Entries)] /\ Added(db.log) \subseteq Added(c.log)
    BY <2>4 DEF Owned, Indexes
  <2>6. /\ Pulled(c).version = remote.version /\ Pulled(c).docs = db.docs /\ Pulled(c).log = db.log
    BY <1>1, <1>3 DEF Pulled, Rebased, Contexts, db
  <2>7. [docs |-> Pulled(c).docs, log |-> Pulled(c).log] = db
    BY <2>5, <2>6
  <2>8. Owned(remote.docs, TRUE, next_blob, Nat, db)
    <3>1. Added(c.log) \subseteq Nat /\ next_blob <= next_blob
      BY <2>1, <2>3
    <3>. QED  BY <2>1, <2>4, <3>1, OwnedMore
  <2>9. SessionOwned(remote, next_blob, Pulled(c))
    BY <2>6, <2>7, <2>8 DEF SessionOwned
  <2>. QED  BY <1>1, <2>5, <2>6, <2>9
<1>. QED  BY <1>2, <1>3

(* The steps that neither store an index nor delete blobs; a request runs  *)
(* to its end.                                                             *)
LEMMA QuietStepOwned ==
    ASSUME MemoryInv, BlobInv, ~MayDisconnect, NEW s \in Sessions,
           \/ AddMemoryFails(s) \/ Sync(s) \/ Close(s) \/ Pull(s) \/ NothingToPersist(s)
           \/ IndexTooLarge(s) \/ Conflict(s) \/ Repull(s) \/ GiveUp(s)
           \/ WorkerTake(s) \/ RpcFails(s)
    PROVE  BlobInv'
<1>1. /\ next_blob \in Nat
      /\ ctx = [r \in Sessions |-> ctx[r]]
      /\ pc = [r \in Sessions |-> pc[r]]
      /\ ctx = [ctx EXCEPT ![s] = ctx[s]] /\ pc = [pc EXCEPT ![s] = pc[s]]
  BY DEF MemoryInv
<1>2. next_blob..(next_blob - 1) = {} /\ next_blob <= next_blob
  BY <1>1
<1>3. ASSUME UNCHANGED <<remote, blobs, next_blob>>, NEW c, NEW p, p # "flush",
             ctx' = [ctx EXCEPT ![s] = c], pc' = [pc EXCEPT ![s] = p],
             p # "idle" \/ c # None => /\ SessionOwned(remote, next_blob, c)
                                       /\ Added(c.log) \subseteq AddedBy(s)
      PROVE  BlobInv'
  BY <1>1, <1>2, <1>3, OneOwner
<1>4. Live(s) => SessionOwned(remote, next_blob, ctx[s])
  BY DEF BlobInv
<1>5. Live(s) /\ pc[s] # "flush" => Added(ctx[s].log) \subseteq AddedBy(s)
  BY DEF AddedBy
<1>6. CASE AddMemoryFails(s)
  <2>1. /\ next_blob' = next_blob + 1 /\ blobs' = blobs \cup {next_blob}
        /\ UNCHANGED <<remote, ctx, pc>> /\ Live(s) /\ pc[s] = "idle"
    BY <1>6 DEF AddMemoryFails, Working, Live
  <2>2. /\ next_blob' \in Nat /\ next_blob <= next_blob'
        /\ next_blob..(next_blob' - 1) = {next_blob}
    BY <1>1, <2>1
  <2>3. SessionOwned(remote, next_blob', ctx[s])
    <3>1. Nat \subseteq Nat
      OBVIOUS
    <3>. QED  BY <1>1, <1>4, <2>1, <2>2, <3>1, OwnedMore DEF SessionOwned
  <2>4. blobs \cup next_blob..(next_blob' - 1) \subseteq blobs'
    BY <2>1, <2>2
  <2>5. /\ ctx' = [ctx EXCEPT ![s] = ctx[s]] /\ pc' = [pc EXCEPT ![s] = pc[s]]
        /\ Added(ctx[s].log) \subseteq AddedBy(s) \cup next_blob..(next_blob' - 1)
        /\ pc[s] # "flush"
    BY <1>1, <1>5, <2>1
  <2>. QED  BY <2>1, <2>2, <2>3, <2>4, <2>5, OneOwner
<1>7. CASE Sync(s)
  <2>1. /\ UNCHANGED <<remote, blobs, next_blob, ctx>> /\ Live(s) /\ pc[s] = "idle"
        /\ pc' = [pc EXCEPT ![s] = "pull"] /\ ctx' = [ctx EXCEPT ![s] = ctx[s]]
    BY <1>1, <1>7 DEF Sync, Working, Live, Goto, store
  <2>. QED  BY <1>3, <1>4, <1>5, <2>1
<1>8. CASE Conflict(s) \/ WorkerTake(s)
  <2>1. PICK p \in {"repull", "write"} : pc' = [pc EXCEPT ![s] = p]
    BY <1>8 DEF Conflict, WorkerTake, Goto
  <2>2. /\ UNCHANGED <<remote, blobs, next_blob, ctx>> /\ Live(s) /\ pc[s] # "flush"
        /\ ctx' = [ctx EXCEPT ![s] = ctx[s]]
    BY <1>1, <1>8 DEF Conflict, WorkerTake, Writing, Live, store
  <2>3. p # "flush"
    BY <2>1
  <2>. QED  BY <1>3, <1>4, <1>5, <2>1, <2>2, <2>3
<1>9. CASE NothingToPersist(s)
  <2>1. /\ UNCHANGED <<remote, blobs, next_blob, ctx>> /\ Live(s) /\ pc[s] # "flush"
        /\ ctx[s].log = << >> /\ pc' = [pc EXCEPT ![s] = "flush"]
        /\ ctx' = [ctx EXCEPT ![s] = ctx[s]]
    BY <1>1, <1>9 DEF NothingToPersist, Live, Goto, store
  <2>2. PendingBlobDeletes(ctx[s].log) = {} /\ Added(ctx[s].log) = {}
    BY <2>1, NoBlobYet
  <2>. QED  BY <1>1, <1>2, <1>4, <2>1, <2>2, OneOwner
<1>10. CASE Pull(s) \/ Repull(s)
  <2>1. /\ UNCHANGED <<remote, blobs, next_blob>> /\ Live(s) /\ pc[s] # "flush"
        /\ pc' = [pc EXCEPT ![s] = "write"] /\ ctx' = [ctx EXCEPT ![s] = Pulled(ctx[s])]
    BY <1>10 DEF Pull, Repull, PullAndRebase, Pulled, Live, Goto, store
  <2>. QED  BY <1>3, <2>1, PulledOwned
<1>11. ASSUME NEW c, Finish(s), DropServed(s, [ctx EXCEPT ![s] = c]),
              UNCHANGED <<remote, blobs, next_blob>>,
              SessionOwned(remote, next_blob, c), Added(c.log) \subseteq AddedBy(s)
       PROVE  BlobInv'
  <2>1. pc' = [pc EXCEPT ![s] = "idle"] /\ "idle" # "flush"
    BY <1>11 DEF Finish, Goto
  <2>2. CASE Served(s)
    <3>1. ctx' = [ctx EXCEPT ![s] = None]
      BY <1>1, <1>11, <2>2 DEF DropServed
    <3>. QED  BY <1>3, <1>11, <2>1, <3>1
  <2>3. CASE ~Served(s)
    <3>1. ctx' = [ctx EXCEPT ![s] = c]
      BY <1>1, <1>11, <2>3 DEF DropServed
    <3>. QED  BY <1>3, <1>11, <2>1, <3>1
  <2>. QED  BY <2>2, <2>3
<1>12. CASE IndexTooLarge(s) \/ RpcFails(s)
  <2>1. /\ UNCHANGED <<remote, blobs, next_blob>> /\ Live(s) /\ pc[s] # "flush"
        /\ Finish(s) /\ DropServed(s, [ctx EXCEPT ![s] = ctx[s]])
    BY <1>1, <1>12 DEF IndexTooLarge, RpcFails, Writing, Fail, Live, store
  <2>. QED  BY <1>4, <1>5, <1>11, <2>1
<1>13. CASE GiveUp(s)
  <2>1. /\ UNCHANGED <<remote, blobs, next_blob>> /\ Live(s) /\ pc[s] # "flush"
        /\ Finish(s) /\ DropServed(s, [ctx EXCEPT ![s] = Pulled(ctx[s])])
    BY <1>1, <1>13 DEF GiveUp, Pulled, Live, store
  <2>. QED  BY <1>11, <2>1, PulledOwned
<1>14. CASE Close(s)
  <2>1. /\ UNCHANGED <<remote, blobs, next_blob>> /\ Live(s) /\ pc[s] = "idle"
        /\ \/ pc' = [pc EXCEPT ![s] = "queued"] /\ ctx' = [ctx EXCEPT ![s] = ctx[s]]
           \/ pc' = [pc EXCEPT ![s] = "idle"] /\ ctx' = [ctx EXCEPT ![s] = None]
    BY <1>1, <1>14 DEF Close, Live, Goto, store
  <2>2. "queued" # "flush" /\ "idle" # "flush"
    OBVIOUS
  <2>. QED  BY <1>3, <1>4, <1>5, <2>1, <2>2
<1>. QED  BY <1>6, <1>7, <1>8, <1>9, <1>10, <1>12, <1>13, <1>14

(* flush_pending_blob_deletes: no stored index and no session that may     *)
(* store one holds a blob that goes.                                       *)
LEMMA FlushOwned ==
    ASSUME MemoryInv, BlobInv, NEW s \in Sessions, Flush(s)
    PROVE  BlobInv'
<1>1. /\ pc[s] = "flush" /\ UNCHANGED <<remote, next_blob>>
      /\ pc' = [pc EXCEPT ![s] = "idle"]
      /\ \E gone \in SUBSET DeletedBy(s) : blobs' = blobs \ gone
  BY DEF Flush, FlushPendingBlobDeletes, Finish, Goto, DeletedBy
<1>2. PICK gone \in SUBSET DeletedBy(s) : blobs' = blobs \ gone
  BY <1>1
<1>3. /\ pc'[s] = "idle"
      /\ \A r \in Sessions \ {s} : ctx'[r] = ctx[r] /\ pc'[r] = pc[r]
      /\ ctx'[s] = None \/ ctx'[s] = [ctx[s] EXCEPT !.log = << >>]
  BY <1>1 DEF MemoryInv, Flush, DropServed
<1>4. \A r \in Sessions \ {s} :
          /\ Live(r)' = Live(r) /\ AddedBy(r)' = AddedBy(r) /\ DeletedBy(r)' = DeletedBy(r)
  BY <1>3 DEF Live, AddedBy, DeletedBy
<1>5. /\ ctx[s] \in Contexts /\ SessionOwned(remote, next_blob, ctx[s])
      /\ ctx[s].log = << >> \/ ctx[s].version < remote.version
      /\ ctx[s].version \in Nat /\ remote.version \in Nat
  <2>1. Live(s)
    BY <1>1 DEF Live
  <2>. QED  BY <1>1, <2>1, LiveOwned, ContextType DEF SessionSound, MemoryInv, Stored
<1>6. ASSUME ctx'[s] # None
      PROVE  SessionOwned(remote', next_blob', ctx'[s]) /\ Added(ctx'[s].log) = {}
  <2>. DEFINE c == ctx'[s]
  <2>1. /\ c.version = ctx[s].version /\ c.docs = ctx[s].docs /\ c.log = << >>
    BY <1>3, <1>5, <1>6 DEF Contexts
  <2>. HIDE DEF c
  <2>2. Added(<< >>) = {} /\ PendingBlobDeletes(<< >>) = {} /\ AddsOnce(<< >>)
    BY NoBlobYet
  <2>3. /\ BlobsOf(ctx[s].docs) \subseteq 0..(next_blob - 1)
        /\ ctx[s].version = remote.version => Clean(remote.docs, ctx[s].docs, << >>)
    BY <1>5 DEF SessionOwned, Owned
  <2>4. ctx[s].docs \in SUBSET Docs /\ IsFiniteSet(ctx[s].docs)
    BY <1>5, ContextType
  <2>5. [docs |-> c.docs, log |-> c.log] \in Indexes
    <3>1. << >> \in Seq(Entries)
      OBVIOUS
    <3>. QED  BY <2>1, <2>4, <3>1, IndexType
  <2>6. SessionOwned(remote, next_blob, c)
    BY <2>1, <2>2, <2>3, <2>5 DEF SessionOwned, Owned
  <2>. QED  BY <1>1, <2>1, <2>2, <2>6 DEF c
<1>7. AddedBy(s)' = {} /\ DeletedBy(s)' = {}
  BY <1>3, <1>6 DEF AddedBy, DeletedBy, Live
<1>8. StoredOwned'
  <2>1. /\ BlobsOf(remote.docs) \subseteq blobs /\ DeletedBy(s) \cap BlobsOf(remote.docs) = {}
        /\ BlobsOf(remote.docs) \subseteq 0..(next_blob - 1)
        /\ \A d, e \in remote.docs : d.blob = e.blob => d = e
    BY DEF BlobInv, StoredOwned
  <2>2. BlobsOf(remote.docs) \subseteq blobs'
    BY <1>2, <2>1
  <2>. QED  BY <1>1, <2>1, <2>2 DEF StoredOwned
<1>9. ASSUME NEW r \in Sessions, Live(r)' PROVE SessionOwned(remote', next_blob', ctx'[r])
  <2>1. CASE r = s
    BY <1>3, <1>6, <1>9, <2>1 DEF Live
  <2>2. CASE r # s
    BY <1>1, <1>3, <1>4, <1>9, <2>2 DEF BlobInv
  <2>. QED  BY <2>1, <2>2
<1>10. ASSUME NEW r \in Sessions
       PROVE  /\ AddedBy(r)' \subseteq blobs'
              /\ AddedBy(r)' \cap BlobsOf(remote'.docs) = {}
              /\ DeletedBy(r)' \cap BlobsOf(remote'.docs) = {}
  <2>1. CASE r = s
    BY <1>7, <2>1
  <2>2. CASE r # s
    <3>1. /\ AddedBy(r) \subseteq blobs /\ DeletedBy(s) \cap AddedBy(r) = {}
          /\ AddedBy(r) \cap BlobsOf(remote.docs) = {}
          /\ DeletedBy(r) \cap BlobsOf(remote.docs) = {}
      BY <2>2 DEF BlobInv
    <3>. QED  BY <1>1, <1>2, <1>4, <2>2, <3>1
  <2>. QED  BY <2>1, <2>2
<1>11. ASSUME NEW q \in Sessions, NEW r \in Sessions, q # r
       PROVE  AddedBy(q)' \cap AddedBy(r)' = {} /\ DeletedBy(q)' \cap AddedBy(r)' = {}
  <2>1. /\ AddedBy(q) \cap AddedBy(r) = {} /\ DeletedBy(q) \cap AddedBy(r) = {}
    BY <1>11 DEF BlobInv
  <2>. QED  BY <1>4, <1>7, <2>1
<1>. QED  BY <1>8, <1>9, <1>10, <1>11 DEF BlobInv

-----------------------------------------------------------------------------
(* The write that is accepted: the new index holds the stored blobs and the*)
(* session's own, and none of those that it or another session deletes.    *)
LEMMA PersistOwned ==
    ASSUME MemoryInv, BlobInv, ~VersionsRecur, NEW s \in Sessions, Persist(s)
    PROVE  BlobInv'
<1>1. /\ remote' = [version |-> remote.version + 1, docs |-> ctx[s].docs]
      /\ pc' = [pc EXCEPT ![s] = "flush"] /\ UNCHANGED <<blobs, next_blob, ctx>> /\ pc[s] = "write"
      /\ remote.version \in {0, ctx[s].version}
  BY DEF Persist, Writing, NewVersion, VersionConflict, Goto
<1>2. /\ SessionSound(remote, ctx[s], ops[s], pc[s]) /\ ctx[s] \in Contexts
      /\ SessionOwned(remote, next_blob, ctx[s])
      /\ AddedBy(s) = Added(ctx[s].log)
  <2>1. Live(s) /\ pc[s] # "flush"
    BY <1>1 DEF Live
  <2>. QED  BY <2>1, LiveOwned
<1>3. remote.version \in Nat /\ next_blob \in Nat
  BY DEF MemoryInv, Stored
<1>4. ctx[s].version = remote.version
  <2>1. ctx[s].version \in Nat /\ ctx[s].version <= remote.version
    BY <1>2, ContextType DEF SessionSound
  <2>. QED  BY <1>1, <1>3, <2>1
<1>5. /\ remote'.docs = ctx[s].docs /\ remote'.version = remote.version + 1
      /\ pc'[s] = "flush" /\ \A r \in Sessions \ {s} : pc'[r] = pc[r]
  BY <1>1 DEF MemoryInv
<1>6. \A r \in Sessions \ {s} :
          /\ Live(r)' = Live(r) /\ AddedBy(r)' = AddedBy(r) /\ DeletedBy(r)' = DeletedBy(r)
  BY <1>1, <1>5 DEF Live, AddedBy, DeletedBy
<1>7. AddedBy(s)' = {} /\ DeletedBy(s)' = PendingBlobDeletes(ctx[s].log)
  BY <1>1, <1>5 DEF AddedBy, DeletedBy
<1>8. /\ BlobsOf(ctx[s].docs) \subseteq BlobsOf(remote.docs) \cup AddedBy(s)
      /\ PendingBlobDeletes(ctx[s].log) \subseteq BlobsOf(remote.docs) \cup AddedBy(s)
      /\ PendingBlobDeletes(ctx[s].log) \cap BlobsOf(ctx[s].docs) = {}
      /\ \A d, e \in ctx[s].docs : d.blob = e.blob => d = e
      /\ BlobsOf(ctx[s].docs) \subseteq 0..(next_blob - 1)
  BY <1>2, <1>4 DEF SessionOwned, Owned, Clean
<1>9. /\ BlobsOf(remote.docs) \subseteq blobs
      /\ \A r \in Sessions : /\ AddedBy(r) \subseteq blobs
                             /\ AddedBy(r) \cap BlobsOf(remote.docs) = {}
                             /\ DeletedBy(r) \cap BlobsOf(remote.docs) = {}
      /\ \A q, r \in Sessions :
            q # r => AddedBy(q) \cap AddedBy(r) = {} /\ DeletedBy(q) \cap AddedBy(r) = {}
  BY DEF BlobInv, StoredOwned
<1>10. StoredOwned'
  <2>1. BlobsOf(ctx[s].docs) \subseteq blobs
    BY <1>8, <1>9
  <2>. QED  BY <1>1, <1>5, <1>8, <2>1 DEF StoredOwned
<1>11. ASSUME NEW r \in Sessions, Live(r)' PROVE SessionOwned(remote', next_blob', ctx'[r])
  <2>1. Live(r)
    BY <1>1, <1>6, <1>11 DEF Live
  <2>2. SessionSound(remote, ctx[r], ops[r], pc[r]) /\ SessionOwned(remote, next_blob, ctx[r])
    BY <2>1, LiveOwned
  <2>3. ctx[r].version # remote'.version
    <3>1. ctx[r].version \in Nat /\ ctx[r].version <= remote.version
      BY <2>2, ContextType DEF SessionSound
    <3>. QED  BY <1>3, <1>5, <3>1
  <2>. QED  BY <1>1, <2>2, <2>3 DEF SessionOwned, Owned
<1>12. ASSUME NEW r \in Sessions
       PROVE  /\ AddedBy(r)' \subseteq blobs'
              /\ AddedBy(r)' \cap BlobsOf(remote'.docs) = {}
              /\ DeletedBy(r)' \cap BlobsOf(remote'.docs) = {}
  <2>1. CASE r = s
    BY <1>5, <1>7, <1>8, <2>1
  <2>2. CASE r # s
    <3>1. /\ AddedBy(r) \cap BlobsOf(ctx[s].docs) = {}
          /\ DeletedBy(r) \cap BlobsOf(ctx[s].docs) = {}
      <4>1. AddedBy(s) \cap AddedBy(r) = {} /\ DeletedBy(r) \cap AddedBy(s) = {}
        BY <1>9, <2>2
      <4>. QED  BY <1>8, <1>9, <4>1
    <3>. QED  BY <1>1, <1>5, <1>6, <1>9, <2>2, <3>1
  <2>. QED  BY <2>1, <2>2
<1>13. ASSUME NEW q \in Sessions, NEW r \in Sessions, q # r
       PROVE  AddedBy(q)' \cap AddedBy(r)' = {} /\ DeletedBy(q)' \cap AddedBy(r)' = {}
  <2>1. CASE r = s
    BY <1>7, <2>1
  <2>2. CASE q = s
    <3>1. AddedBy(s) \cap AddedBy(r) = {} /\ AddedBy(r) \cap BlobsOf(remote.docs) = {}
      BY <1>9, <1>13, <2>2
    <3>2. AddedBy(r)' = AddedBy(r)
      BY <1>6, <1>13, <2>2
    <3>. QED  BY <1>7, <1>8, <2>2, <3>1, <3>2
  <2>3. CASE q # s /\ r # s
    BY <1>6, <1>9, <1>13, <2>3
  <2>. QED  BY <2>1, <2>2, <2>3
<1>. QED  BY <1>10, <1>11, <1>12, <1>13 DEF BlobInv

(* A restart forgets what was added and what was to be deleted.            *)
LEMMA CrashOwned ==
    ASSUME BlobInv, Crash
    PROVE  BlobInv'
<1>1. /\ UNCHANGED <<remote, blobs, next_blob>>
      /\ \A s \in Sessions : ctx'[s] = None /\ pc'[s] = "idle"
  BY DEF Crash, store
<1>2. \A s \in Sessions : ~Live(s)' /\ AddedBy(s)' = {} /\ DeletedBy(s)' = {}
  BY <1>1 DEF Live, AddedBy, DeletedBy
<1>3. StoredOwned'
  BY <1>1 DEF BlobInv, StoredOwned
<1>. QED  BY <1>2, <1>3 DEF BlobInv

(* No blob is owned at first, and each step keeps what owners have.        *)
LEMMA BlobInit == Init => BlobInv
<1>. SUFFICES ASSUME Init PROVE BlobInv
  OBVIOUS
<1>1. remote.docs = {} /\ BlobsOf({}) = {}
  BY DEF Init, BlobsOf
<1>2. \A s \in Sessions : ~Live(s) /\ AddedBy(s) = {} /\ DeletedBy(s) = {}
  BY DEF Init, Live, AddedBy, DeletedBy
<1>3. StoredOwned
  BY <1>1 DEF StoredOwned
<1>. QED  BY <1>2, <1>3 DEF BlobInv

(* One case for each action.                                               *)
LEMMA BlobNext ==
    ASSUME ~VersionsRecur, ~MayDisconnect
    PROVE  MemoryInv /\ BlobInv /\ [Next]_vars => BlobInv'
<1>. SUFFICES ASSUME MemoryInv, BlobInv, [Next]_vars PROVE BlobInv'
  OBVIOUS
<1>1. ASSUME NEW s \in Sessions, Request(s) PROVE BlobInv'
  BY <1>1, KeySyncOwned, MutationsOwned, QuietStepOwned DEF Request
<1>2. ASSUME NEW s \in Sessions, Progress(s) PROVE BlobInv'
  BY <1>2, PersistOwned, FlushOwned, QuietStepOwned DEF Progress
<1>3. ASSUME NEW s \in Sessions, RpcFails(s) PROVE BlobInv'
  BY <1>3, QuietStepOwned
<1>4. CASE Crash
  BY <1>4, CrashOwned
<1>5. CASE UNCHANGED vars
  BY <1>5 DEF vars, BlobInv, StoredOwned, SessionOwned, AddedBy, DeletedBy, Live
<1>. QED  BY <1>1, <1>2, <1>3, <1>4, <1>5 DEF Next

(* Every memory of the stored index has its blob, for any number of        *)
(* sessions, conflicts, failed calls and restarts, as long as no request is*)
(* cut short: a blob is deleted after an index without it was stored       *)
(* (flush_pending_blob_deletes), and no session that may store another     *)
(* index holds it.                                                         *)
THEOREM NoBlobIsMissing ==
    ASSUME ~VersionsRecur, ~MayDisconnect
    PROVE  Spec => []NoDangling
<1>1. Init => MemoryInv /\ BlobInv
  BY InvInit, BlobInit
<1>2. MemoryInv /\ BlobInv /\ [Next]_vars => (MemoryInv /\ BlobInv)'
  BY InvNext, BlobNext
<1>3. BlobInv => NoDangling
  BY DEF BlobInv, StoredOwned, NoDangling, BlobsOf
<1>. QED  BY <1>1, <1>2, <1>3, PTL DEF Spec

-----------------------------------------------------------------------------
(* Fewer memories still have unique names.                                 *)
LEMMA FewerNames ==
    ASSUME NEW docs, UniqueNames(docs), NEW less \in SUBSET docs
    PROVE  UniqueNames(less)
  BY DEF UniqueNames

(* delete_memories only takes memories away.                               *)
LEMMA DeletesShrink ==
    ASSUME NEW db, NEW ids, IsFiniteSet(ids)
    PROVE  DeleteMemories(db, ids).docs \subseteq db.docs
<1>. DEFINE seq == SetToSeq(ids)
<1>1. seq \in Seq(ids)
  BY SetToSeqType
<1>2. PICK h : Course("delete", h, db, seq) /\ FoldLeft(DeleteMemory, db, seq) = h[Len(seq)]
  BY <1>1, FoldDelete
<1>3. DeleteMemories(db, ids) = h[Len(seq)]
  BY <1>2 DEF DeleteMemories
<1>. HIDE DEF seq
<1>. DEFINE S == {k \in 0..Len(seq) : h[k].docs \subseteq db.docs}
<1>4. Len(seq) \in Nat /\ 0 \in S
  BY <1>1, <1>2 DEF Course
<1>5. ASSUME NEW k \in 1..Len(seq), k - 1 \in S PROVE k \in S
  <2>1. h[k] = DeleteMemory(h[k - 1], seq[k])
    BY <1>2 DEF Course, Step
  <2>2. h[k].docs \subseteq h[k - 1].docs
    BY <2>1 DEF DeleteMemory
  <2>3. k \in 0..Len(seq) /\ h[k - 1].docs \subseteq db.docs
    BY <1>4, <1>5
  <2>. QED  BY <2>2, <2>3
<1>. HIDE DEF S
<1>6. Len(seq) \in S
  BY <1>4, <1>5, AllSteps
<1>. QED  BY <1>3, <1>6 DEF S

(* One step of import_with_changes: the memory of the same name gives way. *)
LEMMA ReplayNames ==
    ASSUME NEW db \in Indexes, UniqueNames(db.docs), NEW e \in Entries
    PROVE  UniqueNames(Replay(db, e).docs)
<1>1. e.op \in {"AddMemory", "Remove", "Reset", "Create"}
  BY DEF Entries
<1>2. CASE e.op # "AddMemory"
  <2>1. Replay(db, e).docs \subseteq db.docs
    BY <1>1, <1>2 DEF Replay, DeleteMemory, ResetIndex
  <2>. QED  BY <2>1, FewerNames
<1>3. CASE e.op = "AddMemory"
  <2>. DEFINE same == IF e.name = None THEN {} ELSE WithName(db, e.name)
              kept == IF \E d \in same : same = {d} THEN db.docs \ same ELSE db.docs
  <2>1. Replay(db, e) = Put([db EXCEPT !.docs = kept], Doc(e))
    BY <1>3 DEF Replay, Doc
  <2>2. kept \subseteq db.docs
    OBVIOUS
  <2>3. e.name # None => \A d \in kept : d.name # e.name
    BY DEF WithName, UniqueNames
  <2>. HIDE DEF kept
  <2>4. Replay(db, e).docs \subseteq kept \cup {Doc(e)}
    BY <2>1 DEF Put, Indexes
  <2>5. Doc(e).name = e.name
    BY DEF Doc
  <2>. QED  BY <2>2, <2>3, <2>4, <2>5 DEF UniqueNames
<1>. QED  BY <1>2, <1>3

(* So import_with_changes keeps names unique.                              *)
LEMMA ImportNames ==
    ASSUME NEW B \in SUBSET Docs, IsFiniteSet(B), UniqueNames(B), NEW log \in Seq(Entries)
    PROVE  UniqueNames(ImportWithChanges(B, log).docs)
<1>1. PICK h : /\ Course("replay", h, Import(B), log)
               /\ FoldLeft(Replay, Import(B), log) = h[Len(log)]
  BY FoldReplay
<1>. DEFINE S == {k \in 0..Len(log) : h[k] \in Indexes /\ UniqueNames(h[k].docs)}
<1>2. Len(log) \in Nat /\ 0 \in S
  <2>1. Import(B) = [docs |-> B, log |-> << >>] /\ << >> \in Seq(Entries)
    BY DEF Import
  <2>2. Import(B) \in Indexes
    BY <2>1, IndexType
  <2>. QED  BY <1>1, <2>1, <2>2 DEF Course
<1>3. ASSUME NEW k \in 1..Len(log), k - 1 \in S PROVE k \in S
  <2>1. h[k] = Replay(h[k - 1], log[k]) /\ log[k] \in Entries
    BY <1>1 DEF Course, Step
  <2>2. k \in 0..Len(log) /\ h[k - 1] \in Indexes /\ UniqueNames(h[k - 1].docs)
    BY <1>2, <1>3
  <2>3. h[k] \in Indexes /\ UniqueNames(h[k].docs)
    BY <2>1, <2>2, ReplayRecorded, ReplayNames
  <2>. QED  BY <2>2, <2>3
<1>. HIDE DEF S
<1>4. Len(log) \in S
  BY <1>2, <1>3, AllSteps
<1>. QED  BY <1>1, <1>4 DEF S, ImportWithChanges

(* add_memory of one memory whose name nobody else has.                    *)
LEMMA AddName ==
    ASSUME NEW db, UniqueNames(db.docs), NEW doc,
           doc.name # None => \A d \in db.docs : d.name = doc.name => d.id = doc.id
    PROVE  /\ AddMemory(db, doc).docs \subseteq db.docs \cup {doc}
           /\ UniqueNames(AddMemory(db, doc).docs)
<1>1. AddMemory(db, doc).docs \subseteq {d \in db.docs : d.id # doc.id} \cup {doc}
  BY DEF AddMemory, DeleteMemory, Put, WithId
<1>. QED  BY <1>1 DEF UniqueNames

(* The memories of a batch that have one name are one memory.              *)
NamesApart(batch) ==
    \A i, j \in 1..Len(batch) :
        batch[i].name = batch[j].name /\ batch[i].name # None => batch[i].id = batch[j].id

(* index_memory for a batch that validate_single_memory has let through.   *)
LEMMA AddNames ==
    ASSUME NEW db, UniqueNames(db.docs), NEW docs \in Seq(Docs), NamesApart(docs),
           \A i \in 1..Len(docs) : docs[i].name # None =>
               \A d \in db.docs : d.name = docs[i].name => d.id = docs[i].id
    PROVE  UniqueNames(FoldLeft(AddMemory, db, docs).docs)
<1>1. PICK h : Course("add", h, db, docs) /\ FoldLeft(AddMemory, db, docs) = h[Len(docs)]
  BY FoldAdd
<1>. DEFINE Reserved(k) ==
                \A i \in 1..Len(docs) : docs[i].name # None =>
                    \A d \in h[k].docs : d.name = docs[i].name => d.id = docs[i].id
            S == {k \in 0..Len(docs) : UniqueNames(h[k].docs) /\ Reserved(k)}
<1>2. Len(docs) \in Nat /\ 0 \in S
  BY <1>1 DEF Course
<1>3. ASSUME NEW k \in 1..Len(docs), k - 1 \in S PROVE k \in S
  <2>1. h[k] = AddMemory(h[k - 1], docs[k])
    BY <1>1 DEF Course, Step
  <2>2. k \in 0..Len(docs) /\ UniqueNames(h[k - 1].docs) /\ Reserved(k - 1)
    BY <1>2, <1>3
  <2>3. docs[k].name # None => \A d \in h[k - 1].docs : d.name = docs[k].name => d.id = docs[k].id
    BY <2>2
  <2>4. h[k].docs \subseteq h[k - 1].docs \cup {docs[k]} /\ UniqueNames(h[k].docs)
    BY <2>1, <2>2, <2>3, AddName
  <2>5. Reserved(k)
    BY <2>2, <2>4 DEF NamesApart
  <2>. QED  BY <2>2, <2>4, <2>5
<1>. HIDE DEF S
<1>4. Len(docs) \in S
  BY <1>2, <1>3, AllSteps
<1>. QED  BY <1>1, <1>4 DEF S

(* A step of one session that leaves the stored index alone.               *)
LEMMA OneNamer ==
    ASSUME MemoryInv, NamesInv, NEW s \in Sessions, remote' = remote, NEW c, NEW p,
           ctx' = [ctx EXCEPT ![s] = c],
           pc'  = [pc EXCEPT ![s] = p],
           p # "idle" \/ c # None => UniqueNames(c.docs)
    PROVE  NamesInv'
<1>1. /\ ctx'[s] = c /\ pc'[s] = p
      /\ \A r \in Sessions \ {s} : ctx'[r] = ctx[r] /\ pc'[r] = pc[r]
  BY DEF MemoryInv
<1>2. \A r \in Sessions : Live(r)' => UniqueNames(ctx'[r].docs)
  BY <1>1 DEF NamesInv, Live
<1>. QED  BY <1>2 DEF NamesInv

(* No request adds two memories of one name.                               *)
AddsApart ==
    \A s \in Sessions, batch \in Batches : AddMemories(s, batch) => NamesApart(batch)

(* key_sync_handler and the requests that change the session's index.      *)
LEMMA RequestNames ==
    ASSUME MemoryInv, NamesInv, AddsApart, NEW s \in Sessions,
           \/ KeySync(s)
           \/ \E batch \in Batches : AddMemories(s, batch)
           \/ \E id \in MemoryIds : DeleteMemoryRequest(s, id)
           \/ ResetMemoryRequest(s)
    PROVE  NamesInv'
<1>. DEFINE db0 == [docs |-> ctx[s].docs, log |-> ctx[s].log]
<1>1. ASSUME NEW db, NEW size, Working(s), Mutate(s, db, size), UNCHANGED <<remote, pc>>,
             UniqueNames(db.docs)
      PROVE  NamesInv'
  <2>. DEFINE c == [ctx[s] EXCEPT !.docs = db.docs, !.log = db.log, !.size = size]
  <2>1. ctx[s] \in Contexts
    BY <1>1 DEF MemoryInv, SessionSound, Working
  <2>2. c.docs = db.docs
    BY <2>1 DEF Contexts
  <2>3. /\ ctx' = [ctx EXCEPT ![s] = c] /\ pc' = [pc EXCEPT ![s] = pc[s]] /\ remote' = remote
    BY <1>1 DEF Mutate, MemoryInv
  <2>. HIDE DEF c
  <2>. QED  BY <1>1, <2>2, <2>3, OneNamer
<1>2. Working(s) => /\ UniqueNames(db0.docs) /\ ctx[s] \in Contexts
                    /\ db0.docs \in SUBSET Docs /\ IsFiniteSet(db0.docs)
  <2>1. Working(s) => Live(s) /\ ctx[s] \in Contexts
    BY DEF Working, Live, MemoryInv, SessionSound
  <2>. QED  BY <2>1, ContextType DEF NamesInv
<1>3. CASE KeySync(s)
  <2>1. PICK expired \in SUBSET {d.id : d \in remote.docs}, keep \in KeepChoices :
            ctx' = [ctx EXCEPT ![s] =
                         UserSessionContext(DeleteMemories(GetOrCreateDb, expired), keep)]
    BY <1>3 DEF KeySync
  <2>. DEFINE db == DeleteMemories(GetOrCreateDb, expired)
              c == UserSessionContext(db, keep)
  <2>2. GetOrCreateDb.docs \subseteq remote.docs
    BY DEF GetOrCreateDb, NewIndex, Import
  <2>3. db.docs \subseteq remote.docs
    <3>1. db.docs \subseteq GetOrCreateDb.docs
      BY ExpiredFinite, DeletesShrink
    <3>. QED  BY <2>2, <3>1
  <2>4. UniqueNames(c.docs)
    <3>1. c.docs = db.docs
      BY DEF UserSessionContext
    <3>2. UniqueNames(remote.docs)
      BY DEF NamesInv
    <3>. HIDE DEF db, c
    <3>. QED  BY <2>3, <3>1, <3>2, FewerNames
  <2>5. /\ ctx' = [ctx EXCEPT ![s] = c] /\ pc' = [pc EXCEPT ![s] = pc[s]] /\ remote' = remote
    BY <1>3, <2>1 DEF KeySync, store, MemoryInv
  <2>. HIDE DEF c
  <2>. QED  BY <2>4, <2>5, OneNamer
<1>4. ASSUME NEW batch \in Batches, AddMemories(s, batch) PROVE NamesInv'
  <2>. DEFINE docs == [i \in 1..Len(batch) |->
                         [id |-> batch[i].id, name |-> batch[i].name,
                          blob |-> next_blob + i - 1]]
  <2>1. batch \in [1..Len(batch) -> Memories] /\ Len(batch) \in Nat
    <3>1. PICK k \in 1..MaxBatch : batch \in [1..k -> Memories]
      BY DEF Batches
    <3>2. Len(batch) = k /\ k \in Nat
      BY <3>1, MemoryAssumption
    <3>. QED  BY <3>1, <3>2
  <2>2. docs \in Seq(Docs) /\ Len(docs) = Len(batch)
    <3>1. \A i \in 1..Len(batch) : next_blob + i - 1 \in Nat /\ batch[i] \in Memories
      BY <2>1 DEF MemoryInv
    <3>2. docs \in [1..Len(batch) -> Docs]
      BY <3>1 DEF Memories, Docs
    <3>. HIDE DEF docs
    <3>. QED  BY <2>1, <3>2
  <2>3. \A i \in 1..Len(batch) : docs[i].id = batch[i].id /\ docs[i].name = batch[i].name
    OBVIOUS
  <2>4. /\ Mutate(s, FoldLeft(AddMemory, db0, docs), ctx[s].size + Len(batch))
        /\ UNCHANGED <<remote, pc>> /\ Working(s)
        /\ \A i \in 1..Len(batch) : ValidateSingleMemory(ctx[s], batch[i])
    BY <1>4 DEF AddMemories, IndexMemories
  <2>5. NamesApart(batch)
    BY <1>4 DEF AddsApart
  <2>. HIDE DEF docs
  <2>6. NamesApart(docs)
    BY <2>2, <2>3, <2>5 DEF NamesApart
  <2>7. \A i \in 1..Len(docs) : docs[i].name # None =>
            \A d \in db0.docs : d.name = docs[i].name => d.id = docs[i].id
    BY <2>2, <2>3, <2>4 DEF ValidateSingleMemory, WithName
  <2>. HIDE DEF db0
  <2>. DEFINE db == FoldLeft(AddMemory, db0, docs)
  <2>8. UniqueNames(db.docs)
    BY <1>2, <2>2, <2>4, <2>6, <2>7, AddNames
  <2>9. Mutate(s, db, ctx[s].size + Len(batch))
    BY <2>4
  <2>. HIDE DEF db
  <2>. QED  BY <1>1, <2>4, <2>8, <2>9
<1>5. ASSUME NEW id \in MemoryIds, DeleteMemoryRequest(s, id) PROVE NamesInv'
  <2>1. /\ Mutate(s, DeleteMemory(db0, id), ctx[s].size) /\ UNCHANGED <<remote, pc>>
        /\ Working(s)
    BY <1>5 DEF DeleteMemoryRequest, store
  <2>2. DeleteMemory(db0, id).docs \subseteq db0.docs
    BY DEF DeleteMemory
  <2>3. UniqueNames(DeleteMemory(db0, id).docs)
    BY <1>2, <2>1, <2>2, FewerNames
  <2>. QED  BY <1>1, <2>1, <2>3
<1>6. ASSUME ResetMemoryRequest(s) PROVE NamesInv'
  <2>1. Mutate(s, ResetMemory(db0), 0) /\ UNCHANGED <<remote, pc>> /\ Working(s)
    BY <1>6 DEF ResetMemoryRequest, store
  <2>2. UniqueNames(ResetMemory(db0).docs)
    BY DEF ResetMemory, ResetIndex, UniqueNames
  <2>. QED  BY <1>1, <2>1, <2>2
<1>. QED  BY <1>3, <1>4, <1>5, <1>6

(* The steps of a sync and of the worker.                                  *)
LEMMA StepNames ==
    ASSUME MemoryInv, NamesInv, ~VersionsRecur, NEW s \in Sessions,
           \/ AddMemoryFails(s) \/ Sync(s) \/ Close(s) \/ Progress(s) \/ RpcFails(s)
    PROVE  NamesInv'
<1>1. /\ ctx = [r \in Sessions |-> ctx[r]] /\ pc = [r \in Sessions |-> pc[r]]
      /\ ctx = [ctx EXCEPT ![s] = ctx[s]] /\ pc = [pc EXCEPT ![s] = pc[s]]
      /\ Live(s) => UniqueNames(ctx[s].docs) /\ ctx[s] \in Contexts
  BY DEF MemoryInv, NamesInv, SessionSound, Live
<1>2. ASSUME Live(s) PROVE UniqueNames(Pulled(ctx[s]).docs)
  <2>1. CASE remote.version \in {0, ctx[s].version}
    BY <1>1, <1>2, <2>1 DEF Pulled
  <2>2. CASE remote.version \notin {0, ctx[s].version}
    <3>1. /\ remote.docs \in SUBSET Docs /\ IsFiniteSet(remote.docs) /\ UniqueNames(remote.docs)
          /\ ctx[s].log \in Seq(Entries)
      BY <1>1, <1>2, ContextType DEF MemoryInv, Stored, NamesInv
    <3>2. Pulled(ctx[s]).docs = ImportWithChanges(remote.docs, ctx[s].log).docs
      BY <1>1, <1>2, <2>2 DEF Pulled, Rebased, Contexts
    <3>. QED  BY <3>1, <3>2, ImportNames
  <2>. QED  BY <2>1, <2>2
<1>3. CASE AddMemoryFails(s) \/ Sync(s) \/ NothingToPersist(s) \/ Conflict(s) \/ WorkerTake(s)
  <2>1. UNCHANGED <<remote, ctx>> /\ Live(s) /\ \E p : pc' = [pc EXCEPT ![s] = p]
    BY <1>1, <1>3 DEF AddMemoryFails, Sync, NothingToPersist, Conflict, WorkerTake, Working,
                      Writing, Live, Goto, store
  <2>. QED  BY <1>1, <2>1, OneNamer
<1>4. CASE Pull(s) \/ Repull(s)
  <2>1. /\ remote' = remote /\ Live(s) /\ pc' = [pc EXCEPT ![s] = "write"]
        /\ ctx' = [ctx EXCEPT ![s] = Pulled(ctx[s])]
    BY <1>4 DEF Pull, Repull, PullAndRebase, Pulled, Live, Goto, store
  <2>. QED  BY <1>2, <2>1, OneNamer
<1>5. ASSUME NEW c, Finish(s), DropServed(s, [ctx EXCEPT ![s] = c]), remote' = remote,
             UniqueNames(c.docs)
      PROVE  NamesInv'
  <2>1. pc' = [pc EXCEPT ![s] = "idle"]
    BY <1>5 DEF Finish, Goto
  <2>2. CASE Served(s)
    <3>1. ctx' = [ctx EXCEPT ![s] = None]
      BY <1>1, <1>5, <2>2 DEF DropServed
    <3>. QED  BY <1>5, <2>1, <3>1, OneNamer
  <2>3. CASE ~Served(s)
    <3>1. ctx' = [ctx EXCEPT ![s] = c]
      BY <1>1, <1>5, <2>3 DEF DropServed
    <3>. QED  BY <1>5, <2>1, <3>1, OneNamer
  <2>. QED  BY <2>2, <2>3
<1>6. CASE IndexTooLarge(s) \/ RpcFails(s)
  <2>1. /\ remote' = remote /\ Live(s) /\ Finish(s)
        /\ DropServed(s, [ctx EXCEPT ![s] = ctx[s]])
    BY <1>1, <1>6 DEF IndexTooLarge, RpcFails, Writing, Fail, Live, store
  <2>. QED  BY <1>1, <1>5, <2>1
<1>7. CASE GiveUp(s)
  <2>1. /\ remote' = remote /\ Live(s) /\ Finish(s)
        /\ DropServed(s, [ctx EXCEPT ![s] = Pulled(ctx[s])])
    BY <1>1, <1>7 DEF GiveUp, Pulled, Live, store
  <2>. QED  BY <1>2, <1>5, <2>1
<1>8. CASE Flush(s)
  <2>. DEFINE c == [ctx[s] EXCEPT !.log = << >>]
  <2>1. /\ remote' = remote /\ Live(s) /\ Finish(s) /\ DropServed(s, [ctx EXCEPT ![s] = c])
    BY <1>1, <1>8 DEF Flush, Live
  <2>2. c.docs = ctx[s].docs
    BY <1>1, <2>1 DEF Contexts
  <2>. HIDE DEF c
  <2>. QED  BY <1>1, <1>5, <2>1, <2>2
<1>9. CASE Close(s)
  <2>1. /\ remote' = remote /\ Live(s)
        /\ \/ pc' = [pc EXCEPT ![s] = "queued"] /\ ctx' = [ctx EXCEPT ![s] = ctx[s]]
           \/ pc' = [pc EXCEPT ![s] = "idle"] /\ ctx' = [ctx EXCEPT ![s] = None]
    BY <1>1, <1>9 DEF Close, Live, Goto, store
  <2>. QED  BY <1>1, <2>1, OneNamer
<1>10. CASE Persist(s)
  <2>1. /\ remote'.docs = ctx[s].docs /\ ctx' = ctx /\ Live(s)
        /\ pc' = [pc EXCEPT ![s] = "flush"]
    BY <1>10 DEF Persist, Writing, Live, Goto
  <2>2. \A r \in Sessions : Live(r)' => Live(r)
    BY <1>1, <2>1 DEF Live
  <2>. QED  BY <1>1, <2>1, <2>2 DEF NamesInv
<1>. QED  BY <1>3, <1>4, <1>6, <1>7, <1>8, <1>9, <1>10 DEF Progress

(* Names are unique at first, and every step keeps them so.                *)
LEMMA NamesInit == Init => NamesInv
  BY DEF Init, NamesInv, UniqueNames, Live

(* One case for each action.                                               *)
LEMMA NamesNext ==
    ASSUME ~VersionsRecur
    PROVE  MemoryInv /\ NamesInv /\ [Next /\ AddsApart]_vars => NamesInv'
<1>. SUFFICES ASSUME MemoryInv, NamesInv, [Next /\ AddsApart]_vars PROVE NamesInv'
  OBVIOUS
<1>1. ASSUME NEW s \in Sessions, Request(s) \/ Progress(s) \/ RpcFails(s), AddsApart
      PROVE  NamesInv'
  BY <1>1, RequestNames, StepNames DEF Request
<1>2. CASE Crash
  BY <1>2 DEF Crash, NamesInv, Live, store
<1>3. CASE UNCHANGED vars
  BY <1>3 DEF vars, NamesInv, Live
<1>. QED  BY <1>1, <1>2, <1>3 DEF Next

(* A name identifies at most one memory of the stored index, for any number*)
(* of sessions, conflicts, disconnects and restarts and batches of any     *)
(* size, as long as no batch gives one name to two memories:               *)
(* validate_single_memory sees to it within a session, import_with_changes *)
(* when sessions have given the same name.  The run memory_names shows that*)
(* the condition on the batches is needed.                                 *)
THEOREM NamesStayUnique ==
    ASSUME ~VersionsRecur
    PROVE  Spec /\ [][AddsApart]_vars => []NamesUnique
<1>1. Init => MemoryInv /\ NamesInv
  BY InvInit, NamesInit
<1>2. MemoryInv /\ NamesInv /\ [Next]_vars /\ [AddsApart]_vars => (MemoryInv /\ NamesInv)'
  BY InvNext, NamesNext
<1>3. NamesInv => NamesUnique
  BY DEF NamesInv, UniqueNames, NamesUnique
<1>. QED  BY <1>1, <1>2, <1>3, PTL DEF Spec

-----------------------------------------------------------------------------
(* The scenarios of MCMemory: the one of the rebases keeps the two         *)
(* invariants together.                                                    *)
RebaseInv == scenario = "rebase" => MemoryInv /\ BlobInv

(* Every memory of the stored index has its blob, in the scenario that the *)
(* run memory checks and for any number of sessions, memories, names,      *)
(* retries, log entries, versions and memories in a batch.                 *)
THEOREM IndexIsSound ==
    ASSUME ~VersionsRecur, ~MayDisconnect
    PROVE  MCSpec => []IndexSound
<1>1. MCInit => RebaseInv
  BY InvInit, BlobInit DEF MCInit, RebaseInv
<1>2. RebaseInv /\ [MCNext]_<<vars, scenario>> => RebaseInv'
  <2>. SUFFICES ASSUME RebaseInv, [MCNext]_<<vars, scenario>>, scenario' = "rebase"
                PROVE  (MemoryInv /\ BlobInv)'
    BY DEF RebaseInv
  <2>1. scenario = "rebase" /\ [Next]_vars
    BY DEF MCNext
  <2>2. MemoryInv /\ BlobInv
    BY <2>1 DEF RebaseInv
  <2>. QED  BY <2>1, <2>2, InvNext, BlobNext
<1>3. RebaseInv => IndexSound
  BY DEF RebaseInv, BlobInv, StoredOwned, NoDangling, BlobsOf, IndexSound
<1>. QED  BY <1>1, <1>2, <1>3, PTL DEF MCSpec

=============================================================================
