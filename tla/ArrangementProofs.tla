-------------------------- MODULE ArrangementProofs --------------------------
(***************************************************************************)
(* What is proved of the two editors of an order: the outline of a         *)
(* curriculum, with its removals and their undoing, and the blocks of a    *)
(* Parsons answer, with the text that stands for them.  In both nothing    *)
(* may be lost, or be there twice, whatever a person does.                 *)
(***************************************************************************)
EXTENDS OutlineEdits, ParsonsInput, FoldLemmas, TLAPS

(***************************************************************************)
(* OutlineEdits.  A removal, put back at once, leaves the outline as it    *)
(* was; so what undoing the whole stack would give does not change while   *)
(* removals are pushed and the last is undone.  Both need every row to be  *)
(* in one place only: in the outline, or in one removal of the stack.      *)
(***************************************************************************)
Topic == [id : Nat, subs : Seq(Nat)]
Removal == [kind : {"topic", "sub"}, serial : Nat, at : Nat \ {0}, of : Nat, row : Topic]

OutlineTyped ==
    topics \in Seq(Topic) /\ undo \in Seq(Removal) /\ lastRow \in Nat /\ edits \in Nat

\* A row is known when it was added, and no removal holds a row twice.
RowsKnown ==
    /\ Rows(topics) \subseteq 1 .. lastRow
    /\ \A i \in DOMAIN undo : TakenRows(undo[i]) \subseteq 1 .. lastRow /\ TopicApart(undo[i].row)

OutlineInv ==
    OutlineTyped /\ RowsKnown /\ NoRowTwice /\ (straight => AllUndone(undo, topics) = before)
-----------------------------------------------------------------------------
(* Putting back.                                                           *)

\* A sequence with one element more.
Inserted(seq, p, x) ==
    [i \in 1 .. (Len(seq) + 1) |-> IF i < p THEN seq[i] ELSE IF i = p THEN x ELSE seq[i - 1]]

\* The library puts an element in as Inserted says.
LEMMA InsertAtIs ==
    ASSUME NEW R, NEW seq \in Seq(R), NEW x \in R, NEW p \in 1 .. (Len(seq) + 1)
    PROVE  InsertAt(seq, p, x) = Inserted(seq, p, x) /\ Inserted(seq, p, x) \in Seq(R)
<1> DEFINE a == SubSeq(seq, 1, p - 1)
           b == SubSeq(seq, p, Len(seq))
           n == Len(seq)
<1>1. n \in Nat /\ p \in Nat
  OBVIOUS
<1>2. a \in Seq(R) /\ Len(a) = p - 1 /\ \A i \in 1 .. (p - 1) : a[i] = seq[i]
  BY <1>1
<1>3. b \in Seq(R) /\ Len(b) = n - p + 1 /\ \A i \in 1 .. (n - p + 1) : b[i] = seq[i + p - 1]
  BY <1>1
<1>4. InsertAt(seq, p, x) = a \o <<x>> \o b
  BY DEF InsertAt
<1> HIDE DEF a, b
<1>5. /\ a \o <<x>> \in Seq(R) /\ Len(a \o <<x>>) = p
      /\ \A i \in 1 .. (p - 1) : (a \o <<x>>)[i] = seq[i]
      /\ (a \o <<x>>)[p] = x
  BY <1>1, <1>2
<1> DEFINE c == a \o <<x>>
           all == c \o b
<1> HIDE DEF c
<1>6. /\ c \in Seq(R) /\ Len(c) = p /\ c[p] = x /\ \A i \in 1 .. (p - 1) : c[i] = seq[i]
  BY <1>5 DEF c
<1>7. /\ all \in Seq(R) /\ Len(all) = n + 1
      /\ \A i \in 1 .. p : all[i] = c[i]
      /\ \A i \in (p + 1) .. (n + 1) : all[i] = b[i - p]
  BY <1>1, <1>3, <1>6
<1> HIDE DEF all
<1>8. ASSUME NEW i \in 1 .. (n + 1)
      PROVE  all[i] = IF i < p THEN seq[i] ELSE IF i = p THEN x ELSE seq[i - 1]
  <2>1. CASE i < p
    BY <1>1, <1>6, <1>7, <2>1
  <2>2. CASE i = p
    BY <1>1, <1>6, <1>7, <2>2
  <2>3. CASE i > p
    <3>1. i \in (p + 1) .. (n + 1) /\ i - p \in 1 .. (n - p + 1)
      BY <1>1, <2>3
    <3>2. all[i] = seq[(i - p) + p - 1]
      BY <1>3, <1>7, <3>1
    <3>3. (i - p) + p - 1 = i - 1
      BY <1>1
    <3> QED
      BY <1>1, <2>3, <3>2, <3>3
  <2> QED
    BY <1>1, <2>1, <2>2, <2>3
<1>9. all = Inserted(seq, p, x)
  <2>1. all = [i \in 1 .. (n + 1) |-> all[i]]
    BY <1>7
  <2> QED
    BY <1>8, <2>1 DEF Inserted
<1> QED
  BY <1>4, <1>7, <1>9 DEF all, c

\* PutAt puts the element in at some place, whatever place it was given.
LEMMA PutAtIs ==
    ASSUME NEW R, NEW seq \in Seq(R), NEW x \in R, NEW at \in Nat \ {0}
    PROVE  /\ PutAt(seq, at, x) \in Seq(R)
           /\ \E p \in 1 .. (Len(seq) + 1) : PutAt(seq, at, x) = Inserted(seq, p, x)
<1> DEFINE p == IF at <= Len(seq) + 1 THEN at ELSE Len(seq) + 1
<1>1. p \in 1 .. (Len(seq) + 1)
  OBVIOUS
<1>2. PutAt(seq, at, x) = InsertAt(seq, p, x)
  BY DEF PutAt
<1> HIDE DEF p
<1> QED
  BY <1>1, <1>2, InsertAtIs

\* What is left when the element at one place is dropped.
LEMMA DroppedIs ==
    ASSUME NEW R, NEW seq \in Seq(R), NEW p \in DOMAIN seq
    PROVE  /\ Dropped(seq, p) \in Seq(R) /\ Len(Dropped(seq, p)) = Len(seq) - 1
           /\ \A i \in 1 .. (Len(seq) - 1) :
                 Dropped(seq, p)[i] = IF i < p THEN seq[i] ELSE seq[i + 1]
<1>1. Len(seq) \in Nat /\ p \in 1 .. Len(seq)
  OBVIOUS
<1>2. Len(seq) - 1 \in Nat
  BY <1>1
<1>3. \A i \in 1 .. (Len(seq) - 1) : (IF i < p THEN seq[i] ELSE seq[i + 1]) \in R
  BY <1>1
<1> QED
  BY <1>2, <1>3 DEF Dropped

\* What was taken out is put back where it was.
LEMMA PutBack ==
    ASSUME NEW R, NEW seq \in Seq(R), NEW p \in DOMAIN seq
    PROVE  PutAt(Dropped(seq, p), p, seq[p]) = seq
<1> DEFINE d == Dropped(seq, p)
<1>1. Len(seq) \in Nat /\ p \in 1 .. Len(seq) /\ seq[p] \in R
  OBVIOUS
<1>2. /\ d \in Seq(R) /\ Len(d) = Len(seq) - 1
      /\ \A i \in 1 .. (Len(seq) - 1) : d[i] = IF i < p THEN seq[i] ELSE seq[i + 1]
  BY DroppedIs
<1> HIDE DEF d
<1>3. PutAt(d, p, seq[p]) = InsertAt(d, p, seq[p]) /\ p \in 1 .. (Len(d) + 1)
  BY <1>1, <1>2 DEF PutAt
<1>4. InsertAt(d, p, seq[p]) = Inserted(d, p, seq[p])
  BY <1>1, <1>2, <1>3, InsertAtIs
<1>5. Inserted(d, p, seq[p]) = [i \in 1 .. Len(seq) |-> seq[i]]
  <2>1. Len(d) + 1 = Len(seq)
    BY <1>1, <1>2
  <2>2. ASSUME NEW i \in 1 .. Len(seq)
        PROVE  (IF i < p THEN d[i] ELSE IF i = p THEN seq[p] ELSE d[i - 1]) = seq[i]
    <3>1. CASE i < p
      BY <1>1, <1>2, <3>1
    <3>2. CASE i = p
      BY <3>2
    <3>3. CASE i > p
      <4>1. i - 1 \in 1 .. (Len(seq) - 1) /\ ~(i - 1 < p) /\ (i - 1) + 1 = i
        BY <1>1, <3>3
      <4> QED
        BY <1>1, <1>2, <3>3, <4>1
    <3> QED
      BY <1>1, <3>1, <3>2, <3>3
  <2> QED
    BY <2>1, <2>2 DEF Inserted
<1>6. [i \in 1 .. Len(seq) |-> seq[i]] = seq
  BY <1>1
<1> QED
  BY <1>3, <1>4, <1>5, <1>6 DEF d

-----------------------------------------------------------------------------
(* A draft and its topics.                                                 *)
Draft == Seq(Topic)

\* The subtopics of a topic, found by its name.
LEMMA SubsInIs ==
    ASSUME NEW d \in Draft, NEW id
    PROVE  /\ SubsIn(d, id) \in Seq(Nat)
           /\ id \in TopicIds(d) => /\ TopicAt(d, id) \in DOMAIN d /\ d[TopicAt(d, id)].id = id
                                    /\ SubsIn(d, id) = d[TopicAt(d, id)].subs
<1>1. id \in TopicIds(d) => TopicAt(d, id) \in DOMAIN d /\ d[TopicAt(d, id)].id = id
  BY DEF TopicIds, TopicAt
<1>2. \A i \in DOMAIN d : d[i].subs \in Seq(Nat)
  <2> DEFINE R == Topic
  <2>1. \A t \in R : t.subs \in Seq(Nat)
    BY DEF Topic
  <2>2. d \in Seq(R)
    BY DEF Draft
  <2> HIDE DEF R
  <2> QED
    BY <2>1, <2>2
<1> QED
  BY <1>1, <1>2 DEF SubsIn

\* Replacing the subtopics of one topic leaves every topic its name and its place.
LEMMA WithSubsIs ==
    ASSUME NEW d \in Draft, NEW id, NEW subs \in Seq(Nat)
    PROVE  /\ WithSubs(d, id, subs) \in Draft /\ Len(WithSubs(d, id, subs)) = Len(d)
           /\ DOMAIN WithSubs(d, id, subs) = DOMAIN d
           /\ \A i \in DOMAIN d :
                /\ WithSubs(d, id, subs)[i].id = d[i].id
                /\ WithSubs(d, id, subs)[i].subs = IF d[i].id = id THEN subs ELSE d[i].subs
                /\ WithSubs(d, id, subs)[i] = IF d[i].id = id THEN [d[i] EXCEPT !.subs = subs]
                                              ELSE d[i]
<1> DEFINE R == Topic
           New(t) == IF t.id = id THEN [t EXCEPT !.subs = subs] ELSE t
           e == [i \in DOMAIN d |-> New(d[i])]
<1>1. ASSUME NEW t \in R
      PROVE  /\ New(t) \in R /\ New(t).id = t.id
             /\ New(t).subs = IF t.id = id THEN subs ELSE t.subs
  BY DEF Topic
<1>2. d \in Seq(R)
  BY DEF Draft
<1>3. WithSubs(d, id, subs) = e
  BY DEF WithSubs
<1> HIDE DEF R, New
<1>4. \A i \in DOMAIN d : d[i] \in R
  BY <1>2
<1>5. e \in Seq(R) /\ Len(e) = Len(d) /\ DOMAIN e = DOMAIN d
  BY <1>1, <1>2, <1>4
<1> QED
  BY <1>1, <1>3, <1>4, <1>5 DEF Draft, New, R

\* Putting a removal back gives a draft.
LEMMA RestoredTyped ==
    ASSUME NEW d \in Draft, NEW r \in Removal
    PROVE  RestoreRemoval(d, r) \in Draft
<1>1. r.at \in Nat \ {0} /\ r.row \in Topic /\ r.row.id \in Nat
  BY DEF Removal, Topic
<1>2. PutAt(d, r.at, r.row) \in Draft
  <2> DEFINE R == Topic
  <2>1. d \in Seq(R) /\ r.row \in R
    BY <1>1 DEF Draft
  <2> HIDE DEF R
  <2>2. PutAt(d, r.at, r.row) \in Seq(R)
    BY <1>1, <2>1, PutAtIs
  <2> QED
    BY <2>2 DEF R, Draft
<1>3. PutAt(SubsIn(d, r.of), r.at, r.row.id) \in Seq(Nat)
  BY <1>1, SubsInIs, PutAtIs
<1>4. WithSubs(d, r.of, PutAt(SubsIn(d, r.of), r.at, r.row.id)) \in Draft
  BY <1>3, WithSubsIs
<1> QED
  BY <1>2, <1>4 DEF RestoreRemoval

-----------------------------------------------------------------------------
(* Undoing all.                                                            *)
BackStages(c, stack, draft) ==
    /\ c[Len(stack) + 1] = draft
    /\ \A k \in 1 .. Len(stack) : c[k] = RestoreRemoval(c[k + 1], stack[k])

\* Undoing all is undoing one by one, from the last removal to the first.
LEMMA UndoneStages ==
    ASSUME NEW stack \in Seq(Removal), NEW draft \in Draft
    PROVE  \E c : BackStages(c, stack, draft) /\ AllUndone(stack, draft) = c[1]
<1> DEFINE R == Removal
           n == Len(stack)
           D == 1 .. n
           St == Draft
           ch == [s \in SUBSET D |-> Min(s)]
           Step(v, k) == RestoreRemoval(v, stack[k])
           f == [p \in St \X D |-> Step(p[1], p[2])]
           Computes(g) == g = [s \in SUBSET D |-> IF s = {} THEN draft
                                      ELSE Step(g[s \ {Min(s)}], Min(s))]
           fold == CHOOSE g : Computes(g)
           c == [k \in 1 .. (n + 1) |-> fold[k .. n]]
<1>0. n \in Nat /\ D = DOMAIN stack /\ \A k \in D : stack[k] \in R
  <2>1. stack \in Seq(R)
    OBVIOUS
  <2> HIDE DEF R
  <2> QED
    BY <2>1
<1>1. /\ IsFiniteSet(D) /\ \A s \in SUBSET D : s # {} => Min(s) \in s
      /\ \A k \in D : Min(k .. n) = k /\ (k .. n) \ {k} = (k + 1) .. n
  BY <1>0, FirstPicked
<1>2. Picks(ch, D)
  BY <1>1 DEF Picks
<1>3. \A v \in St, k \in D : Step(v, k) \in St
  BY <1>0, RestoredTyped
<1>4. AllUndone(stack, draft) = fold[D]
  BY <1>0 DEF AllUndone, FoldRight, MapThenFoldSet
<1> HIDE DEF Step, St
<1>5. Steps(f, D, St)
  BY <1>3 DEF Steps
<1>6. \A v \in St, k \in D : f[<<v, k>>] = Step(v, k)
  OBVIOUS
<1>7. \A s \in SUBSET D : ch[s] = Min(s)
  OBVIOUS
<1>8. draft \in St
  BY DEF St
<1> HIDE DEF D, ch, f
<1>9. \E g : Computes(g)
  <2>1. PICK g : FoldsTo(g, f, ch, D, St, draft)
    BY <1>1, <1>2, <1>5, <1>8, FoldExists
  <2>2. ASSUME NEW s \in SUBSET D
        PROVE  g[s] = IF s = {} THEN draft ELSE Step(g[s \ {Min(s)}], Min(s))
    <3>1. s # {} => Min(s) \in D
      BY <1>1
    <3> QED
      BY <1>6, <1>7, <2>1, <3>1 DEF FoldsTo
  <2>3. Computes(g)
    BY <2>1, <2>2 DEF FoldsTo
  <2> QED
    BY <2>3
<1>10. Computes(fold)
  BY <1>9
<1> HIDE DEF fold
<1>11. fold[{}] = draft
  BY <1>10
<1>12. ASSUME NEW s \in SUBSET D, s # {}
       PROVE  fold[s] = Step(fold[s \ {Min(s)}], Min(s))
  BY <1>10, <1>12
<1>13. ASSUME NEW k \in 1 .. n PROVE c[k] = Step(c[k + 1], k)
  <2>1. k \in k .. n
    BY <1>0
  <2>2. k \in 1 .. (n + 1) /\ k + 1 \in 1 .. (n + 1) /\ k \in D
    BY <1>0 DEF D
  <2>3. k .. n \in SUBSET D
    BY <1>0 DEF D
  <2>4. fold[k .. n] = Step(fold[(k .. n) \ {k}], k)
    BY <1>1, <1>12, <2>1, <2>2, <2>3
  <2>5. (k .. n) \ {k} = (k + 1) .. n
    BY <1>1, <2>2
  <2> QED
    BY <2>2, <2>4, <2>5
<1>14. c[n + 1] = draft /\ c[1] = fold[D]
  <2>1. (n + 1) .. n = {} /\ n + 1 \in 1 .. (n + 1) /\ 1 \in 1 .. (n + 1)
    BY <1>0
  <2> QED
    BY <1>11, <2>1 DEF D
<1> HIDE DEF c
<1>15. BackStages(c, stack, draft)
  BY <1>13, <1>14 DEF BackStages, Step
<1> QED
  BY <1>4, <1>14, <1>15

\* With nothing to undo the draft stays.
LEMMA UndoneNone ==
    ASSUME NEW draft \in Draft PROVE AllUndone(<<>>, draft) = draft
<1> DEFINE none == <<>>
<1>1. none \in Seq(Removal) /\ Len(none) + 1 = 1
  OBVIOUS
<1> HIDE DEF none
<1>2. PICK c : BackStages(c, none, draft) /\ AllUndone(none, draft) = c[1]
  BY <1>1, UndoneStages
<1>3. AllUndone(none, draft) = draft
  BY <1>1, <1>2 DEF BackStages
<1> QED
  BY <1>3 DEF none

\* The last removal is undone first.
LEMMA UndoneLast ==
    ASSUME NEW stack \in Seq(Removal), NEW r \in Removal, NEW draft \in Draft
    PROVE  AllUndone(Append(stack, r), draft) = AllUndone(stack, RestoreRemoval(draft, r))
<1> DEFINE n == Len(stack)
           R == Removal
           more == Append(stack, r)
           back == RestoreRemoval(draft, r)
<1>1. stack \in Seq(R) /\ r \in R
  OBVIOUS
<1> HIDE DEF R
<1>2. /\ more \in Seq(R) /\ Len(more) = n + 1 /\ more[n + 1] = r /\ n \in Nat
      /\ \A k \in 1 .. n : more[k] = stack[k]
  BY <1>1
<1>3. back \in Draft
  BY RestoredTyped
<1> HIDE DEF more, back
<1>4. PICK c : BackStages(c, more, draft) /\ AllUndone(more, draft) = c[1]
  BY <1>2, UndoneStages DEF R
<1>5. PICK e : BackStages(e, stack, back) /\ AllUndone(stack, back) = e[1]
  BY <1>3, UndoneStages
<1> DEFINE P == {k \in 0 .. n : c[n + 1 - k] = e[n + 1 - k]}
<1>6. 0 \in P
  <2>1. n + 1 \in 1 .. (n + 1)
    BY <1>2
  <2>2. c[n + 1] = RestoreRemoval(c[(n + 1) + 1], r)
    BY <1>2, <1>4, <2>1 DEF BackStages
  <2>3. c[(n + 1) + 1] = draft
    BY <1>2, <1>4 DEF BackStages
  <2>4. c[n + 1] = back
    BY <2>2, <2>3 DEF back
  <2>5. e[n + 1] = back /\ n + 1 - 0 = n + 1 /\ 0 \in 0 .. n
    BY <1>2, <1>5 DEF BackStages
  <2> QED
    BY <2>4, <2>5
<1>7. ASSUME NEW k \in 1 .. n, k - 1 \in P PROVE k \in P
  <2> DEFINE j == n + 1 - k
  <2>1. j \in 1 .. n /\ j \in 1 .. (n + 1) /\ n + 1 - (k - 1) = j + 1 /\ k \in 0 .. n
    BY <1>2
  <2>2. c[j + 1] = e[j + 1]
    BY <1>7, <2>1
  <2> HIDE DEF j
  <2>3. c[j] = RestoreRemoval(c[j + 1], stack[j])
    BY <1>2, <1>4, <2>1 DEF BackStages
  <2>4. e[j] = RestoreRemoval(e[j + 1], stack[j])
    BY <1>5, <2>1 DEF BackStages
  <2>5. c[j] = e[j]
    BY <2>2, <2>3, <2>4
  <2> QED
    BY <2>1, <2>5 DEF j
<1> HIDE DEF P
<1>8. \A k \in 0 .. n : k \in P
  BY <1>2, <1>6, <1>7, UpTo
<1>9. c[n + 1 - n] = e[n + 1 - n] /\ n + 1 - n = 1
  BY <1>2, <1>8 DEF P
<1> QED
  BY <1>4, <1>5, <1>9 DEF more, back

\* A topic's rows are rows of the draft.
LEMMA RowsAre ==
    ASSUME NEW d \in Draft
    PROVE  /\ \A i \in DOMAIN d : d[i] \in Topic /\ RowsOf(d[i]) \subseteq Rows(d)
           /\ \A x \in Rows(d) : \E i \in DOMAIN d : x \in RowsOf(d[i])
<1> DEFINE R == Topic
<1>1. d \in Seq(R)
  BY DEF Draft
<1> HIDE DEF R
<1>2. \A i \in DOMAIN d : d[i] \in R
  BY <1>1
<1>3. \A i \in DOMAIN d : RowsOf(d[i]) \subseteq Rows(d)
  BY DEF Rows
<1>4. \A x \in Rows(d) : \E i \in DOMAIN d : x \in RowsOf(d[i])
  BY DEF Rows
<1> QED
  BY <1>2, <1>3, <1>4 DEF R

\* Topics of a draft in another order, or some of them.
LEMMA Rearranged ==
    ASSUME NEW d \in Draft, RowsApart(d), NEW e \in Draft, NEW m \in [DOMAIN e -> DOMAIN d],
           \A i, j \in DOMAIN e : m[i] = m[j] => i = j, \A i \in DOMAIN e : e[i] = d[m[i]]
    PROVE  /\ RowsApart(e) /\ Rows(e) \subseteq Rows(d)
           /\ \A p \in DOMAIN d : (\A i \in DOMAIN e : m[i] # p) => Rows(e) \cap RowsOf(d[p]) = {}
<1>1. \A i \in DOMAIN e : TopicApart(e[i])
  BY DEF RowsApart
<1>2. \A i, j \in DOMAIN e : i # j => RowsOf(e[i]) \cap RowsOf(e[j]) = {}
  BY DEF RowsApart
<1>3. ASSUME NEW x \in Rows(e) PROVE \E i \in DOMAIN e : x \in RowsOf(d[m[i]])
  BY DEF Rows
<1>4. Rows(e) \subseteq Rows(d)
  BY <1>3 DEF Rows
<1>5. ASSUME NEW p \in DOMAIN d, \A i \in DOMAIN e : m[i] # p, NEW x \in Rows(e), x \in RowsOf(d[p])
      PROVE  FALSE
  <2>1. PICK i \in DOMAIN e : x \in RowsOf(d[m[i]])
    BY <1>3
  <2>2. m[i] \in DOMAIN d /\ m[i] # p
    BY <1>5
  <2> QED
    BY <1>5, <2>1, <2>2 DEF RowsApart
<1> QED
  BY <1>1, <1>2, <1>4, <1>5 DEF RowsApart

\* A topic is taken out: its rows are gone and the others are each there once.
LEMMA DroppedApart ==
    ASSUME NEW d \in Draft, RowsApart(d), NEW p \in DOMAIN d
    PROVE  /\ Dropped(d, p) \in Draft /\ RowsApart(Dropped(d, p))
           /\ Rows(Dropped(d, p)) \subseteq Rows(d)
           /\ Rows(Dropped(d, p)) \cap RowsOf(d[p]) = {}
<1> DEFINE R == Topic
           e == Dropped(d, p)
           n == Len(d)
           m == [i \in 1 .. (n - 1) |-> IF i < p THEN i ELSE i + 1]
<1>0. d \in Seq(R) /\ n \in Nat
  BY DEF Draft
<1> HIDE DEF R
<1>1. /\ e \in Seq(R) /\ Len(e) = n - 1
      /\ \A i \in 1 .. (n - 1) : e[i] = IF i < p THEN d[i] ELSE d[i + 1]
  BY <1>0, DroppedIs
<1>2. DOMAIN e = 1 .. (n - 1) /\ DOMAIN d = 1 .. n
  BY <1>0, <1>1
<1> HIDE DEF e, n
<1>3. m \in [DOMAIN e -> DOMAIN d]
  BY <1>0, <1>2
<1>4. \A i, j \in DOMAIN e : m[i] = m[j] => i = j
  BY <1>0, <1>2
<1>5. \A i \in DOMAIN e : e[i] = d[m[i]] /\ m[i] # p
  BY <1>0, <1>1, <1>2
<1> HIDE DEF m
<1>6. e \in Draft
  BY <1>1 DEF R, Draft
<1>7. /\ RowsApart(e) /\ Rows(e) \subseteq Rows(d)
      /\ \A q \in DOMAIN d : (\A i \in DOMAIN e : m[i] # q) => Rows(e) \cap RowsOf(d[q]) = {}
  BY <1>3, <1>4, <1>5, <1>6, Rearranged
<1> QED
  BY <1>5, <1>6, <1>7 DEF e

\* A sequence made of elements of another, each taken once.
Taken(e, d) ==
    \E m \in [DOMAIN e -> DOMAIN d] :
        /\ \A i, j \in DOMAIN e : m[i] = m[j] => i = j
        /\ \A i \in DOMAIN e : e[i] = d[m[i]]

\* Two elements that change places.
LEMMA MovedIs ==
    ASSUME NEW R, NEW seq \in Seq(R), NEW at \in DOMAIN seq, NEW delta \in Int
    PROVE  Moved(seq, at, delta) \in Seq(R) /\ Taken(Moved(seq, at, delta), seq)
<1>1. CASE at + delta \notin DOMAIN seq
  <2> DEFINE m == [i \in DOMAIN seq |-> i]
  <2>1. Moved(seq, at, delta) = seq
    BY <1>1 DEF Moved
  <2>2. m \in [DOMAIN seq -> DOMAIN seq]
    OBVIOUS
  <2>3. Taken(seq, seq)
    BY <2>2 DEF Taken
  <2> QED
    BY <2>1, <2>3
<1>2. CASE at + delta \in DOMAIN seq
  <2> DEFINE to == at + delta
             new == [seq EXCEPT ![at] = seq[to], ![to] = seq[at]]
             m == [i \in DOMAIN seq |-> IF i = to THEN at ELSE IF i = at THEN to ELSE i]
  <2>1. Moved(seq, at, delta) = new
    BY <1>2 DEF Moved
  <2> HIDE DEF to
  <2>2. to \in DOMAIN seq
    BY <1>2 DEF to
  <2>3. new \in Seq(R) /\ DOMAIN new = DOMAIN seq
    BY <2>2
  <2>4. m \in [DOMAIN new -> DOMAIN seq]
    BY <2>2, <2>3
  <2>5. \A i, j \in DOMAIN m : m[i] = m[j] => i = j
    OBVIOUS
  <2>6. \A i \in DOMAIN m : new[i] = seq[m[i]]
    BY <2>2
  <2> HIDE DEF new, m
  <2>7. Taken(new, seq)
    BY <2>3, <2>4, <2>5, <2>6 DEF Taken
  <2> QED
    BY <2>1, <2>3, <2>7
<1> QED
  BY <1>1, <1>2

\* A topic is moved: the rows are the same, each there once.
LEMMA MovedApart ==
    ASSUME NEW d \in Draft, RowsApart(d), NEW at \in DOMAIN d, NEW delta \in Int
    PROVE  /\ Moved(d, at, delta) \in Draft /\ RowsApart(Moved(d, at, delta))
           /\ Rows(Moved(d, at, delta)) \subseteq Rows(d)
<1> DEFINE R == Topic
           e == Moved(d, at, delta)
<1>0. d \in Seq(R)
  BY DEF Draft
<1> HIDE DEF R
<1>1. e \in Seq(R) /\ Taken(e, d)
  BY <1>0, MovedIs
<1> HIDE DEF e
<1>2. e \in Draft
  BY <1>1 DEF R, Draft
<1>3. RowsApart(e) /\ Rows(e) \subseteq Rows(d)
  BY <1>1, <1>2, Rearranged DEF Taken
<1> QED
  BY <1>2, <1>3 DEF e

\* A topic put in.
LEMMA InsertedApart ==
    ASSUME NEW d \in Draft, RowsApart(d), NEW t \in Topic, TopicApart(t),
           RowsOf(t) \cap Rows(d) = {}, NEW p \in 1 .. (Len(d) + 1)
    PROVE  /\ Inserted(d, p, t) \in Draft /\ RowsApart(Inserted(d, p, t))
           /\ Rows(Inserted(d, p, t)) \subseteq Rows(d) \cup RowsOf(t)
<1> DEFINE R == Topic
           e == Inserted(d, p, t)
           n == Len(d)
<1>0. d \in Seq(R) /\ n \in Nat /\ DOMAIN d = 1 .. n
  BY DEF Draft
<1> HIDE DEF R
<1>1. e \in Seq(R)
  BY <1>0, InsertAtIs DEF R
<1>2. DOMAIN e = 1 .. (n + 1)
  BY <1>0 DEF Inserted
<1>3. \A i \in 1 .. (n + 1) : e[i] = IF i < p THEN d[i] ELSE IF i = p THEN t ELSE d[i - 1]
  BY <1>0 DEF Inserted
<1> HIDE DEF e, n
<1> DEFINE From(i) == IF i < p THEN i ELSE i - 1
<1>4. ASSUME NEW i \in DOMAIN e
      PROVE  \/ i = p /\ e[i] = t
             \/ i # p /\ From(i) \in DOMAIN d /\ e[i] = d[From(i)]
  BY <1>0, <1>2, <1>3
<1>5. \A i, j \in DOMAIN e : i # p /\ j # p /\ From(i) = From(j) => i = j
  BY <1>0, <1>2
<1> HIDE DEF From
<1>6. \A i \in DOMAIN e : TopicApart(e[i])
  BY <1>4 DEF RowsApart
<1>7. \A i \in DOMAIN d : RowsOf(d[i]) \subseteq Rows(d)
  BY RowsAre
<1>8. ASSUME NEW i \in DOMAIN e, NEW j \in DOMAIN e, i # j
      PROVE  RowsOf(e[i]) \cap RowsOf(e[j]) = {}
  <2>1. CASE i = p
    <3>1. e[i] = t /\ e[j] = d[From(j)] /\ From(j) \in DOMAIN d
      BY <1>4, <1>8, <2>1
    <3>2. RowsOf(d[From(j)]) \subseteq Rows(d)
      BY <1>7, <3>1
    <3> QED
      BY <3>1, <3>2
  <2>2. CASE j = p
    <3>1. e[j] = t /\ e[i] = d[From(i)] /\ From(i) \in DOMAIN d
      BY <1>4, <1>8, <2>2
    <3>2. RowsOf(d[From(i)]) \subseteq Rows(d)
      BY <1>7, <3>1
    <3> QED
      BY <3>1, <3>2
  <2>3. CASE i # p /\ j # p
    <3>1. e[i] = d[From(i)] /\ From(i) \in DOMAIN d /\ e[j] = d[From(j)] /\ From(j) \in DOMAIN d
      BY <1>4, <2>3
    <3>2. From(i) # From(j)
      BY <1>5, <1>8, <2>3
    <3> QED
      BY <3>1, <3>2 DEF RowsApart
  <2> QED
    BY <2>1, <2>2, <2>3
<1>9. \A i \in DOMAIN e : RowsOf(e[i]) \subseteq Rows(d) \cup RowsOf(t)
  BY <1>4, <1>7
<1>10. e \in Draft
  BY <1>1 DEF R, Draft
<1>11. Rows(e) \subseteq Rows(d) \cup RowsOf(t)
  BY <1>9, <1>10, RowsAre
<1> QED
  BY <1>6, <1>8, <1>10, <1>11 DEF RowsApart, e

\* Other subtopics of one topic, that are no other topic's.
LEMMA SubsChanged ==
    ASSUME NEW d \in Draft, RowsApart(d), NEW id, NEW subs \in Seq(Nat), IsInjective(subs),
           NEW N, N \cap Rows(d) = {}, ToSet(subs) \subseteq ToSet(SubsIn(d, id)) \cup N
    PROVE  /\ WithSubs(d, id, subs) \in Draft /\ RowsApart(WithSubs(d, id, subs))
           /\ Rows(WithSubs(d, id, subs)) \subseteq Rows(d) \cup N
           /\ \A s \in ToSet(SubsIn(d, id)) \ ToSet(subs) :
                 id \in TopicIds(d) => s \notin Rows(WithSubs(d, id, subs))
<1> DEFINE e == WithSubs(d, id, subs)
<1>1. /\ e \in Draft /\ DOMAIN e = DOMAIN d
      /\ \A i \in DOMAIN d :
           /\ e[i].id = d[i].id
           /\ e[i].subs = IF d[i].id = id THEN subs ELSE d[i].subs
           /\ e[i] = IF d[i].id = id THEN [d[i] EXCEPT !.subs = subs] ELSE d[i]
  BY WithSubsIs
<1> HIDE DEF e
<1>2. \A i \in DOMAIN d : RowsOf(d[i]) \subseteq Rows(d)
  BY RowsAre
<1>3. ASSUME NEW i \in DOMAIN d, d[i].id = id
      PROVE  /\ SubsIn(d, id) = d[i].subs /\ id \in TopicIds(d)
             /\ \A j \in DOMAIN d : d[j].id = id => j = i
  <2>1. id \in TopicIds(d)
    BY <1>3 DEF TopicIds
  <2>2. \A j \in DOMAIN d : d[j].id = id => j = i
    BY <1>3 DEF RowsApart, RowsOf
  <2>3. TopicAt(d, id) \in DOMAIN d /\ d[TopicAt(d, id)].id = id
        /\ SubsIn(d, id) = d[TopicAt(d, id)].subs
    BY <2>1, SubsInIs
  <2> QED
    BY <2>1, <2>2, <2>3
<1>4. ASSUME NEW i \in DOMAIN d, d[i].id = id
      PROVE  e[i].id = id /\ e[i].subs = subs /\ RowsOf(e[i]) \subseteq RowsOf(d[i]) \cup N
  BY <1>1, <1>3, <1>4 DEF RowsOf
<1>5. ASSUME NEW i \in DOMAIN d, d[i].id # id PROVE e[i] = d[i]
  BY <1>1, <1>5
<1>6. \A i \in DOMAIN d : RowsOf(e[i]) \subseteq RowsOf(d[i]) \cup N
  BY <1>4, <1>5
<1>7. \A i \in DOMAIN e : TopicApart(e[i])
  <2> SUFFICES ASSUME NEW i \in DOMAIN d PROVE TopicApart(e[i])
    BY <1>1
  <2>1. CASE d[i].id # id
    BY <1>5, <2>1 DEF RowsApart
  <2>2. CASE d[i].id = id
    <3>1. id \notin ToSet(SubsIn(d, id))
      BY <1>3, <2>2 DEF RowsApart, TopicApart
    <3>2. id \notin N
      BY <1>2, <2>2 DEF RowsOf
    <3> QED
      BY <1>4, <2>2, <3>1, <3>2 DEF TopicApart
  <2> QED
    BY <2>1, <2>2
<1>8. ASSUME NEW i \in DOMAIN d, NEW j \in DOMAIN d, i # j
      PROVE  RowsOf(e[i]) \cap RowsOf(e[j]) = {}
  <2>0. RowsOf(d[i]) \cap RowsOf(d[j]) = {}
    BY <1>8 DEF RowsApart
  <2>1. CASE d[i].id # id
    BY <1>2, <1>5, <1>6, <2>0, <2>1
  <2>2. CASE d[j].id # id
    BY <1>2, <1>5, <1>6, <2>0, <2>2
  <2>3. CASE d[i].id = id /\ d[j].id = id
    BY <1>3, <1>8, <2>3
  <2> QED
    BY <2>1, <2>2, <2>3
<1>9. Rows(e) \subseteq Rows(d) \cup N
  <2>1. \A x \in Rows(e) : \E i \in DOMAIN d : x \in RowsOf(e[i])
    BY <1>1, RowsAre
  <2> QED
    BY <1>2, <1>6, <2>1
<1>10. ASSUME NEW s \in ToSet(SubsIn(d, id)) \ ToSet(subs), id \in TopicIds(d), s \in Rows(e)
       PROVE  FALSE
  <2>1. PICK i \in DOMAIN d : s \in RowsOf(e[i])
    BY <1>1, <1>10, RowsAre
  <2>2. PICK j \in DOMAIN d : d[j].id = id
    BY <1>10 DEF TopicIds
  <2>3. s \in RowsOf(d[j]) /\ s # id
    BY <1>3, <1>10, <2>2 DEF RowsOf, RowsApart, TopicApart
  <2>4. CASE i = j
    BY <1>4, <1>10, <2>1, <2>2, <2>3, <2>4 DEF RowsOf
  <2>5. CASE i # j
    <3>1. d[i].id # id
      BY <1>3, <2>2, <2>5
    <3>2. s \in RowsOf(d[i])
      BY <1>5, <2>1, <3>1
    <3> QED
      BY <2>3, <2>5, <3>2 DEF RowsApart
  <2> QED
    BY <2>4, <2>5
<1> QED
  BY <1>1, <1>7, <1>8, <1>9, <1>10 DEF RowsApart, e

\* A subtopic is where IndexOf finds it, and Without takes out just that one.
LEMMA IndexIs ==
    ASSUME NEW subs \in Seq(Nat), IsInjective(subs), NEW s \in ToSet(subs)
    PROVE  /\ IndexOf(subs, s) \in DOMAIN subs /\ subs[IndexOf(subs, s)] = s
           /\ Without(subs, s) = Dropped(subs, IndexOf(subs, s))
<1> DEFINE I == {i \in 1 .. Len(subs) : subs[i] = s}
<1>1. Len(subs) \in Nat /\ DOMAIN subs = 1 .. Len(subs)
  OBVIOUS
<1>2. PICK p \in DOMAIN subs : subs[p] = s
  BY DEF ToSet
<1>3. I = {p}
  BY <1>1, <1>2 DEF IsInjective
<1>4. I \in SUBSET (1 .. Len(subs)) /\ I # {}
  BY <1>3
<1>5. IndexOf(subs, s) = Min(I)
  BY <1>4 DEF IndexOf, SelectInSeq
<1> HIDE DEF I
<1>6. Min(I) \in I
  BY <1>1, <1>4, FirstPicked
<1>7. IndexOf(subs, s) = p
  BY <1>3, <1>5, <1>6
<1>8. Without(subs, s) = Dropped(subs, p)
  <2> DEFINE S == ToSet(subs) \ {s}
  <2>1. subs[p] \notin S
    BY <1>2
  <2>2. \A i \in DOMAIN subs : i # p => subs[i] \in S
    BY <1>2 DEF IsInjective, ToSet
  <2>3. Without(subs, s) = Filtered(subs, S)
    BY DEF Without
  <2> HIDE DEF S
  <2> QED
    BY <1>2, <2>1, <2>2, <2>3, FilterOne
<1> QED
  BY <1>2, <1>7, <1>8

\* Without one of its topics the draft, and the topic put back.
LEMMA TopicTaken ==
    ASSUME NEW d \in Draft, RowsApart(d), NEW t \in TopicIds(d)
    PROVE  /\ TopicAt(d, t) \in DOMAIN d
           /\ Filtered(d, {row \in ToSet(d) : row.id # t}) = Dropped(d, TopicAt(d, t))
           /\ PutAt(Dropped(d, TopicAt(d, t)), TopicAt(d, t), d[TopicAt(d, t)]) = d
<1> DEFINE R == Topic
           p == TopicAt(d, t)
           S == {row \in ToSet(d) : row.id # t}
<1>1. d \in Seq(R)
  BY DEF Draft
<1> HIDE DEF R
<1>2. p \in DOMAIN d /\ d[p].id = t
  BY SubsInIs
<1> HIDE DEF p
<1>3. d[p] \notin S
  BY <1>2
<1>4. \A i \in DOMAIN d : i # p => d[i] \in S
  BY <1>2 DEF ToSet, RowsApart, RowsOf
<1>5. Filtered(d, S) = Dropped(d, p)
  <2> HIDE DEF S
  <2> QED
    BY <1>1, <1>2, <1>3, <1>4, FilterOne
<1>6. PutAt(Dropped(d, p), p, d[p]) = d
  BY <1>1, <1>2, PutBack
<1> QED
  BY <1>2, <1>5, <1>6 DEF p

\* Without one subtopic of a topic the draft, and the subtopic put back.
LEMMA SubTaken ==
    ASSUME NEW d \in Draft, RowsApart(d), NEW t \in TopicIds(d), NEW s \in ToSet(SubsIn(d, t)),
           NEW at, at = IndexOf(SubsIn(d, t), s),
           NEW e, e = WithSubs(d, t, Without(SubsIn(d, t), s))
    PROVE  /\ at \in Nat \ {0} /\ s \in Nat /\ s \in Rows(d)
           /\ e \in Draft /\ RowsApart(e) /\ Rows(e) \subseteq Rows(d) /\ s \notin Rows(e)
           /\ WithSubs(e, t, PutAt(SubsIn(e, t), at, s)) = d
<1> DEFINE subs == SubsIn(d, t)
           less == Dropped(subs, at)
<1>1. /\ subs \in Seq(Nat) /\ TopicAt(d, t) \in DOMAIN d /\ d[TopicAt(d, t)].id = t
      /\ subs = d[TopicAt(d, t)].subs
  BY SubsInIs
<1>2. IsInjective(subs)
  BY <1>1 DEF RowsApart, TopicApart
<1> HIDE DEF subs
<1>3. at \in DOMAIN subs /\ subs[at] = s /\ Without(subs, s) = less
  BY <1>1, <1>2, IndexIs DEF subs
<1>4. Len(subs) \in Nat /\ DOMAIN subs = 1 .. Len(subs)
  BY <1>1
<1>5. /\ less \in Seq(Nat) /\ Len(less) = Len(subs) - 1
      /\ \A i \in 1 .. (Len(subs) - 1) : less[i] = IF i < at THEN subs[i] ELSE subs[i + 1]
  BY <1>1, <1>3, DroppedIs
<1>6. PutAt(less, at, s) = subs
  BY <1>1, <1>3, PutBack
<1> HIDE DEF less
<1>7. DOMAIN less = 1 .. (Len(subs) - 1)
  BY <1>5
<1>8. ASSUME NEW i \in DOMAIN less
      PROVE  \E j \in DOMAIN subs : j # at /\ less[i] = subs[j] /\ j = IF i < at THEN i ELSE i + 1
  BY <1>3, <1>4, <1>5, <1>7
<1>9. IsInjective(less)
  <2> SUFFICES ASSUME NEW i \in DOMAIN less, NEW j \in DOMAIN less, less[i] = less[j] PROVE i = j
    BY DEF IsInjective
  <2>1. PICK a \in DOMAIN subs : less[i] = subs[a] /\ a = IF i < at THEN i ELSE i + 1
    BY <1>8
  <2>2. PICK b \in DOMAIN subs : less[j] = subs[b] /\ b = IF j < at THEN j ELSE j + 1
    BY <1>8
  <2>3. a = b
    BY <1>2, <2>1, <2>2 DEF IsInjective
  <2> QED
    BY <1>3, <1>4, <1>7, <2>1, <2>2, <2>3
<1>10. ToSet(less) \subseteq ToSet(subs) /\ s \notin ToSet(less)
  <2>1. ToSet(less) \subseteq ToSet(subs)
    BY <1>8 DEF ToSet
  <2>2. s \notin ToSet(less)
    BY <1>2, <1>3, <1>8 DEF ToSet, IsInjective
  <2> QED
    BY <2>1, <2>2
<1>11. e = WithSubs(d, t, less)
  BY <1>3 DEF subs
<1> DEFINE w == WithSubs(d, t, less)
<1>0. /\ DOMAIN w = DOMAIN d
      /\ \A i \in DOMAIN d :
           /\ w[i].id = d[i].id
           /\ w[i].subs = IF d[i].id = t THEN less ELSE d[i].subs
           /\ w[i] = IF d[i].id = t THEN [d[i] EXCEPT !.subs = less] ELSE d[i]
  BY <1>5, WithSubsIs
<1>12. /\ e \in Draft /\ RowsApart(e) /\ Rows(e) \subseteq Rows(d) /\ s \notin Rows(e)
  <2> DEFINE N == {}
  <2>1. N \cap Rows(d) = {} /\ ToSet(less) \subseteq ToSet(SubsIn(d, t)) \cup N
    BY <1>10 DEF subs
  <2> HIDE DEF N
  <2>2. /\ WithSubs(d, t, less) \in Draft /\ RowsApart(WithSubs(d, t, less))
        /\ Rows(WithSubs(d, t, less)) \subseteq Rows(d) \cup N
        /\ \A x \in ToSet(SubsIn(d, t)) \ ToSet(less) :
              t \in TopicIds(d) => x \notin Rows(WithSubs(d, t, less))
    BY <1>5, <1>9, <2>1, SubsChanged
  <2> QED
    BY <1>10, <1>11, <2>2 DEF N
<1> HIDE DEF w
<1>13. s \in Rows(d) /\ s \in Nat
  <2>1. s \in RowsOf(d[TopicAt(d, t)])
    BY <1>1 DEF RowsOf, subs
  <2>2. s \in Nat
    BY <1>1, <1>3
  <2> QED
    BY <1>1, <2>1, <2>2, RowsAre
<1>14. SubsIn(e, t) = less
  <2>1. /\ DOMAIN e = DOMAIN d
        /\ \A i \in DOMAIN d : e[i].id = d[i].id /\ (d[i].id = t => e[i].subs = less)
    BY <1>0, <1>11 DEF w
  <2>2. t \in TopicIds(e)
    BY <1>1, <2>1 DEF TopicIds
  <2>3. TopicAt(e, t) \in DOMAIN d /\ e[TopicAt(e, t)].id = t /\ SubsIn(e, t) = e[TopicAt(e, t)].subs
    BY <1>12, <2>1, <2>2, SubsInIs
  <2> QED
    BY <2>1, <2>3
<1>15. WithSubs(e, t, subs) = d
  <2>1. /\ DOMAIN e = DOMAIN d
        /\ \A i \in DOMAIN d : e[i].id = d[i].id
        /\ \A i \in DOMAIN d : e[i] = IF d[i].id = t THEN [d[i] EXCEPT !.subs = less] ELSE d[i]
    BY <1>0, <1>11 DEF w
  <2>2. \A i \in DOMAIN d : d[i].id = t => d[i].subs = subs
    BY <1>1 DEF RowsApart, RowsOf
  <2>3. \A i \in DOMAIN d : d[i] \in Topic
    BY RowsAre
  <2>4. ASSUME NEW i \in DOMAIN d
        PROVE  (IF e[i].id = t THEN [e[i] EXCEPT !.subs = subs] ELSE e[i]) = d[i]
    <3>1. CASE d[i].id # t
      BY <2>1, <3>1
    <3>2. CASE d[i].id = t
      <4>1. e[i] = [d[i] EXCEPT !.subs = less] /\ d[i].subs = subs /\ d[i] \in Topic
        BY <2>1, <2>2, <2>3, <3>2
      <4>2. [e[i] EXCEPT !.subs = subs] = d[i]
        BY <4>1 DEF Topic
      <4> QED
        BY <2>1, <3>2, <4>2
    <3> QED
      BY <3>1, <3>2
  <2>5. d = [i \in DOMAIN d |-> d[i]]
    BY DEF Draft
  <2> QED
    BY <2>1, <2>4, <2>5 DEF WithSubs
<1> QED
  BY <1>3, <1>4, <1>6, <1>12, <1>13, <1>14, <1>15

\* What the invariant says of the outline and of each removal on the stack.
LEMMA InvParts ==
    ASSUME OutlineInv
    PROVE  /\ topics \in Draft /\ undo \in Seq(Removal) /\ lastRow \in Nat /\ edits \in Nat
           /\ RowsApart(topics) /\ Rows(topics) \subseteq 1 .. lastRow
           /\ \A i \in DOMAIN undo :
                /\ undo[i] \in Removal /\ TakenRows(undo[i]) # {}
                /\ TakenRows(undo[i]) \subseteq 1 .. lastRow /\ TopicApart(undo[i].row)
                /\ TakenRows(undo[i]) \cap Rows(topics) = {}
                /\ \A j \in DOMAIN undo : i # j => TakenRows(undo[i]) \cap TakenRows(undo[j]) = {}
           /\ straight => AllUndone(undo, topics) = before
<1> DEFINE R == Removal
<1>1. undo \in Seq(R)
  BY DEF OutlineInv, OutlineTyped
<1> HIDE DEF R
<1>2. \A i \in DOMAIN undo : undo[i] \in R
  BY <1>1
<1>3. \A i \in DOMAIN undo : TakenRows(undo[i]) # {}
  BY DEF TakenRows, RowsOf
<1> QED
  BY <1>1, <1>2, <1>3 DEF R, OutlineInv, OutlineTyped, RowsKnown, NoRowTwice, Draft

\* The same, of the next state, gives the invariant.
LEMMA ToInv ==
    ASSUME topics' \in Draft, undo' \in Seq(Removal), lastRow' \in Nat, edits' \in Nat,
           RowsApart(topics'), Rows(topics') \subseteq 1 .. lastRow',
           \A i \in DOMAIN undo' :
                /\ TakenRows(undo'[i]) \subseteq 1 .. lastRow' /\ TopicApart(undo'[i].row)
                /\ TakenRows(undo'[i]) \cap Rows(topics') = {}
                /\ \A j \in DOMAIN undo' : i # j => TakenRows(undo'[i]) \cap TakenRows(undo'[j]) = {},
           straight' => AllUndone(undo', topics') = before'
    PROVE  OutlineInv'
BY DEF OutlineInv, OutlineTyped, RowsKnown, NoRowTwice, Draft

\* An edit that is no removal: the rows it adds are new.
LEMMA Bent ==
    ASSUME OutlineInv, topics' \in Draft, RowsApart(topics'), lastRow' \in Nat, lastRow <= lastRow',
           Rows(topics') \subseteq Rows(topics) \cup (lastRow + 1) .. lastRow',
           edits' \in Nat, undo' = undo, Bend
    PROVE  OutlineInv'
<1>1. Rows(topics') \subseteq 1 .. lastRow'
  BY InvParts
<1>2. \A i \in DOMAIN undo : TakenRows(undo[i]) \subseteq 1 .. lastRow'
  BY InvParts
<1>3. \A i \in DOMAIN undo : TakenRows(undo[i]) \cap Rows(topics') = {}
  BY InvParts
<1>4. straight' => AllUndone(undo', topics') = before'
  BY UndoneNone DEF Bend
<1> QED
  BY <1>1, <1>2, <1>3, <1>4, InvParts, ToInv

\* A removal.
LEMMA Pushed ==
    ASSUME OutlineInv, NEW r \in Removal, TopicApart(r.row), TakenRows(r) \subseteq Rows(topics),
           topics' \in Draft, RowsApart(topics'), Rows(topics') \subseteq Rows(topics),
           Rows(topics') \cap TakenRows(r) = {}, RestoreRemoval(topics', r) = topics,
           Remember(r), lastRow' = lastRow
    PROVE  OutlineInv'
<1> DEFINE R == Removal
           n == Len(undo)
           more == Append(undo, r)
<1>1. undo \in Seq(R) /\ r \in R /\ n \in Nat /\ DOMAIN undo = 1 .. n
  BY InvParts
<1>2. undo' = Trimmed(more) /\ edits' = edits + 1
  BY DEF Remember
<1> HIDE DEF R
<1>3. /\ more \in Seq(R) /\ Len(more) = n + 1 /\ more[n + 1] = r
      /\ \A i \in 1 .. n : more[i] = undo[i]
  BY <1>1
<1> HIDE DEF more
<1>4. ASSUME NEW i \in 1 .. (n + 1)
      PROVE  /\ TakenRows(more[i]) \subseteq 1 .. lastRow /\ TopicApart(more[i].row)
             /\ TakenRows(more[i]) \cap Rows(topics') = {}
             /\ \A j \in 1 .. (n + 1) : i # j => TakenRows(more[i]) \cap TakenRows(more[j]) = {}
  <2>1. \A k \in 1 .. (n + 1) : k \in 1 .. n \/ k = n + 1
    BY <1>1
  <2>2. \A k \in 1 .. n : /\ TakenRows(undo[k]) \subseteq 1 .. lastRow /\ TopicApart(undo[k].row)
                          /\ TakenRows(undo[k]) \cap Rows(topics) = {}
                          /\ \A j \in 1 .. n :
                                k # j => TakenRows(undo[k]) \cap TakenRows(undo[j]) = {}
    BY <1>1, InvParts
  <2>3. TakenRows(r) \subseteq 1 .. lastRow
    BY InvParts
  <2>4. TakenRows(more[i]) \subseteq 1 .. lastRow /\ TopicApart(more[i].row)
    BY <1>3, <2>1, <2>2, <2>3
  <2>5. TakenRows(more[i]) \cap Rows(topics') = {}
    BY <1>3, <2>1, <2>2
  <2>6. ASSUME NEW j \in 1 .. (n + 1), i # j PROVE TakenRows(more[i]) \cap TakenRows(more[j]) = {}
    BY <1>3, <2>1, <2>2, <2>6
  <2> QED
    BY <2>4, <2>5, <2>6
<1> DEFINE by == IF n + 1 > UndoDepth THEN 1 ELSE 0
<1>5. by \in 0 .. 1 /\ UndoDepth \in Nat \ {0}
  BY OutlineAssumption
<1>6. undo' = SubSeq(more, by + 1, n + 1)
  BY <1>2, <1>3 DEF Trimmed
<1> HIDE DEF by
<1>7. /\ undo' \in Seq(R) /\ DOMAIN undo' = 1 .. (n + 1 - by)
      /\ \A i \in 1 .. (n + 1 - by) : undo'[i] = more[i + by] /\ i + by \in 1 .. (n + 1)
  BY <1>1, <1>3, <1>5, <1>6
<1>8. ASSUME NEW i \in DOMAIN undo'
      PROVE  /\ TakenRows(undo'[i]) \subseteq 1 .. lastRow' /\ TopicApart(undo'[i].row)
             /\ TakenRows(undo'[i]) \cap Rows(topics') = {}
             /\ \A j \in DOMAIN undo' : i # j => TakenRows(undo'[i]) \cap TakenRows(undo'[j]) = {}
  <2>1. i + by \in 1 .. (n + 1) /\ undo'[i] = more[i + by]
    BY <1>7
  <2>2. \A j \in DOMAIN undo' : i # j => i + by # j + by
    BY <1>1, <1>5, <1>7
  <2>3. /\ TakenRows(undo'[i]) \subseteq 1 .. lastRow' /\ TopicApart(undo'[i].row)
        /\ TakenRows(undo'[i]) \cap Rows(topics') = {}
    BY <1>4, <2>1
  <2>4. ASSUME NEW j \in DOMAIN undo', i # j
        PROVE  TakenRows(undo'[i]) \cap TakenRows(undo'[j]) = {}
    <3>1. j + by \in 1 .. (n + 1) /\ undo'[j] = more[j + by] /\ i + by # j + by
      BY <1>7, <2>2, <2>4
    <3> QED
      BY <1>4, <2>1, <3>1
  <2> QED
    BY <2>3, <2>4
<1>9. ASSUME straight' PROVE AllUndone(undo', topics') = before'
  <2>1. (straight \/ undo = <<>>) /\ n < UndoDepth
    BY <1>9 DEF Remember
  <2>2. by = 0
    BY <1>1, <1>5, <2>1 DEF by
  <2>3. undo' = more
    BY <1>1, <1>3, <1>6, <2>2
  <2>4. AllUndone(undo', topics') = AllUndone(undo, topics)
    <3>1. AllUndone(Append(undo, r), topics') = AllUndone(undo, RestoreRemoval(topics', r))
      BY <1>1, UndoneLast DEF R
    <3> QED
      BY <2>3, <3>1 DEF more
  <2>5. CASE undo = <<>>
    BY <2>4, <2>5, InvParts, UndoneNone DEF Remember
  <2>6. CASE undo # <<>>
    BY <2>1, <2>4, <2>6, InvParts DEF Remember
  <2> QED
    BY <2>5, <2>6
<1>10. Rows(topics') \subseteq 1 .. lastRow' /\ lastRow' \in Nat /\ edits' \in Nat
  BY <1>2, InvParts
<1>11. undo' \in Seq(Removal)
  BY <1>7 DEF R
<1> QED
  BY <1>8, <1>9, <1>10, <1>11, ToInv

\* Removing a topic takes it out whole, and putting it back gives the outline again.
LEMMA RemoveTopicStep ==
    ASSUME OutlineInv, NEW t \in TopicIds(topics), RemoveTopic(t)
    PROVE  OutlineInv'
<1> DEFINE at == TopicAt(topics, t)
           r == [kind |-> "topic", serial |-> edits, at |-> at, of |-> NoRow, row |-> topics[at]]
<1>1. /\ topics' = Filtered(topics, {row \in ToSet(topics) : row.id # t})
      /\ Remember(r) /\ lastRow' = lastRow
  BY DEF RemoveTopic
<1>2. topics \in Draft /\ RowsApart(topics)
  BY InvParts
<1>3. /\ at \in DOMAIN topics /\ topics' = Dropped(topics, at)
      /\ PutAt(topics', at, topics[at]) = topics
  BY <1>1, <1>2, TopicTaken
<1> HIDE DEF at
<1>4. /\ topics' \in Draft /\ RowsApart(topics') /\ Rows(topics') \subseteq Rows(topics)
      /\ Rows(topics') \cap RowsOf(topics[at]) = {}
  BY <1>2, <1>3, DroppedApart
<1>5. topics[at] \in Topic /\ RowsOf(topics[at]) \subseteq Rows(topics)
  BY <1>2, <1>3, RowsAre
<1>6. r \in Removal
  <2>1. at \in Nat \ {0} /\ edits \in Nat
    BY <1>2, <1>3, InvParts DEF Draft
  <2> QED
    BY <1>5, <2>1 DEF Removal, NoRow
<1>7. TopicApart(r.row) /\ TakenRows(r) = RowsOf(topics[at])
  BY <1>2, <1>3 DEF RowsApart, TakenRows
<1>8. RestoreRemoval(topics', r) = topics
  BY <1>3 DEF RestoreRemoval
<1> HIDE DEF r
<1> QED
  BY <1>1, <1>4, <1>5, <1>6, <1>7, <1>8, Pushed

\* Removing a subtopic does the same to the subtopics of one topic.
LEMMA RemoveSubtopicStep ==
    ASSUME OutlineInv, NEW t \in TopicIds(topics), NEW s \in ToSet(SubsOf(t)), RemoveSubtopic(t, s)
    PROVE  OutlineInv'
<1> DEFINE at == IndexOf(SubsIn(topics, t), s)
           row == [id |-> s, subs |-> <<>>]
           r == [kind |-> "sub", serial |-> edits, at |-> at, of |-> t, row |-> row]
<1>1. /\ topics' = WithSubs(topics, t, Without(SubsIn(topics, t), s))
      /\ Remember(r) /\ lastRow' = lastRow
  BY DEF RemoveSubtopic, SubsOf
<1>2. topics \in Draft /\ RowsApart(topics) /\ s \in ToSet(SubsIn(topics, t))
  BY InvParts DEF SubsOf
<1>3. /\ at \in Nat \ {0} /\ s \in Nat /\ s \in Rows(topics)
      /\ topics' \in Draft /\ RowsApart(topics') /\ Rows(topics') \subseteq Rows(topics)
      /\ s \notin Rows(topics')
      /\ WithSubs(topics', t, PutAt(SubsIn(topics', t), at, s)) = topics
  BY <1>1, <1>2, SubTaken
<1> HIDE DEF at
<1>4. row \in Topic /\ TopicApart(row) /\ RowsOf(row) = {s}
  BY <1>3 DEF Topic, TopicApart, RowsOf, ToSet, IsInjective
<1> HIDE DEF row
<1>5. t \in Nat
  BY <1>2, RowsAre DEF TopicIds, Topic
<1>6. r \in Removal
  BY <1>3, <1>4, <1>5, InvParts DEF Removal
<1>7. TopicApart(r.row) /\ TakenRows(r) = {s}
  BY <1>4 DEF TakenRows
<1>8. RestoreRemoval(topics', r) = topics
  BY <1>3 DEF RestoreRemoval, row
<1> HIDE DEF r
<1> QED
  BY <1>1, <1>3, <1>6, <1>7, <1>8, Pushed

\* A row that was not among the subtopics is among them once.
LEMMA InsertedOnce ==
    ASSUME NEW subs \in Seq(Nat), IsInjective(subs), NEW x \in Nat, x \notin ToSet(subs),
           NEW p \in 1 .. (Len(subs) + 1)
    PROVE  /\ Inserted(subs, p, x) \in Seq(Nat) /\ IsInjective(Inserted(subs, p, x))
           /\ ToSet(Inserted(subs, p, x)) \subseteq ToSet(subs) \cup {x}
<1> DEFINE e == Inserted(subs, p, x)
           n == Len(subs)
           From(i) == IF i < p THEN i ELSE i - 1
<1>0. n \in Nat /\ DOMAIN subs = 1 .. n
  OBVIOUS
<1>1. e \in Seq(Nat)
  BY InsertAtIs
<1>2. DOMAIN e = 1 .. (n + 1)
  BY <1>0 DEF Inserted
<1>3. \A i \in 1 .. (n + 1) : e[i] = IF i < p THEN subs[i] ELSE IF i = p THEN x ELSE subs[i - 1]
  BY <1>0 DEF Inserted
<1> HIDE DEF e, n
<1>4. ASSUME NEW i \in DOMAIN e
      PROVE  \/ i = p /\ e[i] = x
             \/ i # p /\ From(i) \in DOMAIN subs /\ e[i] = subs[From(i)]
  BY <1>0, <1>2, <1>3
<1>5. \A i, j \in DOMAIN e : i # p /\ j # p /\ From(i) = From(j) => i = j
  BY <1>0, <1>2
<1> HIDE DEF From
<1>6. \A i \in DOMAIN subs : subs[i] \in ToSet(subs) /\ subs[i] # x
  BY DEF ToSet
<1>7. \A i, j \in DOMAIN e : e[i] = e[j] => i = j
  BY <1>4, <1>5, <1>6 DEF IsInjective
<1>8. \A i \in DOMAIN e : e[i] \in ToSet(subs) \cup {x}
  BY <1>4, <1>6
<1>9. IsInjective(e) /\ ToSet(e) \subseteq ToSet(subs) \cup {x}
  BY <1>7, <1>8 DEF IsInjective, ToSet
<1> QED
  BY <1>1, <1>9 DEF e

\* What is put back stands in one place.
LEMMA Restored ==
    ASSUME NEW d \in Draft, RowsApart(d), NEW r \in Removal, TopicApart(r.row),
           TakenRows(r) \cap Rows(d) = {}
    PROVE  /\ RestoreRemoval(d, r) \in Draft /\ RowsApart(RestoreRemoval(d, r))
           /\ Rows(RestoreRemoval(d, r)) \subseteq Rows(d) \cup TakenRows(r)
<1>1. /\ r.at \in Nat \ {0} /\ r.row \in Topic /\ r.row.id \in Nat
      /\ TakenRows(r) = RowsOf(r.row) /\ r.row.id \in TakenRows(r)
  BY DEF Removal, Topic, TakenRows, RowsOf
<1>2. CASE r.kind = "topic"
  <2> DEFINE R == Topic
  <2>1. d \in Seq(R) /\ r.row \in R
    BY <1>1 DEF Draft
  <2> HIDE DEF R
  <2> DEFINE at == r.at
             row == r.row
  <2>5. at \in Nat \ {0} /\ row \in R
    BY <1>1, <2>1
  <2> HIDE DEF at, row
  <2>6. \E p \in 1 .. (Len(d) + 1) : PutAt(d, at, row) = Inserted(d, p, row)
    BY <2>1, <2>5, PutAtIs
  <2>2. PICK p \in 1 .. (Len(d) + 1) : PutAt(d, r.at, r.row) = Inserted(d, p, r.row)
    BY <2>6 DEF at, row
  <2>3. /\ Inserted(d, p, r.row) \in Draft /\ RowsApart(Inserted(d, p, r.row))
        /\ Rows(Inserted(d, p, r.row)) \subseteq Rows(d) \cup RowsOf(r.row)
    BY <1>1, InsertedApart
  <2> QED
    BY <1>1, <1>2, <2>2, <2>3 DEF RestoreRemoval
<1>3. CASE r.kind # "topic"
  <2> DEFINE subs == SubsIn(d, r.of)
             x == r.row.id
             N == {x}
  <2>1. subs \in Seq(Nat) /\ IsInjective(subs) /\ x \notin ToSet(subs)
    <3>1. CASE r.of \in TopicIds(d)
      <4>1. /\ TopicAt(d, r.of) \in DOMAIN d /\ subs = d[TopicAt(d, r.of)].subs /\ subs \in Seq(Nat)
        BY <3>1, SubsInIs
      <4>2. IsInjective(subs)
        BY <4>1 DEF RowsApart, TopicApart
      <4>3. ToSet(subs) \subseteq Rows(d)
        BY <4>1, RowsAre DEF RowsOf
      <4> QED
        BY <1>1, <4>1, <4>2, <4>3
    <3>2. CASE r.of \notin TopicIds(d)
      BY <3>2 DEF SubsIn, ToSet, IsInjective
    <3> QED
      BY <3>1, <3>2
  <2> DEFINE at == r.at
  <2>8. at \in Nat \ {0} /\ x \in Nat
    BY <1>1
  <2> HIDE DEF subs, at, x
  <2>9. \E p \in 1 .. (Len(subs) + 1) : PutAt(subs, at, x) = Inserted(subs, p, x)
    BY <2>1, <2>8, PutAtIs
  <2>2. PICK p \in 1 .. (Len(subs) + 1) : PutAt(subs, at, x) = Inserted(subs, p, x)
    BY <2>9
  <2> DEFINE new == Inserted(subs, p, x)
  <2>3. new \in Seq(Nat) /\ IsInjective(new) /\ ToSet(new) \subseteq ToSet(subs) \cup N
    BY <2>1, <2>8, InsertedOnce
  <2>4. RestoreRemoval(d, r) = WithSubs(d, r.of, new)
    BY <1>3, <2>2 DEF RestoreRemoval, subs, at, x
  <2> HIDE DEF new
  <2>5. N \cap Rows(d) = {} /\ N \subseteq TakenRows(r)
    BY <1>1 DEF x
  <2> HIDE DEF N
  <2>6. ToSet(new) \subseteq ToSet(SubsIn(d, r.of)) \cup N
    BY <2>3 DEF subs
  <2>7. /\ WithSubs(d, r.of, new) \in Draft /\ RowsApart(WithSubs(d, r.of, new))
        /\ Rows(WithSubs(d, r.of, new)) \subseteq Rows(d) \cup N
    BY <2>3, <2>5, <2>6, SubsChanged
  <2> QED
    BY <2>4, <2>5, <2>7
<1> QED
  BY <1>2, <1>3

\* Undo, from the stack or from a toast: one removal leaves the stack, its rows the others do
\* not hold, and when it is the last, what undoing all would give is what it was.
LEMMA UndoStep ==
    ASSUME OutlineInv, NEW r \in ToSet(undo), UndoRemoval(r)
    PROVE  OutlineInv'
<1> DEFINE R == Removal
           n == Len(undo)
           S == ToSet(undo) \ {r}
<1>1. undo \in Seq(R) /\ n \in Nat /\ DOMAIN undo = 1 .. n
  BY InvParts
<1>2. PICK k \in DOMAIN undo : undo[k] = r
  BY DEF ToSet
<1>3. /\ topics' = RestoreRemoval(topics, r) /\ undo' = Filtered(undo, S)
      /\ lastRow' = lastRow /\ edits' = edits /\ before' = before
      /\ straight' = (straight /\ undo # <<>> /\ r = Last(undo))
  BY DEF UndoRemoval, Without
<1>4. /\ r \in Removal /\ TopicApart(r.row) /\ TakenRows(r) \cap Rows(topics) = {}
      /\ TakenRows(r) \subseteq 1 .. lastRow
  BY <1>2, InvParts
<1>5. /\ topics' \in Draft /\ RowsApart(topics')
      /\ Rows(topics') \subseteq Rows(topics) \cup TakenRows(r)
  BY <1>3, <1>4, InvParts, Restored
<1>6. \A i \in DOMAIN undo : i # k => undo[i] \in S /\ TakenRows(undo[i]) \cap TakenRows(r) = {}
  <2> SUFFICES ASSUME NEW i \in DOMAIN undo, i # k
               PROVE  undo[i] \in S /\ TakenRows(undo[i]) \cap TakenRows(r) = {}
    OBVIOUS
  <2>1. TakenRows(undo[i]) \cap TakenRows(r) = {} /\ TakenRows(r) # {}
    BY <1>2, InvParts
  <2>2. undo[i] # r
    BY <2>1
  <2> QED
    BY <2>1, <2>2 DEF ToSet
<1>7. undo[k] \notin S
  BY <1>2
<1> HIDE DEF S, R
<1>8. undo' = Dropped(undo, k)
  BY <1>1, <1>2, <1>3, <1>6, <1>7, FilterOne
<1>9. /\ undo' \in Seq(R) /\ DOMAIN undo' = 1 .. (n - 1)
      /\ \A i \in 1 .. (n - 1) : undo'[i] = IF i < k THEN undo[i] ELSE undo[i + 1]
  BY <1>1, <1>2, <1>8, DroppedIs
<1> DEFINE From(i) == IF i < k THEN i ELSE i + 1
<1>10. ASSUME NEW i \in DOMAIN undo'
       PROVE  From(i) \in DOMAIN undo /\ From(i) # k /\ undo'[i] = undo[From(i)]
  BY <1>1, <1>2, <1>9
<1>11. \A i, j \in DOMAIN undo' : From(i) = From(j) => i = j
  BY <1>1, <1>2, <1>9
<1> HIDE DEF From
<1>12. ASSUME NEW i \in DOMAIN undo'
       PROVE  /\ TakenRows(undo'[i]) \subseteq 1 .. lastRow' /\ TopicApart(undo'[i].row)
              /\ TakenRows(undo'[i]) \cap Rows(topics') = {}
              /\ \A j \in DOMAIN undo' : i # j => TakenRows(undo'[i]) \cap TakenRows(undo'[j]) = {}
  <2>1. From(i) \in DOMAIN undo /\ From(i) # k /\ undo'[i] = undo[From(i)]
    BY <1>10
  <2>2. /\ TakenRows(undo'[i]) \subseteq 1 .. lastRow' /\ TopicApart(undo'[i].row)
        /\ TakenRows(undo'[i]) \cap Rows(topics) = {}
    BY <1>3, <2>1, InvParts
  <2>3. TakenRows(undo'[i]) \cap TakenRows(r) = {}
    BY <1>6, <2>1
  <2>4. ASSUME NEW j \in DOMAIN undo', i # j
        PROVE  TakenRows(undo'[i]) \cap TakenRows(undo'[j]) = {}
    <3>1. From(j) \in DOMAIN undo /\ undo'[j] = undo[From(j)] /\ From(i) # From(j)
      BY <1>10, <1>11, <2>4
    <3> QED
      BY <2>1, <3>1, InvParts
  <2> QED
    BY <1>5, <2>2, <2>3, <2>4
<1>13. ASSUME straight' PROVE AllUndone(undo', topics') = before'
  <2>1. straight /\ r = undo[n] /\ n \in DOMAIN undo
    <3>1. straight /\ r = undo[Len(undo)]
      BY <1>3, <1>13 DEF Last
    <3>2. 1 .. n # {}
      BY <1>1, <1>2
    <3> QED
      BY <1>1, <3>1, <3>2
  <2>2. k = n
    <3>1. TakenRows(undo[n]) # {}
      BY <2>1, InvParts
    <3>2. k # n => TakenRows(undo[n]) \cap TakenRows(r) = {}
      BY <1>6, <2>1
    <3> QED
      BY <2>1, <3>1, <3>2
  <2>3. undo = Append(undo', r)
    <3> DEFINE stack == undo'
               old == undo
    <3>1. stack \in Seq(R) /\ Len(stack) = n - 1 /\ n - 1 \in Nat /\ r \in R
      <4>1. n - 1 \in Nat /\ stack \in Seq(R) /\ DOMAIN stack = 1 .. (n - 1)
        BY <1>1, <1>9, <2>1
      <4>2. r \in R
        BY <1>4 DEF R
      <4> HIDE DEF stack, n
      <4> QED
        BY <4>1, <4>2
    <3>2. \A i \in 1 .. (n - 1) : stack[i] = old[i]
      BY <1>1, <1>9, <2>2
    <3>3. old \in Seq(R) /\ Len(old) = n /\ n \in Nat /\ old[n] = r
      BY <1>1, <2>1
    <3> HIDE DEF stack, old, n
    <3>4. old = Append(stack, r)
      BY <3>1, <3>2, <3>3
    <3> QED
      BY <3>4 DEF stack, old
  <2>4. AllUndone(Append(undo', r), topics) = AllUndone(undo', RestoreRemoval(topics, r))
    <3>1. undo' \in Seq(Removal) /\ topics \in Draft
      BY <1>9, InvParts DEF R
    <3> DEFINE stack == undo'
    <3>2. stack \in Seq(Removal)
      BY <3>1
    <3> HIDE DEF stack
    <3>3. AllUndone(Append(stack, r), topics) = AllUndone(stack, RestoreRemoval(topics, r))
      BY <1>4, <3>1, <3>2, UndoneLast
    <3> QED
      BY <3>3 DEF stack
  <2>5. AllUndone(undo, topics) = before
    BY <2>1, InvParts
  <2> QED
    BY <1>3, <2>3, <2>4, <2>5
<1>14. Rows(topics') \subseteq 1 .. lastRow' /\ lastRow' \in Nat /\ edits' \in Nat
  BY <1>3, <1>4, <1>5, InvParts
<1>15. undo' \in Seq(Removal)
  BY <1>9 DEF R
<1> QED
  BY <1>5, <1>12, <1>13, <1>14, <1>15, ToInv

\* A new topic has a name no row had.
LEMMA AddTopicStep == OutlineInv /\ AddTopic => OutlineInv'
<1> SUFFICES ASSUME OutlineInv, AddTopic PROVE OutlineInv'
  OBVIOUS
<1> DEFINE R == Topic
           t == [id |-> lastRow + 1, subs |-> <<>>]
           n == Len(topics)
<1>1. topics \in Seq(R) /\ topics \in Draft /\ RowsApart(topics) /\ n \in Nat /\ lastRow \in Nat
  BY InvParts DEF Draft
<1>2. t \in R /\ TopicApart(t) /\ RowsOf(t) = {lastRow + 1}
  BY <1>1 DEF Topic, TopicApart, RowsOf, ToSet, IsInjective
<1> HIDE DEF R
<1>3. topics' = Append(topics, t) /\ lastRow' = lastRow + 1 /\ undo' = undo /\ edits' = edits /\ Bend
  BY DEF AddTopic
<1> HIDE DEF t
<1>4. Append(topics, t) = Inserted(topics, n + 1, t)
  <2> DEFINE a == Append(topics, t)
  <2>1. a \in Seq(R) /\ Len(a) = n + 1 /\ a[n + 1] = t /\ \A i \in 1 .. n : a[i] = topics[i]
    BY <1>1, <1>2
  <2> HIDE DEF a
  <2>2. a = [i \in 1 .. (n + 1) |-> a[i]]
    BY <2>1
  <2>3. \A i \in 1 .. (n + 1) :
          a[i] = IF i < n + 1 THEN topics[i] ELSE IF i = n + 1 THEN t ELSE topics[i - 1]
    BY <1>1, <2>1
  <2> QED
    BY <2>2, <2>3 DEF Inserted, a
<1>5. RowsOf(t) \cap Rows(topics) = {}
  BY <1>1, <1>2, InvParts
<1>6. n + 1 \in 1 .. (Len(topics) + 1)
  BY <1>1
<1> HIDE DEF n
<1>7. /\ Inserted(topics, n + 1, t) \in Draft /\ RowsApart(Inserted(topics, n + 1, t))
      /\ Rows(Inserted(topics, n + 1, t)) \subseteq Rows(topics) \cup RowsOf(t)
  BY <1>1, <1>2, <1>5, <1>6, InsertedApart DEF R
<1>8. /\ topics' \in Draft /\ RowsApart(topics')
      /\ Rows(topics') \subseteq Rows(topics) \cup (lastRow + 1) .. lastRow'
  BY <1>1, <1>2, <1>3, <1>4, <1>7
<1>9. lastRow' \in Nat /\ lastRow <= lastRow' /\ edits' \in Nat
  BY <1>1, <1>3, InvParts
<1> QED
  BY <1>3, <1>8, <1>9, Bent

\* A topic with other subtopics, of which one may be new.
LEMMA SubsStep ==
    ASSUME OutlineInv, NEW t, NEW subs \in Seq(Nat), IsInjective(subs),
           ToSet(subs) \subseteq ToSet(SubsOf(t)) \cup (lastRow + 1) .. lastRow',
           lastRow' \in Nat, lastRow <= lastRow', topics' = WithSubs(topics, t, subs),
           edits' \in Nat, undo' = undo, Bend
    PROVE  OutlineInv'
<1> DEFINE N == (lastRow + 1) .. lastRow'
<1>1. topics \in Draft /\ RowsApart(topics)
  BY InvParts
<1>2. N \cap Rows(topics) = {}
  BY InvParts
<1>3. ToSet(subs) \subseteq ToSet(SubsIn(topics, t)) \cup N
  BY DEF SubsOf
<1> HIDE DEF N
<1>4. /\ WithSubs(topics, t, subs) \in Draft /\ RowsApart(WithSubs(topics, t, subs))
      /\ Rows(WithSubs(topics, t, subs)) \subseteq Rows(topics) \cup N
  BY <1>1, <1>2, <1>3, SubsChanged
<1> QED
  BY <1>4, Bent DEF N

\* The subtopics of a topic are rows, each there once.
LEMMA SubsAre ==
    ASSUME OutlineInv, NEW t \in TopicIds(topics)
    PROVE  /\ SubsOf(t) \in Seq(Nat) /\ IsInjective(SubsOf(t))
           /\ ToSet(SubsOf(t)) \subseteq Rows(topics)
<1>1. topics \in Draft /\ RowsApart(topics)
  BY InvParts
<1>2. /\ TopicAt(topics, t) \in DOMAIN topics /\ SubsOf(t) = topics[TopicAt(topics, t)].subs
      /\ SubsOf(t) \in Seq(Nat)
  BY <1>1, SubsInIs DEF SubsOf
<1>3. IsInjective(SubsOf(t))
  BY <1>1, <1>2 DEF RowsApart, TopicApart
<1>4. ToSet(SubsOf(t)) \subseteq Rows(topics)
  BY <1>1, <1>2, RowsAre DEF RowsOf
<1> QED
  BY <1>2, <1>3, <1>4

\* A new subtopic has a name no row had.
LEMMA AddSubtopicStep ==
    ASSUME OutlineInv, NEW t \in TopicIds(topics), AddSubtopic(t)
    PROVE  OutlineInv'
<1> DEFINE subs == SubsOf(t)
           new == Append(subs, lastRow + 1)
<1>1. subs \in Seq(Nat) /\ IsInjective(subs) /\ ToSet(subs) \subseteq 1 .. lastRow /\ lastRow \in Nat
  BY InvParts, SubsAre
<1>2. /\ topics' = WithSubs(topics, t, new) /\ lastRow' = lastRow + 1
      /\ undo' = undo /\ edits' = edits /\ Bend
  BY DEF AddSubtopic
<1> HIDE DEF subs
<1>3. /\ new \in Seq(Nat) /\ DOMAIN new = 1 .. (Len(subs) + 1) /\ new[Len(subs) + 1] = lastRow + 1
      /\ \A i \in 1 .. Len(subs) : new[i] = subs[i]
      /\ Len(subs) \in Nat /\ DOMAIN subs = 1 .. Len(subs)
  BY <1>1
<1> HIDE DEF new
<1>4. \A i \in DOMAIN new : i \in DOMAIN subs \/ i = Len(subs) + 1
  BY <1>3
<1>5. \A i \in DOMAIN subs : subs[i] \in ToSet(subs) /\ subs[i] # lastRow + 1
  <2>1. \A x \in 1 .. lastRow : x # lastRow + 1
    BY <1>1
  <2>2. \A i \in DOMAIN subs : subs[i] \in ToSet(subs)
    BY DEF ToSet
  <2> QED
    BY <1>1, <2>1, <2>2
<1>6. IsInjective(new)
  BY <1>1, <1>3, <1>4, <1>5 DEF IsInjective
<1>7. lastRow + 1 \in (lastRow + 1) .. lastRow'
  BY <1>1, <1>2
<1>8. ToSet(new) \subseteq ToSet(subs) \cup (lastRow + 1) .. lastRow'
  BY <1>3, <1>4, <1>5, <1>7 DEF ToSet
<1>9. lastRow' \in Nat /\ lastRow <= lastRow' /\ edits' \in Nat
  BY <1>1, <1>2, InvParts
<1> QED
  BY <1>2, <1>3, <1>6, <1>8, <1>9, SubsStep DEF subs

\* Moving a topic starts the history anew and loses no row.
LEMMA MoveTopicStep ==
    ASSUME OutlineInv, NEW t \in TopicIds(topics), NEW up \in BOOLEAN, MoveTopic(t, up)
    PROVE  OutlineInv'
<1> DEFINE at == TopicAt(topics, t)
           delta == IF up THEN 0 - 1 ELSE 1
<1>1. topics \in Draft /\ RowsApart(topics) /\ lastRow \in Nat /\ edits \in Nat
  BY InvParts
<1>2. at \in DOMAIN topics /\ delta \in Int
  BY <1>1, SubsInIs
<1>3. /\ topics' = Moved(topics, at, delta)
      /\ lastRow' = lastRow /\ undo' = undo /\ edits' = edits + 1 /\ Bend
  BY DEF MoveTopic
<1> HIDE DEF at, delta
<1>4. /\ topics' \in Draft /\ RowsApart(topics') /\ Rows(topics') \subseteq Rows(topics)
  BY <1>1, <1>2, <1>3, MovedApart
<1> QED
  BY <1>1, <1>3, <1>4, Bent

\* Moving a subtopic does too.
LEMMA MoveSubtopicStep ==
    ASSUME OutlineInv, NEW t \in TopicIds(topics), NEW s \in ToSet(SubsOf(t)), NEW up \in BOOLEAN,
           MoveSubtopic(t, s, up)
    PROVE  OutlineInv'
<1> DEFINE subs == SubsOf(t)
           at == IndexOf(subs, s)
           delta == IF up THEN 0 - 1 ELSE 1
           new == Moved(subs, at, delta)
<1>1. subs \in Seq(Nat) /\ IsInjective(subs) /\ lastRow \in Nat /\ edits \in Nat
  BY InvParts, SubsAre
<1>2. at \in DOMAIN subs /\ delta \in Int
  BY <1>1, IndexIs
<1>3. /\ topics' = WithSubs(topics, t, new)
      /\ lastRow' = lastRow /\ undo' = undo /\ edits' = edits + 1 /\ Bend
  BY DEF MoveSubtopic
<1> HIDE DEF subs, at, delta
<1>4. new \in Seq(Nat) /\ Taken(new, subs)
  BY <1>1, <1>2, MovedIs
<1> HIDE DEF new
<1>5. IsInjective(new) /\ ToSet(new) \subseteq ToSet(subs)
  BY <1>1, <1>4 DEF Taken, IsInjective, ToSet
<1> QED
  BY <1>1, <1>3, <1>4, <1>5, SubsStep DEF subs

\* Every step of the outline keeps the invariant.
LEMMA OutlineStep == OutlineInv /\ [OutlineNext]_outlineVars => OutlineInv'
<1> SUFFICES ASSUME OutlineInv, [OutlineNext]_outlineVars PROVE OutlineInv'
  OBVIOUS
<1>1. ASSUME UNCHANGED <<topics, undo, lastRow, edits, before, straight>> PROVE OutlineInv'
  BY <1>1 DEF OutlineInv, OutlineTyped, RowsKnown, NoRowTwice
<1>2. ASSUME NEW t \in TopicIds(topics),
             \/ AddSubtopic(t) \/ RemoveTopic(t) \/ ToggleTopic(t)
             \/ \E up \in BOOLEAN : MoveTopic(t, up)
             \/ \E s \in ToSet(SubsOf(t)) :
                   RemoveSubtopic(t, s) \/ \E up \in BOOLEAN : MoveSubtopic(t, s, up)
      PROVE  OutlineInv'
  <2>1. CASE ToggleTopic(t)
    BY <1>1, <2>1 DEF ToggleTopic, Look
  <2> QED
    BY <1>2, <2>1, AddSubtopicStep, RemoveTopicStep, MoveTopicStep, RemoveSubtopicStep,
       MoveSubtopicStep
<1>3. CASE UndoLast
  <2>1. Last(undo) \in ToSet(undo)
    <3> DEFINE R == Removal
    <3>1. undo \in Seq(R) /\ undo # <<>>
      BY <1>3, InvParts DEF UndoLast
    <3> HIDE DEF R
    <3> QED
      BY <3>1 DEF Last, ToSet
  <2> QED
    BY <1>3, <2>1, UndoStep DEF UndoLast
<1>4. ASSUME NEW r \in toasts, UndoFromToast(r) \/ ToastEnds(r) PROVE OutlineInv'
  BY <1>1, <1>4, UndoStep DEF UndoFromToast, ToastEnds
<1>5. CASE Search \/ CollapseAll \/ ExpandAll \/ Left \/ Right \/ \E delta \in {1, 0 - 1} : Walk(delta)
  BY <1>1, <1>5 DEF Search, CollapseAll, ExpandAll, Left, Right, Walk, Look
<1>6. CASE UNCHANGED outlineVars
  BY <1>1, <1>6 DEF outlineVars
<1> QED
  BY <1>2, <1>3, <1>4, <1>5, <1>6, AddTopicStep DEF OutlineNext

\* The empty outline has it.
LEMMA OutlineFirst == OutlineInit => OutlineInv
<1> SUFFICES ASSUME OutlineInit PROVE OutlineInv
  OBVIOUS
<1>1. topics = <<>> /\ undo = <<>> /\ before = <<>> /\ lastRow = 0 /\ edits = 0
  BY DEF OutlineInit
<1>2. OutlineTyped
  BY <1>1 DEF OutlineTyped
<1>3. RowsKnown /\ NoRowTwice
  BY <1>1 DEF RowsKnown, NoRowTwice, RowsApart, Rows
<1>4. AllUndone(undo, topics) = before
  BY <1>1, <1>2, UndoneNone DEF OutlineTyped, Draft
<1> QED
  BY <1>2, <1>3, <1>4 DEF OutlineInv

\* The inductive invariant of OutlineEdits holds in every reachable state.
THEOREM OutlineHolds == OutlineSpec => []OutlineInv
<1> QED
  BY OutlineFirst, OutlineStep, PTL DEF OutlineSpec

\* Undoing every removal on the stack brings back the outline as it was before the first of
\* them, and no row is ever in two places, for any number of rows and any depth of the stack
\* (UndoRestores; the undo stack and the removal toasts of the curriculum builder).
THEOREM UndoRestoresAlways == OutlineSpec => []UndoRestores
<1>1. OutlineInv => UndoRestores
  BY DEF OutlineInv, UndoRestores
<1> QED
  BY <1>1, OutlineHolds, PTL

-----------------------------------------------------------------------------
(***************************************************************************)
(* ParsonsInput.  Text and blocks are two notations of one arrangement:    *)
(* blocks that are complete, written as lines and read again, are the same *)
(* blocks.  The effects of a rendering may be late by one rendering, so    *)
(* the invariant says what the queue holds of the rendering they last ran  *)
(* for: a text that differed then is already replaced in the queue.        *)
(***************************************************************************)
BlockIds == UNION {Ids(q) : q \in Questions}
BlocksOf(q) == [id : Ids(q), indent : 0 .. MaxIndent, of : {q}]
NamedOnce(seq) == \A i, j \in DOMAIN seq : seq[i].id = seq[j].id => i = j

\* A composer's blocks: each block of the question once.
Full(q, blocks) ==
    /\ blocks \in Seq(BlocksOf(q)) /\ NamedOnce(blocks)
    /\ {blocks[i].id : i \in DOMAIN blocks} = Ids(q)
LineKinds == [id : BlockIds, indent : 0 .. MaxIndent]
IsText(t) == t \in Seq(LineKinds) /\ NamedOnce(t)

\* What was rendered.
Viewed(v) ==
    /\ v = [question |-> v.question, blocks |-> v.blocks, answer |-> v.answer]
    /\ IsText(v.answer)

TextsOK ==
    /\ Viewed(shown) /\ Viewed(seen) /\ IsText(queued.answer)
    /\ queued = [blocks |-> queued.blocks, answer |-> queued.answer]

\* No question is on the page: the text alone stands for what was made.
AwayOK == ~OnPage => /\ shown = NoView(shown.answer) /\ EffectsRan
                     /\ ~hurried /\ made.question \in Questions =>
                          Lines(Parse(made.question, shown.answer)) = made.lines

\* A question is on the page.
PageOK == OnPage =>
    /\ shown.question \in Questions /\ seen.question = shown.question /\ made.question = shown.question
    /\ Full(shown.question, queued.blocks)
    /\ \E q \in Questions : Full(q, shown.blocks)
    /\ ~EffectsRan => queued.blocks = shown.blocks /\ queued.answer = shown.answer
    /\ Lines(seen.blocks) # seen.answer => queued.answer = Lines(seen.blocks)

\* What a person made is in the blocks, and in the text or about to be read into blocks.
MadeOK == ~hurried /\ OnPage =>
    /\ Lines(queued.blocks) = made.lines
    /\ \/ queued.answer = made.lines
       \/ Lines(seen.blocks) = queued.answer /\ Parse(shown.question, queued.answer) = queued.blocks

ParsonsInv == TextsOK /\ AwayOK /\ PageOK /\ MadeOK

\* A question's blocks as served are each there once, and there is one at least.
LEMMA QuestionIs ==
    ASSUME NEW q \in Questions
    PROVE  /\ Full(q, Fresh(q)) /\ Len(Fresh(q)) = Len(Served[q]) /\ Len(Fresh(q)) \in Nat \ {0}
           /\ Ids(q) \subseteq BlockIds /\ q # NoQuestion
<1> DEFINE B == BlocksOf(q)
           R == ToSet(Served[q])
           seq == Served[q]
<1>1. /\ seq \in Seq(R) /\ seq # <<>>
      /\ \A b \in R : b.indent \in 0 .. MaxIndent
      /\ \A i, j \in DOMAIN seq : seq[i].id = seq[j].id => i = j
  BY ParsonsAssumption
<1>2. \A i \in DOMAIN seq : seq[i] \in R
  BY DEF ToSet
<1>3. Ids(q) = {seq[i].id : i \in DOMAIN seq}
  BY DEF Ids, ToSet
<1> HIDE DEF seq, R
<1>4. \A i \in DOMAIN seq : [id |-> seq[i].id, indent |-> seq[i].indent, of |-> q] \in B
  BY <1>1, <1>2, <1>3 DEF BlocksOf
<1> HIDE DEF B
<1>5. Fresh(q) = [i \in DOMAIN seq |-> [id |-> seq[i].id, indent |-> seq[i].indent, of |-> q]]
  BY DEF Fresh, seq
<1>6. Fresh(q) \in Seq(B) /\ Len(Fresh(q)) = Len(seq) /\ DOMAIN Fresh(q) = DOMAIN seq
  BY <1>1, <1>4, <1>5
<1>7. Len(seq) \in Nat \ {0}
  BY <1>1
<1>8. NamedOnce(Fresh(q)) /\ {Fresh(q)[i].id : i \in DOMAIN Fresh(q)} = Ids(q)
  BY <1>1, <1>3, <1>5, <1>6 DEF NamedOnce
<1>9. Ids(q) \subseteq BlockIds /\ q # NoQuestion
  BY ParsonsAssumption DEF BlockIds
<1> QED
  BY <1>6, <1>7, <1>8, <1>9 DEF Full, B, seq

\* Each block of a composer names its question, and one of the question's blocks.
LEMMA FullIs ==
    ASSUME NEW q \in Questions, NEW blocks, Full(q, blocks)
    PROVE  /\ blocks \in Seq(BlocksOf(q)) /\ DOMAIN blocks = 1 .. Len(blocks) /\ Len(blocks) \in Nat
           /\ \A i \in DOMAIN blocks :
                /\ blocks[i] \in BlocksOf(q)
                /\ blocks[i] = [id |-> blocks[i].id, indent |-> blocks[i].indent, of |-> q]
                /\ blocks[i].id \in Ids(q) /\ blocks[i].indent \in 0 .. MaxIndent /\ blocks[i].of = q
           /\ ToSet(blocks) = {blocks[i] : i \in DOMAIN blocks}
<1> DEFINE B == BlocksOf(q)
<1>1. \A b \in B : /\ b = [id |-> b.id, indent |-> b.indent, of |-> q]
                   /\ b.id \in Ids(q) /\ b.indent \in 0 .. MaxIndent /\ b.of = q
  BY DEF BlocksOf
<1>2. blocks \in Seq(B)
  BY DEF Full
<1> HIDE DEF B
<1>3. DOMAIN blocks = 1 .. Len(blocks) /\ Len(blocks) \in Nat /\ \A i \in DOMAIN blocks : blocks[i] \in B
  BY <1>2
<1>4. \A i \in DOMAIN blocks :
                /\ blocks[i] = [id |-> blocks[i].id, indent |-> blocks[i].indent, of |-> q]
                /\ blocks[i].id \in Ids(q) /\ blocks[i].indent \in 0 .. MaxIndent /\ blocks[i].of = q
  BY <1>1, <1>3
<1> QED
  BY <1>2, <1>3, <1>4 DEF B, ToSet

\* Blocks written as text are a text, line by line.
LEMMA LinesText ==
    ASSUME NEW q \in Questions, NEW blocks, Full(q, blocks)
    PROVE  /\ IsText(Lines(blocks)) /\ Len(Lines(blocks)) = Len(blocks)
           /\ DOMAIN Lines(blocks) = DOMAIN blocks
           /\ \A i \in DOMAIN blocks : Lines(blocks)[i].id = blocks[i].id
                                       /\ Lines(blocks)[i].indent = blocks[i].indent
<1> DEFINE K == LineKinds
<1>1. \A i \in DOMAIN blocks : [id |-> blocks[i].id, indent |-> blocks[i].indent] \in K
  BY FullIs, QuestionIs DEF LineKinds
<1>2. DOMAIN blocks = 1 .. Len(blocks) /\ Len(blocks) \in Nat
  BY FullIs
<1> HIDE DEF K
<1>3. Lines(blocks) \in Seq(K) /\ DOMAIN Lines(blocks) = DOMAIN blocks
      /\ Len(Lines(blocks)) = Len(blocks)
  BY <1>1, <1>2 DEF Lines
<1>4. \A i \in DOMAIN blocks : Lines(blocks)[i].id = blocks[i].id
                               /\ Lines(blocks)[i].indent = blocks[i].indent
  BY DEF Lines
<1>5. NamedOnce(Lines(blocks))
  BY <1>3, <1>4 DEF NamedOnce, Full
<1> QED
  BY <1>3, <1>4, <1>5 DEF IsText, K

\* Blocks written as text are read as the same blocks.
LEMMA ParseLines ==
    ASSUME NEW q \in Questions, NEW blocks, Full(q, blocks)
    PROVE  Parse(q, Lines(blocks)) = blocks
<1> DEFINE text == Lines(blocks)
           named == {line \in ToSet(text) : line.id \in Ids(q)}
           U == {b \in ToSet(Fresh(q)) : \A line \in ToSet(text) : line.id # b.id}
           placed == Filtered(text, named)
           read == [i \in DOMAIN placed |->
                      [id |-> placed[i].id, indent |-> placed[i].indent, of |-> q]]
<1>1. /\ text \in Seq(LineKinds) /\ DOMAIN text = DOMAIN blocks
      /\ \A i \in DOMAIN blocks : text[i].id = blocks[i].id /\ text[i].indent = blocks[i].indent
  BY LinesText DEF IsText
<1>2. /\ \A i \in DOMAIN blocks :
           /\ blocks[i] = [id |-> blocks[i].id, indent |-> blocks[i].indent, of |-> q]
           /\ blocks[i].id \in Ids(q)
      /\ blocks \in Seq(BlocksOf(q))
  BY FullIs
<1> HIDE DEF text
<1>3. ToSet(text) \subseteq named
  BY <1>1, <1>2 DEF ToSet
<1>4. U = {}
  <2> SUFFICES ASSUME NEW b \in U PROVE FALSE
    OBVIOUS
  <2>0. /\ Full(q, Fresh(q)) /\ ToSet(Fresh(q)) = {Fresh(q)[i] : i \in DOMAIN Fresh(q)}
        /\ \A i \in DOMAIN Fresh(q) : Fresh(q)[i].id \in Ids(q)
    BY QuestionIs, FullIs
  <2>1. b.id \in Ids(q)
    BY <2>0
  <2>2. PICK i \in DOMAIN blocks : blocks[i].id = b.id
    BY <2>1 DEF Full
  <2>3. text[i] \in ToSet(text)
    BY <1>1 DEF ToSet
  <2> QED
    BY <1>1, <2>2, <2>3
<1>5. Parse(q, text) = read \o Filtered(Fresh(q), U)
  BY DEF Parse
<1> HIDE DEF named, U
<1>6. placed = text
  BY <1>1, <1>3, FilterAll
<1>7. read = blocks
  <2> HIDE DEF placed
  <2>1. \A i \in DOMAIN blocks :
          [id |-> placed[i].id, indent |-> placed[i].indent, of |-> q] = blocks[i]
    BY <1>1, <1>2, <1>6
  <2>2. blocks = [i \in DOMAIN blocks |-> blocks[i]]
    BY <1>2
  <2>3. DOMAIN placed = DOMAIN blocks
    BY <1>1, <1>6
  <2> QED
    BY <2>1, <2>2, <2>3
<1> HIDE DEF read
<1>8. Filtered(Fresh(q), U) = <<>>
  <2> DEFINE out == Filtered(Fresh(q), U)
             B == BlocksOf(q)
             fresh == Fresh(q)
  <2>1. fresh \in Seq(B)
    BY QuestionIs DEF Full
  <2> HIDE DEF B, fresh
  <2>2. Filtered(fresh, U) \in Seq(B) /\ ToSet(Filtered(fresh, U)) = ToSet(fresh) \cap U
    BY <2>1, FilterSet
  <2>3. out \in Seq(B) /\ ToSet(out) = {}
    BY <1>4, <2>2 DEF fresh
  <2> HIDE DEF out
  <2>4. \A i \in DOMAIN out : out[i] \in ToSet(out)
    BY DEF ToSet
  <2>5. out = <<>>
    <3>1. DOMAIN out = 1 .. Len(out) /\ Len(out) \in Nat /\ DOMAIN out = {}
      BY <2>3, <2>4
    <3>2. Len(out) = 0
      BY <3>1
    <3> QED
      BY <2>3, <3>2
  <2> QED
    BY <2>5 DEF out
<1>9. blocks \o <<>> = blocks
  BY <1>2
<1> QED
  BY <1>5, <1>7, <1>8, <1>9 DEF text

\* What is read of any text is every block once.
LEMMA ParseFull ==
    ASSUME NEW q \in Questions, NEW text, IsText(text)
    PROVE  Full(q, Parse(q, text))
<1> DEFINE K == LineKinds
           B == BlocksOf(q)
           fresh == Fresh(q)
           named == {line \in ToSet(text) : line.id \in Ids(q)}
           U == {b \in ToSet(fresh) : \A line \in ToSet(text) : line.id # b.id}
           placed == Filtered(text, named)
           read == [i \in DOMAIN placed |->
                      [id |-> placed[i].id, indent |-> placed[i].indent, of |-> q]]
           rest == Filtered(fresh, U)
           all == read \o rest
<1>1. Parse(q, text) = all
  BY DEF Parse
<1>2. /\ fresh \in Seq(B) /\ NamedOnce(fresh) /\ {fresh[i].id : i \in DOMAIN fresh} = Ids(q)
  BY QuestionIs DEF Full
<1>3. text \in Seq(K) /\ NamedOnce(text)
  BY DEF IsText
<1>4. /\ \A b \in B : b.id \in Ids(q)
      /\ \A l \in K : l.id \in Ids(q) => [id |-> l.id, indent |-> l.indent, of |-> q] \in B
  BY DEF LineKinds, BlocksOf
<1>5. \A l \in named : l.id \in Ids(q)
  OBVIOUS
<1>6. \A b \in U : \A i \in DOMAIN text : text[i].id # b.id
  BY DEF ToSet
<1>7. \A i \in DOMAIN text : text[i].id \in Ids(q) => text[i] \in named
  BY DEF ToSet
<1>8. \A i \in DOMAIN fresh :
         fresh[i] \in U \/ \E j \in DOMAIN text : text[j].id = fresh[i].id
  BY DEF ToSet
<1> HIDE DEF K, B, fresh, named, U
<1>9. placed \in Seq(K) /\ \E m : PlacesOf(m, placed, text, named)
  BY <1>3, FilterPlaces
<1>10. rest \in Seq(B) /\ \E m : PlacesOf(m, rest, fresh, U)
  BY <1>2, FilterPlaces
<1> HIDE DEF placed, rest
<1>11. PICK m : PlacesOf(m, placed, text, named)
  BY <1>9
<1>12. PICK o : PlacesOf(o, rest, fresh, U)
  BY <1>10
<1> DEFINE n == Len(placed)
           k == Len(rest)
<1>13. n \in Nat /\ k \in Nat /\ DOMAIN placed = 1 .. n /\ DOMAIN rest = 1 .. k
       /\ DOMAIN text = 1 .. Len(text) /\ DOMAIN fresh = 1 .. Len(fresh)
  BY <1>2, <1>3, <1>9, <1>10
<1>14. \A i \in 1 .. n : /\ placed[i] = text[m[i]] /\ m[i] \in DOMAIN text /\ placed[i] \in named
                         /\ placed[i] \in K
  <2> SUFFICES ASSUME NEW i \in 1 .. n
               PROVE  /\ placed[i] = text[m[i]] /\ m[i] \in DOMAIN text /\ placed[i] \in named
                      /\ placed[i] \in K
    OBVIOUS
  <2>1. m \in [1 .. n -> 1 .. Len(text)] /\ DOMAIN m = 1 .. n
    BY <1>11 DEF PlacesOf
  <2>2. placed[i] = text[m[i]] /\ text[m[i]] \in named
    BY <1>11, <2>1 DEF PlacesOf
  <2>3. placed[i] \in K
    BY <1>9, <1>13
  <2> QED
    BY <1>13, <2>1, <2>2, <2>3
<1>15. \A i, j \in 1 .. n : placed[i].id = placed[j].id => i = j
  <2> SUFFICES ASSUME NEW i \in 1 .. n, NEW j \in 1 .. n, placed[i].id = placed[j].id PROVE i = j
    OBVIOUS
  <2>1. m[i] = m[j]
    BY <1>3, <1>14 DEF NamedOnce
  <2> QED
    BY <1>11, <1>13, <2>1 DEF PlacesOf
<1>16. \A i \in 1 .. k : rest[i] = fresh[o[i]] /\ o[i] \in DOMAIN fresh /\ rest[i] \in U
  BY <1>12, <1>13 DEF PlacesOf
<1>17. \A i, j \in 1 .. k : rest[i].id = rest[j].id => i = j
  <2> SUFFICES ASSUME NEW i \in 1 .. k, NEW j \in 1 .. k, rest[i].id = rest[j].id PROVE i = j
    OBVIOUS
  <2>1. o[i] = o[j]
    BY <1>2, <1>16 DEF NamedOnce
  <2> QED
    BY <1>12, <1>13, <2>1 DEF PlacesOf
<1>18. \A i \in 1 .. n, j \in 1 .. k : placed[i].id # rest[j].id
  BY <1>6, <1>14, <1>16
<1>19. \A x \in Ids(q) : (\E i \in 1 .. n : placed[i].id = x) \/ (\E i \in 1 .. k : rest[i].id = x)
  <2> SUFFICES ASSUME NEW x \in Ids(q)
               PROVE  (\E i \in 1 .. n : placed[i].id = x) \/ (\E i \in 1 .. k : rest[i].id = x)
    OBVIOUS
  <2>1. PICK f \in DOMAIN fresh : fresh[f].id = x
    BY <1>2
  <2>2. CASE fresh[f] \in U
    <3>1. \E i \in DOMAIN o : o[i] = f
      BY <1>12, <1>13, <2>2 DEF PlacesOf
    <3>2. DOMAIN o = 1 .. k
      BY <1>12, <1>13 DEF PlacesOf
    <3> QED
      BY <1>16, <2>1, <3>1, <3>2
  <2>3. CASE fresh[f] \notin U
    <3>1. PICK j \in DOMAIN text : text[j].id = x
      BY <1>8, <2>1, <2>3
    <3>2. text[j] \in named
      BY <1>7, <3>1
    <3>3. \E i \in DOMAIN m : m[i] = j
      BY <1>11, <1>13, <3>1, <3>2 DEF PlacesOf
    <3>4. DOMAIN m = 1 .. n
      BY <1>11, <1>13 DEF PlacesOf
    <3> QED
      BY <1>14, <3>1, <3>3, <3>4
  <2> QED
    BY <2>2, <2>3
<1>20. \A i \in 1 .. n : [id |-> placed[i].id, indent |-> placed[i].indent, of |-> q] \in B
  BY <1>4, <1>5, <1>14
<1>21. read \in Seq(B) /\ Len(read) = n
  BY <1>13, <1>20
<1>22. \A i \in 1 .. n : read[i].id = placed[i].id
  BY <1>13
<1> HIDE DEF read, n, k
<1>23. /\ all \in Seq(B) /\ Len(all) = n + k
       /\ \A i \in 1 .. n : all[i] = read[i]
       /\ \A i \in 1 .. k : all[n + i] = rest[i]
  <2>1. rest \in Seq(B) /\ Len(rest) = k /\ n \in Nat /\ k \in Nat
    BY <1>10, <1>13 DEF k
  <2>2. all \in Seq(B) /\ Len(all) = n + k
    BY <1>21, <2>1
  <2>3. \A i \in 1 .. n : all[i] = read[i]
    BY <1>21, <2>1
  <2>4. \A i \in 1 .. k : all[n + i] = rest[i]
    BY <1>21, <2>1
  <2> QED
    BY <2>2, <2>3, <2>4
<1> HIDE DEF all
<1>24. DOMAIN all = 1 .. (n + k)
  BY <1>23
<1>25. \A i \in 1 .. (n + k) : i \in 1 .. n \/ (i - n \in 1 .. k /\ n + (i - n) = i)
  BY <1>13
<1>26. \A i \in 1 .. n : i \in 1 .. (n + k) /\ all[i].id = placed[i].id
  BY <1>13, <1>22, <1>23
<1>27. \A i \in 1 .. k : n + i \in 1 .. (n + k) /\ all[n + i].id = rest[i].id
  BY <1>13, <1>23
<1>28. NamedOnce(all)
  <2> SUFFICES ASSUME NEW i \in 1 .. (n + k), NEW j \in 1 .. (n + k), all[i].id = all[j].id
               PROVE  i = j
    BY <1>24 DEF NamedOnce
  <2>1. CASE i \in 1 .. n /\ j \in 1 .. n
    BY <1>15, <1>26, <2>1
  <2>2. CASE i \in 1 .. n /\ j \notin 1 .. n
    BY <1>18, <1>25, <1>26, <1>27, <2>2
  <2>3. CASE i \notin 1 .. n /\ j \in 1 .. n
    BY <1>18, <1>25, <1>26, <1>27, <2>3
  <2>4. CASE i \notin 1 .. n /\ j \notin 1 .. n
    <3>1. i - n \in 1 .. k /\ j - n \in 1 .. k /\ n + (i - n) = i /\ n + (j - n) = j
      BY <1>25, <2>4
    <3>2. rest[i - n].id = rest[j - n].id
      BY <1>27, <3>1
    <3>3. i - n = j - n
      BY <1>17, <3>1, <3>2
    <3> QED
      BY <3>1, <3>3
  <2> QED
    BY <2>1, <2>2, <2>3, <2>4
<1>29. {all[i].id : i \in DOMAIN all} = Ids(q)
  <2>1. \A i \in DOMAIN all : all[i] \in B
    BY <1>23
  <2>2. \A x \in Ids(q) : \E i \in DOMAIN all : all[i].id = x
    BY <1>19, <1>24, <1>26, <1>27
  <2> QED
    BY <1>4, <2>1, <2>2
<1> QED
  BY <1>1, <1>23, <1>28, <1>29 DEF Full, B

\* The library takes an element out as Dropped says.
LEMMA RemoveAtIs ==
    ASSUME NEW R, NEW seq \in Seq(R), NEW p \in DOMAIN seq
    PROVE  RemoveAt(seq, p) = Dropped(seq, p)
<1> DEFINE n == Len(seq)
           a == SubSeq(seq, 1, p - 1)
           b == SubSeq(seq, p + 1, n)
           all == a \o b
<1>1. n \in Nat /\ p \in 1 .. n
  OBVIOUS
<1>2. RemoveAt(seq, p) = all
  BY DEF RemoveAt
<1>3. a \in Seq(R) /\ Len(a) = p - 1 /\ \A i \in 1 .. (p - 1) : a[i] = seq[i]
  BY <1>1
<1>4. b \in Seq(R) /\ Len(b) = n - p /\ \A i \in 1 .. (n - p) : b[i] = seq[p + i]
  BY <1>1
<1> HIDE DEF a, b, n
<1>0. n \in Nat /\ p \in Nat /\ 1 <= p /\ p <= n
  BY <1>1
<1>5. all \in Seq(R) /\ Len(all) = n - 1
  <2>0. a \in Seq(R) /\ b \in Seq(R)
    BY <1>3, <1>4
  <2>1. all \in Seq(R) /\ Len(all) = Len(a) + Len(b)
    BY <2>0
  <2> HIDE DEF all
  <2> QED
    BY <1>0, <1>3, <1>4, <2>1
<1>6. ASSUME NEW i \in 1 .. (n - 1) PROVE all[i] = IF i < p THEN seq[i] ELSE seq[i + 1]
  <2>1. CASE i < p
    BY <1>1, <1>3, <1>4, <2>1
  <2>2. CASE ~(i < p)
    <3> DEFINE j == i - (p - 1)
    <3>0. i \in Nat /\ 1 <= i /\ i <= n - 1
      BY <1>0
    <3>1. j \in 1 .. (n - p) /\ p + j = i + 1 /\ i = (p - 1) + j
      BY <1>0, <2>2, <3>0
    <3> HIDE DEF j
    <3>2. all[(p - 1) + j] = b[j]
      <4>1. a \in Seq(R) /\ b \in Seq(R) /\ j \in 1 .. Len(b) /\ Len(a) = p - 1
        BY <1>3, <1>4, <3>1
      <4>2. (a \o b)[Len(a) + j] = b[j]
        BY <4>1
      <4> QED
        BY <4>1, <4>2
    <3>3. all[i] = seq[i + 1]
      BY <1>4, <3>1, <3>2
    <3> QED
      BY <2>2, <3>3
  <2> QED
    BY <2>1, <2>2
<1> HIDE DEF all
<1>7. all = [i \in 1 .. (n - 1) |-> all[i]]
  BY <1>5
<1>8. all = Dropped(seq, p)
  BY <1>6, <1>7 DEF Dropped, n
<1> QED
  BY <1>2, <1>8

\* A sequence with the elements of another, each in one place.
Permuted(e, d) ==
    \E m \in [DOMAIN e -> DOMAIN d] :
        /\ \A i, j \in DOMAIN e : m[i] = m[j] => i = j
        /\ \A i \in DOMAIN e : e[i] = d[m[i]]
        /\ \A j \in DOMAIN d : \E i \in DOMAIN e : m[i] = j

\* Dragged to another place a sequence holds the same elements, each once.
LEMMA Dragged ==
    ASSUME NEW R, NEW seq \in Seq(R), NEW from \in DOMAIN seq, NEW to \in DOMAIN seq,
           NEW e, e = InsertAt(RemoveAt(seq, from), to, seq[from])
    PROVE  /\ e \in Seq(R)
           /\ Permuted(e, seq)
<1> DEFINE n == Len(seq)
           d == Dropped(seq, from)
<1>1. n \in Nat /\ from \in 1 .. n /\ to \in 1 .. n /\ seq[from] \in R /\ DOMAIN seq = 1 .. n
  OBVIOUS
<1>2. /\ d \in Seq(R) /\ Len(d) = n - 1
      /\ \A i \in 1 .. (n - 1) : d[i] = IF i < from THEN seq[i] ELSE seq[i + 1]
  BY DroppedIs
<1>3. e = InsertAt(d, to, seq[from])
  BY RemoveAtIs
<1> HIDE DEF d, n
<1>4. to \in 1 .. (Len(d) + 1) /\ Len(d) + 1 = n
  BY <1>1, <1>2
<1> DEFINE x == seq[from]
<1>5. x \in R
  BY <1>1
<1> HIDE DEF x
<1>6. InsertAt(d, to, x) = Inserted(d, to, x) /\ Inserted(d, to, x) \in Seq(R)
  BY <1>2, <1>4, <1>5, InsertAtIs
<1>7. /\ e \in Seq(R) /\ e = Inserted(d, to, x)
  BY <1>3, <1>6 DEF x
<1>8. e = [i \in 1 .. n |-> IF i < to THEN d[i] ELSE IF i = to THEN x ELSE d[i - 1]]
  BY <1>4, <1>7 DEF Inserted
<1>9. DOMAIN e = 1 .. n
  BY <1>8
<1> DEFINE Back(i) == IF i < to THEN i ELSE i - 1
           m == [i \in 1 .. n |-> IF i = to THEN from
                                  ELSE IF Back(i) < from THEN Back(i) ELSE Back(i) + 1]
<1>10. m \in [DOMAIN e -> DOMAIN seq]
  BY <1>1, <1>9
<1>11. \A i, j \in DOMAIN e : m[i] = m[j] => i = j
  BY <1>1, <1>9
<1>12. \A i \in DOMAIN e : e[i] = seq[m[i]]
  <2> SUFFICES ASSUME NEW i \in 1 .. n PROVE e[i] = seq[m[i]]
    BY <1>9
  <2>1. CASE i = to
    <3>1. e[i] = x
      BY <1>1, <1>8, <2>1
    <3> QED
      BY <2>1, <3>1 DEF x
  <2>2. CASE i < to
    <3>1. e[i] = d[i] /\ i \in 1 .. (n - 1) /\ Back(i) = i
      BY <1>1, <1>8, <2>2
    <3> QED
      BY <1>1, <1>2, <2>2, <3>1
  <2>3. CASE i > to
    <3>1. e[i] = d[i - 1] /\ i - 1 \in 1 .. (n - 1) /\ Back(i) = i - 1 /\ i # to
      BY <1>1, <1>8, <2>3
    <3>2. d[i - 1] = IF i - 1 < from THEN seq[i - 1] ELSE seq[(i - 1) + 1]
      BY <1>2, <3>1
    <3>3. m[i] = IF i - 1 < from THEN i - 1 ELSE (i - 1) + 1
      BY <3>1
    <3> HIDE DEF m, Back
    <3> QED
      BY <3>1, <3>2, <3>3
  <2> QED
    BY <1>1, <2>1, <2>2, <2>3
<1>13. \A j \in DOMAIN seq : \E i \in DOMAIN e : m[i] = j
  <2> SUFFICES ASSUME NEW j \in 1 .. n PROVE \E i \in 1 .. n : m[i] = j
    BY <1>1, <1>9
  <2>1. CASE j = from
    BY <1>1, <2>1
  <2>2. CASE j # from
    <3> DEFINE b == IF j < from THEN j ELSE j - 1
               i == IF b < to THEN b ELSE b + 1
    <3>1. i \in 1 .. n /\ i # to /\ Back(i) = b
      BY <1>1, <2>2
    <3>2. m[i] = j
      BY <1>1, <2>2, <3>1
    <3> HIDE DEF i
    <3> QED
      BY <3>1, <3>2
  <2> QED
    BY <2>1, <2>2
<1> HIDE DEF m
<1> QED
  BY <1>7, <1>10, <1>11, <1>12, <1>13 DEF Permuted

\* A person's edit leaves every block there once.
LEMMA DraggedFull ==
    ASSUME NEW q \in Questions, NEW blocks, Full(q, blocks),
           NEW from \in DOMAIN blocks, NEW to \in DOMAIN blocks
    PROVE  Full(q, InsertAt(RemoveAt(blocks, from), to, blocks[from]))
<1> DEFINE B == BlocksOf(q)
           e == InsertAt(RemoveAt(blocks, from), to, blocks[from])
<1>1. blocks \in Seq(B)
  BY DEF Full
<1> HIDE DEF B, e
<1>2. e \in Seq(B) /\ Permuted(e, blocks)
  BY <1>1, Dragged DEF e
<1>3. PICK m \in [DOMAIN e -> DOMAIN blocks] :
           /\ \A i, j \in DOMAIN e : m[i] = m[j] => i = j
           /\ \A i \in DOMAIN e : e[i] = blocks[m[i]]
           /\ \A j \in DOMAIN blocks : \E i \in DOMAIN e : m[i] = j
  BY <1>2 DEF Permuted
<1>4. NamedOnce(blocks) /\ {blocks[i].id : i \in DOMAIN blocks} = Ids(q)
  BY DEF Full
<1>5. NamedOnce(e)
  BY <1>3, <1>4 DEF NamedOnce
<1>6. {e[i].id : i \in DOMAIN e} = Ids(q)
  BY <1>3, <1>4
<1> QED
  BY <1>2, <1>5, <1>6 DEF Full, B, e

Indented(blocks, id, level) ==
    [i \in DOMAIN blocks |->
       IF blocks[i].id = id THEN [blocks[i] EXCEPT !.indent = level] ELSE blocks[i]]

\* Indenting one block keeps every block there once.
LEMMA IndentedFull ==
    ASSUME NEW q \in Questions, NEW blocks, Full(q, blocks), NEW id, NEW level \in 0 .. MaxIndent
    PROVE  Full(q, Indented(blocks, id, level))
<1> DEFINE B == BlocksOf(q)
           New(b) == IF b.id = id THEN [b EXCEPT !.indent = level] ELSE b
           e == [i \in DOMAIN blocks |-> New(blocks[i])]
<1>1. \A b \in B : New(b) \in B /\ New(b).id = b.id
  BY DEF BlocksOf
<1>2. /\ blocks \in Seq(B) /\ NamedOnce(blocks)
      /\ {blocks[i].id : i \in DOMAIN blocks} = Ids(q)
  BY DEF Full
<1> HIDE DEF B, New
<1>3. \A i \in DOMAIN blocks : blocks[i] \in B
  BY <1>2
<1>4. e \in Seq(B) /\ DOMAIN e = DOMAIN blocks
  BY <1>1, <1>2, <1>3
<1>5. \A i \in DOMAIN e : e[i].id = blocks[i].id
  BY <1>1, <1>3
<1> HIDE DEF e
<1>6. NamedOnce(e) /\ {e[i].id : i \in DOMAIN e} = Ids(q)
  BY <1>2, <1>4, <1>5 DEF NamedOnce
<1>7. Full(q, e)
  BY <1>4, <1>6 DEF Full, B
<1> QED
  BY <1>7 DEF e, New, Indented

\* A composer that holds every block once holds as many as were served.
LEMMA FullLength ==
    ASSUME NEW q \in Questions, NEW blocks, Full(q, blocks)
    PROVE  Len(blocks) = Len(Served[q])
<1>1. ASSUME NEW bs, Full(q, bs)
      PROVE  Cardinality(Ids(q)) = Len(bs)
  <2> DEFINE f == [i \in 1 .. Len(bs) |-> bs[i].id]
  <2>1. /\ DOMAIN bs = 1 .. Len(bs) /\ Len(bs) \in Nat /\ NamedOnce(bs)
        /\ {bs[i].id : i \in DOMAIN bs} = Ids(q)
    BY <1>1, FullIs DEF Full
  <2>2. f \in [1 .. Len(bs) -> Ids(q)] /\ \A x \in Ids(q) : \E i \in 1 .. Len(bs) : f[i] = x
    BY <2>1
  <2>3. \A i, j \in 1 .. Len(bs) : f[i] = f[j] => i = j
    BY <2>1 DEF NamedOnce
  <2> HIDE DEF f
  <2>4. ExistsBijection(1 .. Len(bs), Ids(q))
    BY <2>2, <2>3 DEF ExistsBijection, Bijection, Injection, Surjection, IsInjective
  <2> QED
    BY <2>1, <2>4, FS_CountingElements
<1>2. Full(q, Fresh(q)) /\ Len(Fresh(q)) = Len(Served[q])
  BY QuestionIs
<1> QED
  BY <1>1, <1>2

\* What the two effects leave in the queue.
LEMMA EffectsAre ==
    ASSUME NEW view, NEW earlier, NEW queue, NEW after, after = Effects(view, earlier, queue)
    PROVE  /\ after = [blocks |-> after.blocks, answer |-> after.answer]
           /\ \/ after.blocks = Parse(view.question, view.answer)
              \/ /\ after.blocks = queue.blocks
                 /\ view.question = earlier.question /\ view.answer = earlier.answer
           /\ \/ after.answer = Lines(view.blocks)
              \/ /\ after.answer = queue.answer
                 /\ Lines(view.blocks) # view.answer =>
                       view.answer = earlier.answer /\ Lines(view.blocks) = Lines(earlier.blocks)
BY DEF Effects

\* The text is not read when neither it nor the question changed.
LEMMA Reads ==
    ASSUME NEW view, NEW earlier, NEW queue
    PROVE  view.question = earlier.question /\ view.answer = earlier.answer =>
              Effects(view, earlier, queue).blocks = queue.blocks
BY DEF Effects

\* The text becomes the arrangement, or was in step, or nothing had changed.
LEMMA Writes ==
    ASSUME NEW view, NEW earlier, NEW queue
    PROVE  \/ Effects(view, earlier, queue).answer = Lines(view.blocks)
           \/ /\ Effects(view, earlier, queue).answer = queue.answer
              /\ \/ Lines(view.blocks) = view.answer
                 \/ view.answer = earlier.answer /\ Lines(view.blocks) = Lines(earlier.blocks)
BY DEF Effects

\* What the invariant says while a question is on the page.
LEMMA PageIs ==
    ASSUME ParsonsInv, OnPage
    PROVE  /\ shown.question \in Questions /\ seen.question = shown.question
           /\ made.question = shown.question /\ Full(shown.question, queued.blocks)
           /\ \E q \in Questions : Full(q, shown.blocks)
           /\ ~EffectsRan => queued.blocks = shown.blocks /\ queued.answer = shown.answer
           /\ Lines(seen.blocks) # seen.answer => queued.answer = Lines(seen.blocks)
           /\ IsText(shown.answer) /\ IsText(queued.answer) /\ IsText(Lines(shown.blocks))
BY LinesText DEF ParsonsInv, PageOK, TextsOK, Viewed

\* After the effects that were to run the text is the arrangement, or was in step.
LEMMA UpdatedIs ==
    ASSUME ParsonsInv, OnPage, NEW queue, Full(shown.question, queue.blocks),
           queue.answer = queued.answer, NEW U, U = Updated(queue)
    PROVE  /\ Full(shown.question, U.blocks) /\ IsText(U.answer)
           /\ Lines(shown.blocks) # shown.answer => U.answer = Lines(shown.blocks)
<1>1. CASE EffectsRan
  <2>1. U = queue /\ seen = shown
    BY <1>1 DEF Updated, EffectsRan
  <2> QED
    BY <2>1, PageIs
<1>2. CASE ~EffectsRan
  <2>1. U = Effects(shown, seen, queue)
    BY <1>2 DEF Updated
  <2>2. Full(shown.question, U.blocks)
    BY <2>1, EffectsAre, ParseFull, PageIs
  <2>3. \/ U.answer = Lines(shown.blocks)
        \/ /\ U.answer = queued.answer
           /\ \/ Lines(shown.blocks) = shown.answer
              \/ shown.answer = seen.answer /\ Lines(shown.blocks) = Lines(seen.blocks)
    BY <2>1, Writes
  <2>4. IsText(U.answer)
    BY <2>3, PageIs
  <2> QED
    BY <2>2, <2>3, <2>4, PageIs
<1> QED
  BY <1>1, <1>2

\* A rendering and its effects: the composer holds every block of its question once, and a
\* text that differs from the arrangement is about to be replaced.
LEMMA RenderIs ==
    ASSUME ParsonsInv, OnPage, NEW q \in Questions, NEW queue, Full(shown.question, queue.blocks),
           queue.answer = queued.answer, Render(q, queue), made'.question = q
    PROVE  TextsOK' /\ AwayOK' /\ PageOK' /\ OnPage' /\ shown'.question = q
<1> DEFINE U == Updated(queue)
           view == [question |-> q, blocks |-> U.blocks, answer |-> U.answer]
<1>1. shown' = view /\ seen' = view /\ queued' = Effects(view, shown, U)
  BY DEF Render
<1>2. /\ Full(shown.question, U.blocks) /\ IsText(U.answer)
      /\ Lines(shown.blocks) # shown.answer => U.answer = Lines(shown.blocks)
  BY UpdatedIs
<1> HIDE DEF U
<1>3. view.question = q /\ view.blocks = U.blocks /\ view.answer = U.answer
      /\ view = [question |-> view.question, blocks |-> view.blocks, answer |-> view.answer]
  OBVIOUS
<1> HIDE DEF view
<1>4. Full(q, queued'.blocks)
  <2>1. \/ queued'.blocks = Parse(q, U.answer)
        \/ queued'.blocks = U.blocks /\ q = shown.question
    BY <1>1, <1>3, EffectsAre
  <2> QED
    BY <1>2, <2>1, ParseFull
<1>5. \/ queued'.answer = Lines(U.blocks)
      \/ /\ queued'.answer = U.answer
         /\ \/ Lines(U.blocks) = U.answer
            \/ U.answer = shown.answer /\ Lines(U.blocks) = Lines(shown.blocks)
  BY <1>1, <1>3, Writes
<1>6. IsText(queued'.answer)
  BY <1>2, <1>5, PageIs, LinesText
<1>7. Lines(U.blocks) # U.answer => queued'.answer = Lines(U.blocks)
  BY <1>2, <1>5
<1>8. queued' = [blocks |-> queued'.blocks, answer |-> queued'.answer]
  <2> DEFINE after == Effects(view, shown, U)
  <2>1. after = [blocks |-> after.blocks, answer |-> after.answer]
    BY EffectsAre
  <2> HIDE DEF after
  <2>2. queued' = after
    BY <1>1 DEF after
  <2> QED
    BY <2>1, <2>2
<1>9. TextsOK'
  BY <1>1, <1>2, <1>3, <1>6, <1>8 DEF TextsOK, Viewed
<1>10. OnPage' /\ shown'.question = q
  BY <1>1, <1>3, QuestionIs DEF OnPage
<1>11. PageOK'
  <2>1. shown'.question \in Questions /\ seen'.question = q /\ EffectsRan'
    BY <1>1, <1>10 DEF EffectsRan
  <2>2. \E p \in Questions : Full(p, shown'.blocks)
    BY <1>1, <1>2, <1>3, PageIs
  <2>3. Lines(seen'.blocks) # seen'.answer => queued'.answer = Lines(seen'.blocks)
    BY <1>1, <1>3, <1>7
  <2> QED
    BY <1>4, <1>10, <2>1, <2>2, <2>3 DEF PageOK
<1>12. AwayOK'
  BY <1>10 DEF AwayOK
<1> QED
  BY <1>9, <1>10, <1>11, <1>12

\* Nothing came in between: text and blocks stand for what was made.
LEMMA HeldMeanwhile ==
    ASSUME ParsonsInv, OnPage, ~hurried, NEW U, U = Updated(queued)
    PROVE  /\ Lines(U.blocks) = made.lines /\ Parse(shown.question, U.answer) = U.blocks
           /\ U.answer = made.lines \/ (~EffectsRan => Lines(shown.blocks) = U.answer)
<1> DEFINE q == shown.question
<1>1. q \in Questions /\ Full(q, queued.blocks)
  BY PageIs
<1>2. /\ Lines(queued.blocks) = made.lines
      /\ \/ queued.answer = made.lines
         \/ Lines(seen.blocks) = queued.answer /\ Parse(q, queued.answer) = queued.blocks
  BY DEF ParsonsInv, MadeOK
<1> HIDE DEF q
<1>3. Parse(q, Lines(queued.blocks)) = queued.blocks
  BY <1>1, ParseLines
<1>4. Parse(q, queued.answer) = queued.blocks
  BY <1>2, <1>3
<1>5. CASE EffectsRan
  <2>1. U = queued
    BY <1>5 DEF Updated
  <2> QED
    BY <1>2, <1>4, <1>5, <2>1 DEF q
<1>6. CASE ~EffectsRan
  <2>1. U = Effects(shown, seen, queued)
    BY <1>6 DEF Updated
  <2>2. queued.blocks = shown.blocks /\ queued.answer = shown.answer
    BY <1>6, PageIs
  <2>3. U.blocks = queued.blocks
    BY <1>4, <2>1, <2>2, EffectsAre DEF q
  <2>4. \/ U.answer = Lines(shown.blocks)
        \/ /\ U.answer = queued.answer
           /\ \/ Lines(shown.blocks) = shown.answer
              \/ shown.answer = seen.answer /\ Lines(shown.blocks) = Lines(seen.blocks)
    BY <2>1, Writes
  <2>5. Parse(q, U.answer) = U.blocks
    BY <1>3, <1>4, <2>2, <2>3, <2>4
  <2>6. U.answer = made.lines \/ Lines(shown.blocks) = U.answer
    BY <1>2, <2>2, <2>4
  <2> QED
    BY <1>2, <2>3, <2>5, <2>6 DEF q
<1> QED
  BY <1>5, <1>6

\* A person's edit, of blocks that stay complete.
LEMMA EditStep ==
    ASSUME ParsonsInv, NEW blocks, OnPage => Full(shown.question, blocks), Edit(blocks)
    PROVE  ParsonsInv'
<1> DEFINE q == shown.question
           queue == [queued EXCEPT !.blocks = blocks]
<1>1. /\ OnPage /\ Render(q, queue) /\ made' = [question |-> q, lines |-> Lines(blocks)]
      /\ hurried' = (hurried \/ ~Settled)
  BY DEF Edit
<1>2. Full(q, blocks) /\ q \in Questions
  BY <1>1, PageIs
<1>3. queue.blocks = blocks /\ queue.answer = queued.answer
  BY DEF ParsonsInv, TextsOK
<1>4. made'.question = q /\ made'.lines = Lines(blocks)
  BY <1>1
<1> HIDE DEF q, queue
<1>5. TextsOK' /\ AwayOK' /\ PageOK' /\ OnPage' /\ shown'.question = q
  BY <1>1, <1>2, <1>3, <1>4, RenderIs DEF q
<1>6. MadeOK'
  <2> SUFFICES ASSUME ~hurried'
               PROVE  /\ Lines(queued'.blocks) = made'.lines
                      /\ queued'.answer = made'.lines
    BY DEF MadeOK
  <2>1. /\ seen = shown /\ queued.blocks = shown.blocks /\ queued.answer = shown.answer
    BY <1>1 DEF Settled, EffectsRan
  <2> DEFINE view == [question |-> q, blocks |-> blocks, answer |-> shown.answer]
  <2>2. queued' = Effects(view, shown, queue)
    BY <1>1, <1>3, <2>1 DEF Render, Updated, EffectsRan
  <2>3. view.question = shown.question /\ view.answer = shown.answer /\ view.blocks = blocks
    BY DEF q
  <2> HIDE DEF view
  <2>4. queued'.blocks = blocks
    BY <1>3, <2>2, <2>3, Reads
  <2>5. Lines(shown.blocks) = shown.answer
    BY <1>1, <2>1, PageIs
  <2>6. queued'.answer = Lines(blocks)
    BY <1>3, <2>1, <2>2, <2>3, <2>5, Writes
  <2> QED
    BY <1>4, <2>4, <2>6
<1> QED
  BY <1>5, <1>6 DEF ParsonsInv

\* Another question reads what it can from the text of the one before.
LEMMA ReplaceStep ==
    ASSUME ParsonsInv, NEW q \in Questions, ReplaceQuestion(q)
    PROVE  ParsonsInv'
<1>1. /\ OnPage /\ Render(q, queued) /\ q # shown.question
      /\ made' = [question |-> q, lines |-> Lines(Parse(q, shown.answer))]
      /\ hurried' = (hurried \/ ~Settled)
  BY DEF ReplaceQuestion
<1>2. Full(shown.question, queued.blocks) /\ shown.question \in Questions
  BY <1>1, PageIs
<1>3. made'.question = q /\ made'.lines = Lines(Parse(q, shown.answer))
  BY <1>1
<1>4. TextsOK' /\ AwayOK' /\ PageOK' /\ OnPage' /\ shown'.question = q
  BY <1>1, <1>2, <1>3, RenderIs
<1>5. MadeOK'
  <2> SUFFICES ASSUME ~hurried'
               PROVE  /\ Lines(queued'.blocks) = made'.lines
                      /\ Lines(seen'.blocks) = queued'.answer
                      /\ Parse(shown'.question, queued'.answer) = queued'.blocks
    BY DEF MadeOK
  <2>1. /\ seen = shown /\ queued.blocks = shown.blocks /\ queued.answer = shown.answer
    BY <1>1 DEF Settled, EffectsRan
  <2> DEFINE view == [question |-> q, blocks |-> shown.blocks, answer |-> shown.answer]
  <2>2. queued' = Effects(view, shown, queued) /\ seen' = view
    BY <1>1, <2>1 DEF Render, Updated, EffectsRan
  <2>3. view.question = q /\ view.answer = shown.answer /\ view.blocks = shown.blocks
    OBVIOUS
  <2> HIDE DEF view
  <2>4. queued'.blocks = Parse(q, shown.answer)
    BY <1>1, <2>2, <2>3, EffectsAre
  <2>5. Lines(shown.blocks) = shown.answer
    BY <1>1, <2>1, PageIs
  <2>6. queued'.answer = shown.answer
    BY <2>1, <2>2, <2>3, <2>5, Writes
  <2> QED
    BY <1>3, <1>4, <2>2, <2>3, <2>4, <2>5, <2>6
<1> QED
  BY <1>4, <1>5 DEF ParsonsInv

\* A question that comes back reads the text that was kept, and so finds what was made.
LEMMA ShowStep ==
    ASSUME ParsonsInv, NEW q \in Questions, Show(q)
    PROVE  ParsonsInv'
<1> DEFINE blocks == Parse(q, shown.answer)
           queue == [blocks |-> blocks, answer |-> shown.answer]
           view == [question |-> q, blocks |-> blocks, answer |-> shown.answer]
<1>1. /\ ~OnPage /\ Render(q, queue) /\ hurried' = hurried
      /\ made' = IF made.question = q THEN made ELSE [question |-> q, lines |-> Lines(blocks)]
  BY DEF Show
<1>2. /\ shown = NoView(shown.answer) /\ EffectsRan /\ IsText(shown.answer)
      /\ ~hurried /\ made.question \in Questions =>
            Lines(Parse(made.question, shown.answer)) = made.lines
  BY <1>1 DEF ParsonsInv, AwayOK, TextsOK, Viewed
<1>3. Full(q, blocks)
  BY <1>2, ParseFull
<1>4. shown.blocks = <<>> /\ shown.question = NoQuestion
  BY <1>2 DEF NoView
<1>5. q # NoQuestion
  BY QuestionIs
<1>6. Lines(blocks) # Lines(shown.blocks)
  <2>1. Len(Lines(blocks)) = Len(Served[q]) /\ Len(Served[q]) \in Nat \ {0}
    BY <1>3, FullLength, LinesText, QuestionIs
  <2>2. Lines(shown.blocks) = <<>>
    BY <1>4 DEF Lines
  <2>3. Len(<<>>) = 0
    OBVIOUS
  <2> QED
    BY <2>1, <2>2, <2>3
<1>7. made'.question = q /\ (~hurried => made'.lines = Lines(blocks))
  BY <1>1, <1>2
<1> HIDE DEF blocks
<1>8. shown' = view /\ seen' = view /\ queued' = Effects(view, shown, queue)
  BY <1>1, <1>2 DEF Render, Updated
<1>9. /\ view.question = q /\ view.blocks = blocks /\ view.answer = shown.answer
      /\ view = [question |-> view.question, blocks |-> view.blocks, answer |-> view.answer]
      /\ queue.blocks = blocks /\ queue.answer = shown.answer
  OBVIOUS
<1> HIDE DEF view, queue
<1>10. queued'.blocks = blocks
  BY <1>8, <1>9, EffectsAre DEF blocks
<1>11. queued'.answer = Lines(blocks)
  BY <1>6, <1>8, <1>9, Writes
<1>12. queued' = [blocks |-> queued'.blocks, answer |-> queued'.answer]
  <2> DEFINE after == Effects(view, shown, queue)
  <2>1. after = [blocks |-> after.blocks, answer |-> after.answer]
    BY EffectsAre
  <2> HIDE DEF after
  <2>2. queued' = after
    BY <1>8 DEF after
  <2> QED
    BY <2>1, <2>2
<1>13. OnPage' /\ shown'.question = q /\ EffectsRan'
  BY <1>5, <1>8, <1>9 DEF OnPage, EffectsRan
<1>14. TextsOK'
  BY <1>2, <1>3, <1>8, <1>9, <1>11, <1>12, LinesText DEF TextsOK, Viewed
<1>15. PageOK'
  BY <1>3, <1>7, <1>8, <1>9, <1>10, <1>11, <1>13 DEF PageOK
<1>16. AwayOK' /\ MadeOK'
  BY <1>1, <1>7, <1>10, <1>11, <1>13 DEF AwayOK, MadeOK
<1> QED
  BY <1>14, <1>15, <1>16 DEF ParsonsInv

\* A question leaves, and its text keeps what was made.
LEMMA HideStep == ParsonsInv /\ Hide => ParsonsInv'
<1> SUFFICES ASSUME ParsonsInv, Hide PROVE ParsonsInv'
  OBVIOUS
<1> DEFINE U == Updated(queued)
<1>1. /\ OnPage /\ shown' = NoView(U.answer) /\ seen' = shown'
      /\ queued' = [blocks |-> <<>>, answer |-> U.answer] /\ made' = made /\ hurried' = hurried
  BY DEF Hide, Unmount
<1>2. IsText(U.answer)
  BY <1>1, PageIs, UpdatedIs
<1>3. ~hurried => Lines(Parse(shown.question, U.answer)) = made.lines
  BY <1>1, HeldMeanwhile
<1> HIDE DEF U
<1>4. ~OnPage' /\ shown' = NoView(shown'.answer) /\ EffectsRan' /\ shown'.answer = U.answer
  BY <1>1 DEF OnPage, NoView, EffectsRan
<1>5. TextsOK'
  BY <1>1, <1>2 DEF TextsOK, Viewed, NoView
<1>6. AwayOK'
  BY <1>1, <1>3, <1>4, PageIs DEF AwayOK
<1>7. PageOK' /\ MadeOK'
  BY <1>4 DEF PageOK, MadeOK
<1> QED
  BY <1>5, <1>6, <1>7 DEF ParsonsInv

\* An answer was graded: nothing is kept.
LEMMA GradeStep == ParsonsInv /\ Grade => ParsonsInv'
<1> SUFFICES ASSUME ParsonsInv, Grade PROVE ParsonsInv'
  OBVIOUS
<1>1. /\ shown' = NoView(<<>>) /\ seen' = shown' /\ queued' = [blocks |-> <<>>, answer |-> <<>>]
      /\ made'.question = NoQuestion
  BY DEF Grade
<1>2. IsText(<<>>)
  BY DEF IsText, NamedOnce
<1>3. ~OnPage' /\ shown' = NoView(shown'.answer) /\ EffectsRan'
  BY <1>1 DEF OnPage, NoView, EffectsRan
<1>4. TextsOK'
  BY <1>1, <1>2 DEF TextsOK, Viewed, NoView
<1>5. AwayOK' /\ PageOK' /\ MadeOK'
  BY <1>1, <1>3, ParsonsAssumption DEF AwayOK, PageOK, MadeOK
<1> QED
  BY <1>4, <1>5 DEF ParsonsInv

\* A rendering of queued updates leaves the queue to its effects.
LEMMA RenderQueuedStep == ParsonsInv /\ RenderQueued => ParsonsInv'
<1> SUFFICES ASSUME ParsonsInv, RenderQueued PROVE ParsonsInv'
  OBVIOUS
<1>1. /\ OnPage /\ EffectsRan /\ seen' = seen /\ queued' = queued /\ made' = made
      /\ hurried' = hurried
      /\ shown' = [shown EXCEPT !.blocks = queued.blocks, !.answer = queued.answer]
  BY DEF RenderQueued
<1>2. shown = [question |-> shown.question, blocks |-> shown.blocks, answer |-> shown.answer]
  BY DEF ParsonsInv, TextsOK, Viewed
<1>3. /\ shown' = [question |-> shown.question, blocks |-> queued.blocks, answer |-> queued.answer]
  BY <1>1, <1>2
<1>4. /\ shown'.question = shown.question /\ shown'.blocks = queued.blocks
      /\ shown'.answer = queued.answer
      /\ shown' = [question |-> shown'.question, blocks |-> shown'.blocks, answer |-> shown'.answer]
  BY <1>3
<1>5. TextsOK'
  BY <1>1, <1>4 DEF ParsonsInv, TextsOK, Viewed
<1>6. OnPage'
  BY <1>1, <1>4 DEF OnPage
<1>7. PageOK'
  BY <1>1, <1>4, PageIs DEF PageOK
<1>8. AwayOK' /\ MadeOK'
  BY <1>1, <1>4, <1>6 DEF ParsonsInv, AwayOK, MadeOK
<1> QED
  BY <1>5, <1>7, <1>8 DEF ParsonsInv

\* The effects of that rendering bring text and blocks closer, and lose nothing.
LEMMA RunEffectsStep == ParsonsInv /\ RunEffects => ParsonsInv'
<1> SUFFICES ASSUME ParsonsInv, RunEffects PROVE ParsonsInv'
  OBVIOUS
<1> DEFINE U == Updated(queued)
<1>1. /\ OnPage /\ ~EffectsRan /\ seen' = shown /\ shown' = shown /\ made' = made
      /\ hurried' = hurried
  BY DEF RunEffects
<1>2. queued' = U
  BY DEF RunEffects, Updated
<1>3. /\ Full(shown.question, U.blocks) /\ IsText(U.answer)
      /\ Lines(shown.blocks) # shown.answer => U.answer = Lines(shown.blocks)
  BY <1>1, PageIs, UpdatedIs
<1>4. ~hurried => /\ Lines(U.blocks) = made.lines /\ Parse(shown.question, U.answer) = U.blocks
                  /\ U.answer = made.lines \/ Lines(shown.blocks) = U.answer
  BY <1>1, HeldMeanwhile
<1>5. U = [blocks |-> U.blocks, answer |-> U.answer]
  BY <1>1, EffectsAre DEF Updated
<1> HIDE DEF U
<1>6. TextsOK'
  BY <1>1, <1>2, <1>3, <1>5 DEF ParsonsInv, TextsOK, Viewed
<1>7. OnPage' /\ EffectsRan'
  BY <1>1 DEF OnPage, EffectsRan
<1>8. PageOK'
  BY <1>1, <1>2, <1>3, <1>7, PageIs DEF PageOK
<1>9. AwayOK' /\ MadeOK'
  BY <1>1, <1>2, <1>4, <1>7 DEF AwayOK, MadeOK
<1> QED
  BY <1>6, <1>8, <1>9 DEF ParsonsInv

\* Every step of the composer keeps the invariant.
LEMMA ParsonsStep == ParsonsInv /\ [ParsonsNext]_parsonsVars => ParsonsInv'
<1> SUFFICES ASSUME ParsonsInv, [ParsonsNext]_parsonsVars PROVE ParsonsInv'
  OBVIOUS
<1>1. CASE ResetOrder
  <2>1. OnPage => Full(shown.question, Fresh(shown.question))
    BY PageIs, QuestionIs
  <2> QED
    BY <1>1, <2>1, EditStep DEF ResetOrder
<1>2. ASSUME NEW b \in ToSet(shown.blocks), NEW by \in {-1, 1}, ChangeIndent(b, by)
      PROVE  ParsonsInv'
  <2> DEFINE level == b.indent + by
             blocks == [i \in DOMAIN queued.blocks |->
                          IF queued.blocks[i].id = b.id
                          THEN [queued.blocks[i] EXCEPT !.indent = level] ELSE queued.blocks[i]]
  <2>1. level \in 0 .. MaxIndent /\ Edit(blocks)
    BY <1>2 DEF ChangeIndent
  <2>2. OnPage => Full(shown.question, blocks)
    <3>1. OnPage => shown.question \in Questions /\ Full(shown.question, queued.blocks)
      BY PageIs
    <3>2. blocks = Indented(queued.blocks, b.id, level)
      BY DEF Indented
    <3> HIDE DEF blocks, level
    <3> QED
      BY <2>1, <3>1, <3>2, IndentedFull
  <2> HIDE DEF level
  <2> HIDE DEF blocks
  <2> QED
    BY <2>1, <2>2, EditStep
<1>3. ASSUME NEW b \in ToSet(shown.blocks), NEW o \in ToSet(shown.blocks), Drag(b.id, o.id)
      PROVE  ParsonsInv'
  <2> DEFINE from == Place(queued.blocks, b.id)
             to == Place(queued.blocks, o.id)
             blocks == InsertAt(RemoveAt(queued.blocks, from), to, queued.blocks[from])
  <2>1. Edit(blocks) /\ {b.id, o.id} \subseteq {x.id : x \in ToSet(queued.blocks)}
    BY <1>3 DEF Drag
  <2>2. from \in DOMAIN queued.blocks /\ to \in DOMAIN queued.blocks
    <3>1. \A x \in ToSet(queued.blocks) : \E i \in DOMAIN queued.blocks : queued.blocks[i] = x
      BY DEF ToSet
    <3>2. /\ \E i \in DOMAIN queued.blocks : queued.blocks[i].id = b.id
          /\ \E i \in DOMAIN queued.blocks : queued.blocks[i].id = o.id
      BY <2>1, <3>1
    <3> QED
      BY <3>2 DEF Place
  <2> HIDE DEF from, to
  <2>3. OnPage => Full(shown.question, blocks)
    BY <2>2, PageIs, DraggedFull
  <2> HIDE DEF blocks
  <2> QED
    BY <2>1, <2>3, EditStep
<1>4. ASSUME NEW q \in Questions, ReplaceQuestion(q) \/ Show(q) PROVE ParsonsInv'
  BY <1>4, ReplaceStep, ShowStep
<1>5. CASE UNCHANGED parsonsVars
  BY <1>5 DEF parsonsVars, ParsonsInv, TextsOK, AwayOK, PageOK, MadeOK, OnPage, EffectsRan
<1> QED
  BY <1>1, <1>2, <1>3, <1>4, <1>5, HideStep, GradeStep, RenderQueuedStep, RunEffectsStep
  DEF ParsonsNext

\* The empty page has it.
LEMMA ParsonsFirst == ParsonsInit => ParsonsInv
<1> SUFFICES ASSUME ParsonsInit PROVE ParsonsInv
  OBVIOUS
<1>1. /\ shown = NoView(<<>>) /\ seen = shown /\ queued = [blocks |-> <<>>, answer |-> <<>>]
      /\ made.question = NoQuestion
  BY DEF ParsonsInit
<1>2. IsText(<<>>)
  BY DEF IsText, NamedOnce
<1>3. ~OnPage /\ shown = NoView(shown.answer) /\ EffectsRan
  BY <1>1 DEF OnPage, NoView, EffectsRan
<1>4. TextsOK
  BY <1>1, <1>2 DEF TextsOK, Viewed, NoView
<1>5. AwayOK /\ PageOK /\ MadeOK
  BY <1>1, <1>3, ParsonsAssumption DEF AwayOK, PageOK, MadeOK
<1> QED
  BY <1>4, <1>5 DEF ParsonsInv

\* The inductive invariant of ParsonsInput holds in every reachable state.
THEOREM ParsonsHold == ParsonsSpec => []ParsonsInv
<1> QED
  BY ParsonsFirst, ParsonsStep, PTL DEF ParsonsSpec

\* At rest the text to submit is the arrangement on screen, complete and of the question on
\* screen, and what the person made of it when nothing came in between, for any questions and
\* any number of edits (ArrangementKept; the two effects of the Parsons composer).
THEOREM ArrangementKeptAlways == ParsonsSpec => []ArrangementKept
<1>1. ASSUME ParsonsInv PROVE ArrangementKept
  <2> SUFFICES ASSUME OnPage, Settled
               PROVE  /\ Lines(shown.blocks) = shown.answer
                      /\ Len(shown.blocks) = Len(Served[shown.question])
                      /\ {b.id : b \in ToSet(shown.blocks)} = Ids(shown.question)
                      /\ \A b \in ToSet(shown.blocks) : b.of = shown.question
                      /\ ~hurried => shown.answer = made.lines
    BY DEF ArrangementKept
  <2>1. seen = shown /\ queued.blocks = shown.blocks /\ queued.answer = shown.answer
    BY DEF Settled, EffectsRan
  <2>2. shown.question \in Questions /\ Full(shown.question, shown.blocks)
    BY <1>1, <2>1, PageIs
  <2>3. Lines(shown.blocks) = shown.answer
    BY <1>1, <2>1, PageIs
  <2>4. ToSet(shown.blocks) = {shown.blocks[i] : i \in DOMAIN shown.blocks}
    BY <2>2, FullIs
  <2>5. {b.id : b \in ToSet(shown.blocks)} = Ids(shown.question)
    BY <2>2, <2>4 DEF Full
  <2>6. \A b \in ToSet(shown.blocks) : b.of = shown.question
    BY <2>2, <2>4, FullIs
  <2>7. ~hurried => shown.answer = made.lines
    BY <1>1, <2>1, <2>3 DEF ParsonsInv, MadeOK
  <2> QED
    BY <2>2, <2>3, <2>5, <2>6, <2>7, FullLength
<1> QED
  BY <1>1, ParsonsHold, PTL
==============================================================================
