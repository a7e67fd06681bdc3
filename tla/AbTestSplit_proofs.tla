-------------------------- MODULE AbTestSplit_proofs --------------------------
(***************************************************************************)
(* The parts of an A/B test, for any audience, any positive weights, any   *)
(* page size and any number of contacts that come and go while the pages   *)
(* are read.                                                               *)
(***************************************************************************)
EXTENDS AbTestSplit, TLAPS, FiniteSetTheorems, WellFoundedInduction

-----------------------------------------------------------------------------
(***************************************************************************)
(* The inductive invariant.  The pages read so far are the ranks below     *)
(* NextOffset, so what a contact that comes or goes can spoil is said of   *)
(* its rank: a contact that was read and now stands at or after NextOffset *)
(* will be read again, one that was not and stands before it is lost.      *)
(***************************************************************************)
SplitPcs == {"load", "count", "select", "bulk", "winner", "done", "failed"}

SplitParts == Seq([weight: Nat, offset: Nat, size: Int])

\* Each part begins where the one before it ends, the last holds the rest.
Chained(ps, total) ==
    LET last == Len(ps)
    IN  /\ last \in Nat \ {0}
        /\ ps[1].offset = 0
        /\ ps[last].weight = 0
        /\ ps[last].size = total - ps[last].offset
        /\ \A i \in 1 .. last - 1 :
              /\ ps[i].weight \in 1 .. 99
              /\ ps[i].size = Share(ps[i].weight, total)
              /\ ps[i + 1].offset = ps[i].offset + ps[i].size

PartsOK ==
    job.pc \in {"select", "bulk", "winner", "done"} => Chained(parts, Cardinality(counted))

\* Before the count nothing was sent; only the page in hand holds contacts.
StartOK ==
    /\ job.pc \in {"load", "count"} => moves = 0 /\ queued = {}
    /\ job.pc = "count" => \A i \in DOMAIN parts : parts[i].weight \in 1 .. 99
    /\ job.pc # "bulk" => job.ids = {}
    /\ job.pc \in {"winner", "done"} => job.part = Len(parts)

\* How far the audience can be from the one that was counted.
CountOK ==
    job.pc \in {"select", "bulk"} =>
        /\ Cardinality(audience) - Cardinality(counted) <= moves
        /\ Cardinality(counted) - Cardinality(audience) <= moves
        /\ moves = 0 => audience = counted

\* The jobs queued are those of earlier pages.
PagesQueued ==
    /\ IsFiniteSet(queued)
    /\ job.pc \in {"select", "bulk"} =>
          \A q \in queued :
              \/ q.part < job.part
              \/ (q.part = job.part /\ q.batch < job.batch)

Reading == job.pc \in {"select", "bulk"}

\* The offset of the next page that will be read.
NextOffset ==
    LET part == parts[job.part]
    IN  part.offset + job.batch * BatchSize
          + (IF job.pc = "bulk" THEN Limit(part, job.batch) ELSE 0)

QueuedContacts == {q.contact : q \in queued}

Taken == QueuedContacts \cup job.ids

\* The contacts with two jobs, now or once what is in hand and ahead is queued.
Twice ==
    Repeated \cup (QueuedContacts \cap job.ids)
        \cup {c \in Taken \cap audience : Reading /\ Rank(c) >= NextOffset}

\* The contacts counted that no page ahead will hold, as the audience stands.
Lost == {c \in counted \ Taken : c \in audience => Rank(c) < NextOffset}

\* A contact that comes repeats one at most, one that goes loses one at most.
MovesPaid ==
    /\ Cardinality(Twice) <= moves
    /\ Reading =>
          2 * Cardinality(Lost) <= moves + Cardinality(counted) - Cardinality(audience)
    /\ job.pc \in {"winner", "done"} => Cardinality(Missed) <= moves

SentTo(i) == {q \in queued : q.part = i}

\* With a steady audience that holds all parts, their pages are full.
SharesSent ==
    /\ job.pc \in {"select", "bulk", "winner", "done"}
    /\ moves = 0
    /\ parts[Len(parts)].size >= 0
    => /\ \A i \in 1 .. Len(parts) - 1 :
             Cardinality(SentTo(i)) = IF i < job.part THEN parts[i].size
                                      ELSE IF i = job.part THEN job.batch * BatchSize ELSE 0
       /\ job.pc = "bulk" /\ job.part < Len(parts) =>
             Cardinality(job.ids) = Limit(parts[job.part], job.batch)

SplitInv ==
    /\ job \in [pc: SplitPcs, part: Nat, batch: Nat, ids: SUBSET Contacts]
    /\ SplitTypeOK
    /\ StartOK
    /\ PartsOK
    /\ CountOK
    /\ PagesQueued
    /\ MovesPaid
    /\ SharesSent

-----------------------------------------------------------------------------
(* Natural numbers. *)

\* A set of natural numbers that is not empty has a least member.
LEMMA LeastNatural ==
  ASSUME NEW T \in SUBSET Nat, T # {}
  PROVE  \E x \in T : \A y \in T : x <= y
  <1> DEFINE R == {p \in Nat \X Nat : p[1] < p[2]}
  <1>1. R = OpToRel(<, Nat)
    BY Zenon DEF OpToRel
  <1>2. IsWellFoundedOn(R, Nat)
    BY <1>1, NatLessThanWellFounded, Zenon
  <1>3. PICK x \in T : \A y \in T : ~ (<<y, x>> \in R)
    BY <1>2, WFMin
  <1>4. \A y \in T : y < x => <<y, x>> \in R
    OBVIOUS
  <1> HIDE DEF R
  <1>5. x \in Nat /\ \A y \in T : y \in Nat
    OBVIOUS
  <1>6. \A y \in T : ~(y < x)
    BY <1>3, <1>4, Zenon
  <1>7. \A y \in T : x <= y
    BY <1>5, <1>6
  <1> QED
    BY <1>7

\* Min finds it.
LEMMA MinIsLeast ==
  ASSUME NEW T \in SUBSET Nat, T # {}
  PROVE  Min(T) \in T /\ \A y \in T : Min(T) <= y
  BY LeastNatural DEF Min

\* A share is a natural number, the percentage or at most one below it.
LEMMA ShareFloors ==
  ASSUME NEW weight \in Nat, NEW total \in Nat
  PROVE  /\ Share(weight, total) \in Nat
         /\ 100 * Share(weight, total) <= weight * total
         /\ weight * total - 100 <= 100 * Share(weight, total)
  <1> DEFINE product == weight * total
             short == <<weight, total>> \in ShortShares
  <1>1. product \in Nat
    OBVIOUS
  <1>2. short => product % 100 = 0 /\ product # 0
    <2> SUFFICES ASSUME short
                 PROVE  product % 100 = 0 /\ product # 0
      OBVIOUS
    <2>1. /\ weight \in 1 .. 99 /\ total \in Nat \ {0}
          /\ (weight * total) % 100 = 0
      BY SplitAssumption
    <2>2. weight * total >= total
      BY <2>1
    <2> QED
      BY <2>1, <2>2
  <1> HIDE DEF product, short
  <1> DEFINE floor == product \div 100
             share == Share(weight, total)
  <1>3. /\ floor \in Nat
        /\ 100 * floor <= product /\ product < 100 * floor + 100
        /\ product % 100 = 0 => product = 100 * floor
    BY <1>1
  <1>4. share = floor - (IF short THEN 1 ELSE 0)
    BY DEF Share, product, short
  <1> HIDE DEF floor, share
  <1>5. share \in Nat /\ 100 * share <= product /\ product - 100 <= 100 * share
    <2>1. CASE short
      BY <1>1, <1>2, <1>3, <1>4, <2>1
    <2>2. CASE ~short
      BY <1>1, <1>3, <1>4, <2>2
    <2> QED
      BY <2>1, <2>2
  <1> QED
    BY <1>5 DEF product, share

\* Batches lie side by side.
LEMMA BatchOffsets ==
  ASSUME NEW batch \in Nat
  PROVE  /\ batch * BatchSize \in Nat
         /\ (batch + 1) * BatchSize = batch * BatchSize + BatchSize
  BY SplitAssumption

-----------------------------------------------------------------------------
(* The offsets of the parts. *)

\* The partial sums of some sizes.
LEMMA SumsExist ==
  ASSUME NEW n \in Nat, NEW size \in [1 .. n -> Nat]
  PROVE  \E f \in [1 .. n + 1 -> Nat] :
            f[1] = 0 /\ \A i \in 1 .. n : f[i + 1] = f[i] + size[i]
  <1> DEFINE Sums(k) == \E f \in [1 .. k + 1 -> Nat] :
                            f[1] = 0 /\ \A i \in 1 .. k : f[i + 1] = f[i] + size[i]
             T == {k \in 0 .. n : ~Sums(k)}
  <1>1. Sums(0)
    <2> DEFINE f == [i \in 1 .. 1 |-> 0]
    <2>1. f \in [1 .. 0 + 1 -> Nat] /\ f[1] = 0 /\ \A i \in 1 .. 0 : f[i + 1] = f[i] + size[i]
      OBVIOUS
    <2> QED
      BY <2>1
  <1>2. ASSUME NEW k \in 1 .. n, Sums(k - 1)
        PROVE  Sums(k)
    <2>0. (k - 1) + 1 = k
      OBVIOUS
    <2>1. PICK f \in [1 .. k -> Nat] :
             f[1] = 0 /\ \A i \in 1 .. k - 1 : f[i + 1] = f[i] + size[i]
      BY <1>2, <2>0
    <2> DEFINE g == [i \in 1 .. k + 1 |-> IF i = k + 1 THEN f[k] + size[k] ELSE f[i]]
    <2>2. size[k] \in Nat /\ f[k] \in Nat
      BY <2>1
    <2>3. g \in [1 .. k + 1 -> Nat]
      BY <2>1, <2>2
    <2>4. g[1] = 0 /\ \A i \in 1 .. k : g[i + 1] = g[i] + size[i]
      BY <2>1, <2>2
    <2> QED
      BY <2>3, <2>4
  <1> HIDE DEF Sums
  <1>3. T = {}
    <2> SUFFICES ASSUME T # {}
                 PROVE  FALSE
      OBVIOUS
    <2>1. T \in SUBSET Nat
      OBVIOUS
    <2>2. PICK k \in T : \A y \in T : k <= y
      BY <2>1, LeastNatural
    <2>3. k # 0
      BY <1>1, <2>2
    <2>4. k \in 1 .. n /\ k - 1 \in 0 .. n /\ k - 1 \notin T
      BY <2>2, <2>3
    <2>5. Sums(k - 1)
      BY <2>4
    <2> QED
      BY <1>2, <2>2, <2>4, <2>5
  <1>4. Sums(n)
    BY <1>3
  <1> QED
    BY <1>4 DEF Sums

\* Stored variants before they are cut.
Variants == {ps \in SplitParts :
                \A i \in DOMAIN ps : ps[i].weight \in 1 .. 99}

\* Offsets are the partial sums of the shares.
LEMMA OffsetsAddUp ==
  ASSUME NEW ps \in Variants, NEW total \in Nat
  PROVE  /\ Offsets(ps, total) \in [1 .. Len(ps) + 1 -> Nat]
         /\ Offsets(ps, total)[1] = 0
         /\ \A i \in 1 .. Len(ps) :
               Offsets(ps, total)[i + 1] = Offsets(ps, total)[i] + Share(ps[i].weight, total)
  <1> DEFINE n == Len(ps)
             size == [i \in 1 .. n |-> Share(ps[i].weight, total)]
             Step(f) == [i \in 1 .. Len(ps) + 1 |->
                            IF i = 1 THEN 0 ELSE f[i - 1] + Share(ps[i - 1].weight, total)]
  <1>1. n \in Nat /\ DOMAIN ps = 1 .. n /\ \A i \in 1 .. n : ps[i].weight \in Nat
    <2>1. ps \in Seq([weight: Nat, offset: Nat, size: Int])
      BY DEF Variants, SplitParts
    <2>2. \A i \in DOMAIN ps : ps[i].weight \in 1 .. 99
      BY DEF Variants
    <2>3. n \in Nat /\ DOMAIN ps = 1 .. n
      BY <2>1
    <2> HIDE DEF n
    <2>4. \A i \in 1 .. n : i \in DOMAIN ps
      BY <2>3
    <2>5. \A weight \in 1 .. 99 : weight \in Nat
      OBVIOUS
    <2> QED
      BY <2>2, <2>3, <2>4, <2>5, Zenon
  <1>2. size \in [1 .. n -> Nat]
    BY <1>1, ShareFloors
  <1>3. \E f : f = Step(f)
    <2>1. PICK f \in [1 .. n + 1 -> Nat] :
             f[1] = 0 /\ \A i \in 1 .. n : f[i + 1] = f[i] + size[i]
      BY <1>1, <1>2, SumsExist
    <2>2. ASSUME NEW i \in 1 .. n + 1
          PROVE  f[i] = IF i = 1 THEN 0 ELSE f[i - 1] + Share(ps[i - 1].weight, total)
      <3>1. CASE i = 1
        BY <2>1, <3>1
      <3>2. CASE i # 1
        <4>1. i - 1 \in 1 .. n /\ (i - 1) + 1 = i
          BY <1>1, <3>2
        <4>2. f[(i - 1) + 1] = f[i - 1] + size[i - 1]
          BY <2>1, <4>1
        <4> QED
          BY <3>2, <4>1, <4>2
      <3> QED
        BY <3>1, <3>2
    <2> QED
      BY <2>1, <2>2
  <1>4. Offsets(ps, total) = Step(Offsets(ps, total))
    BY <1>3 DEF Offsets
  <1> DEFINE o == Offsets(ps, total)
  <1>5. o = Step(o)
    BY <1>4
  <1> HIDE DEF o
  <1>6. DOMAIN o = 1 .. n + 1 /\ o[1] = 0
    BY <1>1, <1>5
  <1>7. ASSUME NEW i \in 1 .. n
        PROVE  o[i + 1] = o[i] + Share(ps[i].weight, total)
    <2>1. i + 1 \in 1 .. n + 1 /\ i + 1 # 1 /\ (i + 1) - 1 = i
      BY <1>1
    <2> QED
      BY <1>5, <2>1
  <1>8. \A i \in 1 .. n + 1 : o[i] \in Nat
    <2> DEFINE T == {i \in 1 .. n + 1 : o[i] \notin Nat}
    <2> SUFFICES ASSUME T # {}
                 PROVE  FALSE
      OBVIOUS
    <2>1. T \in SUBSET Nat
      BY <1>1
    <2>2. PICK i \in T : \A y \in T : i <= y
      BY <2>1, LeastNatural
    <2>3. i # 1 /\ i \in 1 .. n + 1 /\ i - 1 \in 1 .. n
      BY <1>1, <1>6, <2>2
    <2>4. o[i - 1] \in Nat
      BY <1>1, <2>2, <2>3
    <2>5. o[(i - 1) + 1] = o[i - 1] + Share(ps[i - 1].weight, total)
      BY <1>7, <2>3
    <2>6. Share(ps[i - 1].weight, total) \in Nat
      BY <1>1, <2>3, ShareFloors
    <2>7. o[i] \in Nat
      BY <2>3, <2>4, <2>5, <2>6
    <2> QED
      BY <2>2, <2>7
  <1>9. o \in [1 .. n + 1 -> Nat]
    BY <1>5, <1>6, <1>8
  <1> QED
    BY <1>6, <1>7, <1>9 DEF o

-----------------------------------------------------------------------------
(* Ranks: the place of a contact in the order of the query. *)

RankIn(A, c) == Cardinality({d \in A : d < c})

\* Ranks are natural numbers that follow the order of the ids.
LEMMA RanksOrdered ==
  ASSUME NEW A \in SUBSET Nat, IsFiniteSet(A)
  PROVE  /\ Cardinality(A) \in Nat
         /\ \A c \in Nat : RankIn(A, c) \in Nat
         /\ \A c, d \in Nat : c <= d => RankIn(A, c) <= RankIn(A, d)
         /\ \A c \in A, d \in Nat : c < d => RankIn(A, c) < RankIn(A, d)
         /\ \A c \in A : RankIn(A, c) < Cardinality(A)
  <1> DEFINE Below(c) == {d \in A : d < c}
  <1>1. \A c \in Nat : IsFiniteSet(Below(c)) /\ Cardinality(Below(c)) \in Nat
    BY FS_Subset, FS_CardinalityType
  <1>2. ASSUME NEW c \in Nat, NEW d \in Nat, c <= d
        PROVE  Cardinality(Below(c)) <= Cardinality(Below(d))
    <2>1. \A e \in A : e < c => e < d
      <3>1. \A e \in A : e \in Nat
        OBVIOUS
      <3> QED
        BY <1>2, <3>1
    <2>2. Below(c) \subseteq Below(d)
      BY <2>1
    <2> QED
      BY <1>1, <2>2, FS_Subset
  <1>3. ASSUME NEW c \in A, NEW S, IsFiniteSet(S), Below(c) \subseteq S, c \in S
        PROVE  Cardinality(Below(c)) < Cardinality(S)
    <2>1. c \in Nat /\ c \notin Below(c)
      OBVIOUS
    <2>2. /\ IsFiniteSet(Below(c) \cup {c})
          /\ Cardinality(Below(c) \cup {c}) = Cardinality(Below(c)) + 1
      BY <1>1, <2>1, FS_AddElement
    <2>3. Cardinality(Below(c) \cup {c}) <= Cardinality(S)
      BY <1>3, FS_Subset
    <2>4. Cardinality(S) \in Nat /\ Cardinality(Below(c)) \in Nat
      BY <1>1, <1>3, <2>1, FS_CardinalityType
    <2> QED
      BY <2>2, <2>3, <2>4
  <1>4. ASSUME NEW c \in A, NEW d \in Nat, c < d
        PROVE  Cardinality(Below(c)) < Cardinality(Below(d))
    <2>1. \A e \in A : e < c => e < d
      <3>1. c \in Nat /\ \A e \in A : e \in Nat
        OBVIOUS
      <3> QED
        BY <1>4, <3>1
    <2>2. Below(c) \subseteq Below(d) /\ c \in Below(d)
      BY <1>4, <2>1
    <2> QED
      BY <1>1, <1>3, <2>2
  <1>5. \A c \in A : Cardinality(Below(c)) < Cardinality(A)
    BY <1>3
  <1>6. Cardinality(A) \in Nat
    BY FS_CardinalityType
  <1> QED
    BY <1>1, <1>2, <1>4, <1>5, <1>6 DEF RankIn

\* No two contacts have the same rank.
LEMMA RanksDiffer ==
  ASSUME NEW A \in SUBSET Nat, IsFiniteSet(A), NEW c \in A, NEW d \in A,
         RankIn(A, c) = RankIn(A, d)
  PROVE  c = d
  <1>1. c \in Nat /\ d \in Nat /\ RankIn(A, c) \in Nat
    BY RanksOrdered
  <1>2. ~(c < d) /\ ~(d < c)
    BY <1>1, RanksOrdered
  <1> QED
    BY <1>1, <1>2

\* A contact that comes moves those after it one rank up.
LEMMA RankAdded ==
  ASSUME NEW A \in SUBSET Nat, IsFiniteSet(A), NEW x \in Nat, x \notin A, NEW c \in Nat
  PROVE  RankIn(A \cup {x}, c) = RankIn(A, c) + (IF x < c THEN 1 ELSE 0)
  <1> DEFINE below == {d \in A : d < c}
             belowNow == {d \in A \cup {x} : d < c}
  <1>1. IsFiniteSet(below) /\ Cardinality(below) \in Nat
    BY FS_Subset, FS_CardinalityType
  <1>2. CASE x < c
    <2>1. belowNow = below \cup {x} /\ x \notin below
      BY <1>2
    <2>2. Cardinality(below \cup {x}) = Cardinality(below) + 1
      BY <1>1, <2>1, FS_AddElement
    <2> QED
      BY <1>2, <2>1, <2>2 DEF RankIn
  <1>3. CASE ~(x < c)
    <2>1. belowNow = below
      BY <1>3
    <2> QED
      BY <1>1, <1>3, <2>1 DEF RankIn
  <1> QED
    BY <1>2, <1>3

\* A contact that goes moves those after it one rank down.
LEMMA RankRemoved ==
  ASSUME NEW A \in SUBSET Nat, IsFiniteSet(A), NEW x \in A, NEW c \in Nat
  PROVE  RankIn(A \ {x}, c) = RankIn(A, c) - (IF x < c THEN 1 ELSE 0)
  <1>1. A \ {x} \in SUBSET Nat /\ IsFiniteSet(A \ {x}) /\ (A \ {x}) \cup {x} = A /\ x \in Nat
    BY FS_RemoveElement
  <1>2. RankIn(A, c) = RankIn(A \ {x}, c) + (IF x < c THEN 1 ELSE 0)
    BY <1>1, RankAdded
  <1>3. RankIn(A \ {x}, c) \in Nat
    BY <1>1, RanksOrdered
  <1> QED
    BY <1>2, <1>3

\* A range of n ranks holds n contacts, or fewer when it ends past the audience.
LEMMA RangeHolds ==
  ASSUME NEW A \in SUBSET Nat, IsFiniteSet(A), NEW o \in Nat, NEW n \in Nat,
         NEW S, S = {c \in A : o <= RankIn(A, c) /\ RankIn(A, c) < o + n}
  PROVE  /\ IsFiniteSet(S) /\ Cardinality(S) <= n
         /\ o + n <= Cardinality(A) => Cardinality(S) = n
  <1> DEFINE total == Cardinality(A)
             rank == [c \in A |-> RankIn(A, c)]
             rankS == [c \in S |-> RankIn(A, c)]
  <1>1. total \in Nat /\ \A c \in A : RankIn(A, c) \in Nat /\ RankIn(A, c) < total
    BY RanksOrdered
  <1>2. \A c, d \in A : RankIn(A, c) = RankIn(A, d) => c = d
    BY RanksDiffer
  <1>3. rankS \in Injection(S, o .. o + n - 1)
    <2>1. \A c \in S : RankIn(A, c) \in o .. o + n - 1
      BY <1>1
    <2>2. rankS \in [S -> o .. o + n - 1]
      BY <2>1
    <2>3. \A c, d \in S : rankS[c] = rankS[d] => c = d
      BY <1>2
    <2> HIDE DEF rankS
    <2> QED
      BY <2>2, <2>3 DEF Injection, IsInjective
  <1>4. IsFiniteSet(o .. o + n - 1) /\ Cardinality(o .. o + n - 1) = n
    BY FS_Interval
  <1>5. /\ IsFiniteSet(S) /\ Cardinality(S) <= n
        /\ Cardinality(S) = n <=> rankS \in Surjection(S, o .. o + n - 1)
    BY <1>3, <1>4, FS_Injection
  <1>6. ASSUME o + n <= total
        PROVE  rankS \in Surjection(S, o .. o + n - 1)
    <2>1. rank \in Injection(A, 0 .. total - 1)
      <3>1. \A c \in A : RankIn(A, c) \in 0 .. total - 1
        BY <1>1
      <3>2. rank \in [A -> 0 .. total - 1]
        BY <3>1
      <3>3. \A c, d \in A : rank[c] = rank[d] => c = d
        BY <1>2
      <3> HIDE DEF rank
      <3> QED
        BY <3>2, <3>3 DEF Injection, IsInjective
    <2>2. IsFiniteSet(0 .. total - 1) /\ Cardinality(0 .. total - 1) = total
      <3>1. 0 \in Int /\ total - 1 \in Int /\ (total - 1) - 0 + 1 = total /\ ~(0 > total - 1 /\ total # 0)
        BY <1>1
      <3>2. /\ IsFiniteSet(0 .. total - 1)
            /\ Cardinality(0 .. total - 1)
                 = IF 0 > total - 1 THEN 0 ELSE (total - 1) - 0 + 1
        BY <3>1, FS_Interval
      <3> QED
        BY <1>1, <3>1, <3>2
    <2>3. rank \in Surjection(A, 0 .. total - 1)
      BY <2>1, <2>2, FS_Injection
    <2>4. \A m \in 0 .. total - 1 : \E c \in A : RankIn(A, c) = m
      BY <2>3 DEF Surjection
    <2>5. \A m \in o .. o + n - 1 : \E c \in S : RankIn(A, c) = m
      BY <1>1, <1>6, <2>4
    <2>6. \A m \in o .. o + n - 1 : \E c \in S : rankS[c] = m
      BY <2>5
    <2>7. rankS \in [S -> o .. o + n - 1]
      BY <1>3 DEF Injection
    <2> HIDE DEF rankS
    <2> QED
      BY <2>6, <2>7 DEF Surjection
  <1> QED
    BY <1>5, <1>6

\* From rank o on there are as many contacts as the audience has beyond o.
LEMMA RestHolds ==
  ASSUME NEW A \in SUBSET Nat, IsFiniteSet(A), NEW o \in Nat,
         NEW S, S = {c \in A : RankIn(A, c) >= o}
  PROVE  /\ IsFiniteSet(S) /\ Cardinality(S) \in Nat
         /\ o <= Cardinality(A) => Cardinality(S) <= Cardinality(A) - o
         /\ o > Cardinality(A) => Cardinality(S) = 0
  <1> DEFINE total == Cardinality(A)
  <1>1. total \in Nat /\ \A c \in A : RankIn(A, c) \in Nat /\ RankIn(A, c) < total
    BY RanksOrdered
  <1>2. IsFiniteSet(S) /\ Cardinality(S) \in Nat
    BY FS_Subset, FS_CardinalityType
  <1>3. CASE o <= total
    <2>1. total - o \in Nat
      BY <1>1, <1>3
    <2>2. S = {c \in A : o <= RankIn(A, c) /\ RankIn(A, c) < o + (total - o)}
      <3>1. o + (total - o) = total
        BY <1>1, <1>3
      <3>2. \A c \in A : RankIn(A, c) >= o
                          <=> o <= RankIn(A, c) /\ RankIn(A, c) < o + (total - o)
        BY <1>1, <3>1
      <3> QED
        BY <3>2
    <2>3. Cardinality(S) <= total - o
      BY <2>1, <2>2, RangeHolds
    <2> QED
      BY <1>1, <1>2, <1>3, <2>3
  <1>4. CASE o > total
    <2>1. \A c \in A : ~(RankIn(A, c) >= o)
      BY <1>1, <1>4
    <2>2. S = {}
      BY <2>1
    <2>3. Cardinality(S) = 0
      BY <2>2, FS_EmptySet
    <2> QED
      BY <1>1, <1>2, <1>4, <2>3
  <1> QED
    BY <1>1, <1>3, <1>4

\* A set with all members in another but one is at most one larger.
LEMMA OneMore ==
  ASSUME NEW S, IsFiniteSet(S), NEW x, NEW T, T \subseteq S \cup {x}
  PROVE  IsFiniteSet(T) /\ Cardinality(T) <= Cardinality(S) + 1 /\ Cardinality(T) \in Nat
  <1>0. Cardinality(S) \in Nat
    BY FS_CardinalityType
  <1>1. IsFiniteSet(S \cup {x}) /\ Cardinality(S \cup {x}) <= Cardinality(S) + 1
    <2>1. IsFiniteSet(S \cup {x})
      BY FS_AddElement
    <2>2. Cardinality(S \cup {x}) = IF x \in S THEN Cardinality(S) ELSE Cardinality(S) + 1
      BY FS_AddElement
    <2> QED
      BY <1>0, <2>1, <2>2
  <1>2. IsFiniteSet(T) /\ Cardinality(T) <= Cardinality(S \cup {x})
    BY <1>1, FS_Subset
  <1>3. Cardinality(S \cup {x}) \in Nat /\ Cardinality(T) \in Nat
    BY <1>1, <1>2, FS_CardinalityType
  <1> QED
    BY <1>0, <1>1, <1>2, <1>3

-----------------------------------------------------------------------------
(* The parts. *)

\* The fields of the parts are numbers, and no share is below zero.
LEMMA PartTypes ==
  ASSUME NEW total \in Nat, NEW ps \in SplitParts, Chained(ps, total)
  PROVE  /\ DOMAIN ps = 1 .. Len(ps) /\ Len(ps) \in Nat \ {0}
         /\ \A i \in 1 .. Len(ps) :
               ps[i].weight \in Nat /\ ps[i].offset \in Nat /\ ps[i].size \in Int
         /\ \A i \in 1 .. Len(ps) - 1 :
               /\ ps[i].size \in Nat /\ ps[i].weight > 0
               /\ ps[i + 1].offset = ps[i].offset + ps[i].size
  <1>1. DOMAIN ps = 1 .. Len(ps) /\ Len(ps) \in Nat \ {0}
    BY DEF Chained, SplitParts
  <1>2. \A i \in 1 .. Len(ps) :
           ps[i].weight \in Nat /\ ps[i].offset \in Nat /\ ps[i].size \in Int
    <2>1. \A i \in 1 .. Len(ps) : ps[i] \in [weight: Nat, offset: Nat, size: Int]
      <3> DEFINE Part == [weight: Nat, offset: Nat, size: Int]
      <3>1. ps \in Seq(Part)
        BY DEF SplitParts
      <3> HIDE DEF Part
      <3>2. \A i \in 1 .. Len(ps) : ps[i] \in Part
        BY <3>1
      <3> QED
        BY <3>2 DEF Part
    <2> QED
      BY <2>1
  <1>3. ASSUME NEW i \in 1 .. Len(ps) - 1
        PROVE  /\ ps[i].size \in Nat /\ ps[i].weight > 0
               /\ ps[i + 1].offset = ps[i].offset + ps[i].size
    <2>1. /\ ps[i].weight \in 1 .. 99 /\ ps[i].size = Share(ps[i].weight, total)
          /\ ps[i + 1].offset = ps[i].offset + ps[i].size
      BY DEF Chained
    <2>2. ps[i].weight \in Nat /\ ps[i].weight > 0
      <3>1. \A w \in 1 .. 99 : w \in Nat /\ w > 0
        OBVIOUS
      <3> QED
        BY <2>1, <3>1, Zenon
    <2>3. Share(ps[i].weight, total) \in Nat
      BY <2>2, ShareFloors
    <2> QED
      BY <2>1, <2>2, <2>3
  <1> QED
    BY <1>1, <1>2, <1>3

\* Offsets grow from part to part, and stay over parts that are empty.
LEMMA OffsetsGrow ==
  ASSUME NEW total \in Nat, NEW ps \in SplitParts, Chained(ps, total),
         NEW i \in 1 .. Len(ps), NEW j \in i .. Len(ps)
  PROVE  /\ ps[i].offset <= ps[j].offset
         /\ (\A k \in i .. j - 1 : ps[k].size <= 0) => ps[j].offset = ps[i].offset
  <1> DEFINE n == Len(ps)
             Grown(m) == /\ ps[i].offset <= ps[m].offset
                         /\ (\A k \in i .. m - 1 : ps[k].size <= 0) => ps[m].offset = ps[i].offset
             T == {m \in i .. n : ~Grown(m)}
  <1>1. /\ n \in Nat \ {0}
        /\ \A m \in 1 .. n : ps[m].offset \in Nat /\ ps[m].size \in Int
        /\ \A m \in 1 .. n - 1 : ps[m].size \in Nat /\ ps[m + 1].offset = ps[m].offset + ps[m].size
    BY PartTypes
  <1> HIDE DEF n
  <1>2. Grown(i)
    BY <1>1 DEF n
  <1>3. ASSUME NEW m \in i .. n, m # i, Grown(m - 1)
        PROVE  Grown(m)
    <2>1. /\ m - 1 \in 1 .. n - 1 /\ m - 1 \in i .. m - 1 /\ (m - 1) + 1 = m
          /\ m \in 1 .. n /\ i \in 1 .. n /\ m - 1 \in 1 .. n
          /\ \A k \in i .. (m - 1) - 1 : k \in i .. m - 1
      BY <1>1, <1>3 DEF n
    <2>2. ps[m].offset = ps[m - 1].offset + ps[m - 1].size /\ ps[m - 1].size \in Nat
      BY <1>1, <2>1
    <2>3. ps[i].offset \in Nat /\ ps[m - 1].offset \in Nat /\ ps[m].offset \in Nat
      BY <1>1, <2>1, Zenon
    <2>4. ps[i].offset <= ps[m].offset
      <3>1. ps[i].offset <= ps[m - 1].offset
        BY <1>3, Zenon
      <3>2. \A a, b, c, d \in Nat : a <= b /\ c = b + d => a <= c
        OBVIOUS
      <3> QED
        BY <2>2, <2>3, <3>1, <3>2, Zenon
    <2>5. ASSUME \A k \in i .. m - 1 : ps[k].size <= 0
          PROVE  ps[m].offset = ps[i].offset
      <3>1. ps[m - 1].size <= 0 /\ \A k \in i .. (m - 1) - 1 : ps[k].size <= 0
        BY <2>1, <2>5
      <3>2. ps[m - 1].offset = ps[i].offset
        BY <1>3, <3>1
      <3> QED
        BY <2>2, <2>3, <3>1, <3>2
    <2> QED
      BY <2>4, <2>5
  <1> HIDE DEF Grown
  <1>4. T = {}
    <2> SUFFICES ASSUME T # {}
                 PROVE  FALSE
      OBVIOUS
    <2>1. T \in SUBSET Nat
      BY <1>1
    <2>2. PICK m \in T : \A y \in T : m <= y
      BY <2>1, LeastNatural
    <2>3. m # i /\ m \in i .. n /\ ~Grown(m)
      BY <1>2, <2>2
    <2>4. m - 1 \in i .. n /\ m - 1 \notin T
      BY <1>1, <2>1, <2>2, <2>3
    <2> QED
      BY <1>3, <2>3, <2>4
  <1>5. j \in i .. n /\ i \in Nat
    BY <1>1 DEF n
  <1> QED
    BY <1>4, <1>5 DEF Grown

\* Entering the parts from i on: only empty ones are left behind.
LEMMA EnterParts ==
  ASSUME NEW total \in Nat, NEW ps \in SplitParts, Chained(ps, total),
         NEW i \in 1 .. Len(ps) + 1,
         NEW j, j = Enter(i, ps)
  PROVE  /\ j \in [pc: {"select", "winner"}, part: 1 .. Len(ps), batch: {0}, ids: {{}}]
         /\ j.pc = "select" =>
               /\ j.part \in i .. Len(ps) /\ i \in 1 .. Len(ps)
               /\ ps[j.part].size > 0
               /\ ps[j.part].offset = ps[i].offset
         /\ j.pc = "winner" =>
               /\ j.part = Len(ps)
               /\ ps[Len(ps)].size <= 0 \/ i = Len(ps) + 1
               /\ i <= Len(ps) => ps[Len(ps)].offset = ps[i].offset
         /\ \A k \in i .. j.part - 1 : ps[k].size = 0
  <1> DEFINE n == Len(ps)
             left == {p \in i .. n : ps[p].size > 0}
  <1>1. /\ n \in Nat \ {0}
        /\ \A m \in 1 .. n : ps[m].offset \in Nat /\ ps[m].size \in Int
        /\ \A m \in 1 .. n - 1 : ps[m].size \in Nat /\ ps[m + 1].offset = ps[m].offset + ps[m].size
    BY PartTypes
  <1>2. i \in 1 .. n + 1
    OBVIOUS
  <1>3. left \in SUBSET (1 .. n) /\ left \in SUBSET Nat
    BY <1>1
  <1>4. CASE left = {}
    <2>1. j = [pc |-> "winner", part |-> n, batch |-> 0, ids |-> {}]
      BY <1>4 DEF Enter
    <2>2. \A k \in i .. n : ps[k].size <= 0
      <3>1. \A k \in i .. n : k \in 1 .. n /\ ~(ps[k].size > 0)
        BY <1>4, <1>1
      <3> HIDE DEF left
      <3> QED
        BY <1>1, <3>1
    <2>3. \A k \in i .. n - 1 : ps[k].size = 0
      <3>1. \A k \in i .. n - 1 : k \in i .. n /\ k \in 1 .. n - 1
        BY <1>1
      <3> QED
        BY <1>1, <2>2, <3>1
    <2>4. ps[n].size <= 0 \/ i = n + 1
      BY <1>1, <1>2, <2>2
    <2>5. i <= n => ps[n].offset = ps[i].offset
      <3> SUFFICES ASSUME i <= n
                   PROVE  ps[n].offset = ps[i].offset
        OBVIOUS
      <3>1. i \in 1 .. n /\ n \in i .. n
        BY <1>1, <1>2
      <3>2. \A k \in i .. n - 1 : ps[k].size <= 0
        BY <2>3
      <3> QED
        BY <3>1, <3>2, OffsetsGrow
    <2>6. n \in 1 .. n
      BY <1>1
    <2> HIDE DEF n
    <2> QED
      BY <2>1, <2>3, <2>4, <2>5, <2>6 DEF n
  <1>5. CASE left # {}
    <2> DEFINE p == Min(left)
    <2>1. j = [pc |-> "select", part |-> p, batch |-> 0, ids |-> {}]
      BY <1>5 DEF Enter
    <2>2. p \in left /\ \A y \in left : p <= y
      BY <1>3, <1>5, MinIsLeast
    <2> HIDE DEF p
    <2>3. p \in i .. n /\ p \in 1 .. n /\ ps[p].size > 0 /\ i \in 1 .. n
      BY <1>1, <2>2
    <2>4. \A k \in i .. p - 1 : ps[k].size = 0
      <3> TAKE k \in i .. p - 1
      <3>1. k \in i .. n /\ k \in 1 .. n - 1 /\ ~(p <= k)
        BY <1>1, <2>3
      <3>2. k \notin left
        BY <2>2, <3>1
      <3>3. ~(ps[k].size > 0) /\ ps[k].size \in Nat
        BY <1>1, <3>1, <3>2
      <3> QED
        BY <3>3
    <2>5. ps[p].offset = ps[i].offset
      <3>1. \A k \in i .. p - 1 : ps[k].size <= 0
        BY <2>4
      <3> QED
        BY <2>3, <3>1, OffsetsGrow
    <2> HIDE DEF n
    <2> QED
      BY <2>1, <2>3, <2>4, <2>5 DEF n
  <1> QED
    BY <1>4, <1>5

\* Cutting a total gives a chain of parts.
LEMMA CutParts ==
  ASSUME NEW total \in Nat, NEW ps \in Variants
  PROVE  /\ Cut(ps, total) \in SplitParts
         /\ Chained(Cut(ps, total), total)
  <1> DEFINE n == Len(ps)
             o == Offsets(ps, total)
             cut == [i \in DOMAIN ps |-> [weight |-> ps[i].weight, offset |-> o[i],
                                          size |-> Share(ps[i].weight, total)]]
             rest == [weight |-> 0, offset |-> o[n + 1], size |-> total - o[n + 1]]
             Part == [weight: Nat, offset: Nat, size: Int]
  <1>1. n \in Nat /\ DOMAIN ps = 1 .. n
    BY DEF Variants, SplitParts
  <1>2. \A i \in 1 .. n : ps[i].weight \in 1 .. 99
    BY <1>1 DEF Variants
  <1>3. /\ o \in [1 .. n + 1 -> Nat] /\ o[1] = 0
        /\ \A i \in 1 .. n : o[i + 1] = o[i] + Share(ps[i].weight, total)
    BY OffsetsAddUp
  <1>4. \A i \in 1 .. n : ps[i].weight \in Nat /\ Share(ps[i].weight, total) \in Nat
    <2>1. \A w \in 1 .. 99 : w \in Nat
      OBVIOUS
    <2>2. \A i \in 1 .. n : ps[i].weight \in Nat
      BY <1>2, <2>1, Zenon
    <2> HIDE DEF n
    <2> QED
      BY <2>2, ShareFloors
  <1>5. Cut(ps, total) = cut \o <<rest>>
    BY DEF Cut
  <1> HIDE DEF o
  <1>6. n + 1 \in 1 .. n + 1 /\ \A i \in 1 .. n : i \in 1 .. n + 1 /\ i + 1 \in 1 .. n + 1
    BY <1>1
  <1>7. rest \in Part
    <2>1. o[n + 1] \in Nat
      BY <1>3, <1>6
    <2> HIDE DEF n
    <2> QED
      BY <2>1
  <1>8. cut \in Seq(Part) /\ Len(cut) = n
    <2> HIDE DEF n
    <2>0. \A i \in 1 .. n : o[i] \in Nat
      BY <1>3, <1>6
    <2>1. \A i \in 1 .. n : ps[i].weight \in Nat /\ o[i] \in Nat /\ Share(ps[i].weight, total) \in Int
      BY <1>4, <2>0
    <2>2. cut \in [1 .. n -> Part]
      BY <1>1, <2>1
    <2> HIDE DEF cut, Part
    <2> QED
      BY <1>1, <2>2
  <1> DEFINE all == Cut(ps, total)
  <1>9. all \in Seq(Part) /\ Len(all) = n + 1
    <2> HIDE DEF cut, rest, n, Part
    <2> QED
      BY <1>5, <1>7, <1>8
  <1>10. all[n + 1] = rest /\ \A i \in 1 .. n : all[i] = cut[i]
    <2> HIDE DEF cut, rest, n, Part
    <2> QED
      BY <1>1, <1>5, <1>7, <1>8
  <1>11. \A i \in 1 .. n :
            cut[i] = [weight |-> ps[i].weight, offset |-> o[i], size |-> Share(ps[i].weight, total)]
    BY <1>1
  <1>12. all[n + 1].weight = 0 /\ all[n + 1].offset = o[n + 1] /\ all[n + 1].size = total - o[n + 1]
    BY <1>10
  <1>13. \A i \in 1 .. n : /\ all[i].weight = ps[i].weight /\ all[i].offset = o[i]
                           /\ all[i].size = Share(ps[i].weight, total)
    <2> HIDE DEF cut, all, n
    <2>1. \A i \in 1 .. n :
             /\ cut[i].weight = ps[i].weight /\ cut[i].offset = o[i]
             /\ cut[i].size = Share(ps[i].weight, total)
      <3> HIDE DEF rest
      <3> TAKE i \in 1 .. n
      <3>1. cut[i] = [weight |-> ps[i].weight, offset |-> o[i], size |-> Share(ps[i].weight, total)]
        BY <1>11
      <3> QED
        BY <3>1
    <2> QED
      BY <1>10, <2>1
  <1>14. all[1].offset = 0
    <2> HIDE DEF all, cut, rest
    <2>1. CASE n = 0
      BY <1>3, <1>12, <2>1
    <2>2. CASE n # 0
      BY <1>1, <1>3, <1>13, <2>2
    <2> QED
      BY <2>1, <2>2
  <1>15. ASSUME NEW i \in 1 .. n
         PROVE  all[i + 1].offset = all[i].offset + all[i].size
    <2> HIDE DEF all, cut, rest
    <2>1. all[i + 1].offset = o[i + 1]
      <3>1. CASE i = n
        BY <1>12, <3>1
      <3>2. CASE i # n
        <4> HIDE DEF n
        <4>1. i + 1 \in 1 .. n
          BY <1>1, <3>2
        <4> QED
          BY <1>13, <4>1
      <3> QED
        BY <3>1, <3>2
    <2> QED
      BY <1>3, <1>13, <2>1
  <1>16. Chained(all, total)
    <2> HIDE DEF all, cut, rest
    <2>1. Len(all) \in Nat \ {0} /\ Len(all) = n + 1 /\ Len(all) - 1 = n
      BY <1>1, <1>9
    <2> HIDE DEF n
    <2>2. \A i \in 1 .. n : all[i].weight \in 1 .. 99
      BY <1>2, <1>13
    <2> QED
      BY <1>12, <1>13, <1>14, <1>15, <2>1, <2>2 DEF Chained
  <1> QED
    BY <1>9, <1>16 DEF SplitParts

-----------------------------------------------------------------------------
(* A contact that comes or goes, and the page at rank o. *)

\* Of the contacts before the page one that comes moves one into it, or is in it.
LEMMA ArrivalShifts ==
  ASSUME NEW A \in SUBSET Nat, IsFiniteSet(A), NEW x \in Nat, x \notin A, NEW o \in Nat
  PROVE  /\ \A c \in A : RankIn(A \cup {x}, c) < o => RankIn(A, c) < o
         /\ \E y : \A c \in A \cup {x} :
               RankIn(A \cup {x}, c) >= o => (c \in A /\ RankIn(A, c) >= o) \/ c = y
  <1> DEFINE Before(c) == RankIn(A, c)
             Now(c) == RankIn(A \cup {x}, c)
  <1>1. \A c \in A : c \in Nat
    OBVIOUS
  <1>2. \A c \in Nat : Before(c) \in Nat /\ Now(c) = Before(c) + (IF x < c THEN 1 ELSE 0)
    BY RanksOrdered, RankAdded
  <1>3. \A c, d \in Nat : c <= d => Before(c) <= Before(d)
    BY RanksOrdered
  <1>4. \A c, d \in A : Before(c) = Before(d) => c = d
    BY RanksDiffer
  <1> DEFINE Moved == {c \in A \cup {x} : Now(c) >= o /\ ~(c \in A /\ Before(c) >= o)}
  <1> HIDE DEF Before, Now
  <1>5. \A c \in A : Now(c) < o => Before(c) < o
    BY <1>1, <1>2
  <1>6. \A c \in Moved : c # x => c \in A /\ x < c /\ Before(c) = o - 1 /\ Before(c) < o
    BY <1>1, <1>2
  <1>7. x \in Moved => Before(x) >= o
    BY <1>2
  <1>8. \A c, d \in Moved : c = d
    <2> TAKE c, d \in Moved
    <2>1. CASE c # x /\ d # x
      BY <1>4, <1>6, <2>1
    <2>2. \A e \in Moved : x \in Moved => e = x
      <3> SUFFICES ASSUME NEW e \in Moved, x \in Moved, e # x
                   PROVE  FALSE
        OBVIOUS
      <3>1. x < e /\ Before(e) < o /\ Before(x) >= o /\ e \in Nat
        BY <1>1, <1>6, <1>7
      <3>2. Before(x) <= Before(e) /\ Before(x) \in Nat /\ Before(e) \in Nat
        BY <1>2, <1>3, <3>1
      <3> QED
        BY <3>1, <3>2
    <2> QED
      BY <2>1, <2>2
  <1>9. \E y : \A c \in A \cup {x} : Now(c) >= o => (c \in A /\ Before(c) >= o) \/ c = y
    <2>1. CASE Moved = {}
      BY <2>1
    <2>2. CASE Moved # {}
      <3>1. PICK y : y \in Moved
        BY <2>2
      <3>2. \A c \in Moved : c = y
        BY <1>8, <3>1
      <3> QED
        BY <3>2
    <2> QED
      BY <2>1, <2>2
  <1> QED
    BY <1>5, <1>9 DEF Before, Now

\* Of the contacts in or past the page one that goes moves one before it, or was it.
LEMMA DepartureShifts ==
  ASSUME NEW A \in SUBSET Nat, IsFiniteSet(A), NEW x \in A, NEW o \in Nat
  PROVE  /\ \A c \in A \ {x} : RankIn(A \ {x}, c) >= o => RankIn(A, c) >= o
         /\ \E y : \A c \in A :
               RankIn(A, c) >= o /\ (c \in A \ {x} => RankIn(A \ {x}, c) < o) => c = y
  <1> DEFINE Before(c) == RankIn(A, c)
             Now(c) == RankIn(A \ {x}, c)
  <1>1. x \in Nat /\ \A c \in A : c \in Nat
    OBVIOUS
  <1>2. \A c \in Nat : Before(c) \in Nat /\ Now(c) = Before(c) - (IF x < c THEN 1 ELSE 0)
    BY RanksOrdered, RankRemoved
  <1>3. \A c \in A, d \in Nat : c < d => Before(c) < Before(d)
    BY RanksOrdered
  <1>4. \A c, d \in A : Before(c) = Before(d) => c = d
    BY RanksDiffer
  <1> DEFINE Moved == {c \in A : Before(c) >= o /\ (c \in A \ {x} => Now(c) < o)}
  <1> HIDE DEF Before, Now
  <1>5. \A c \in A \ {x} : Now(c) >= o => Before(c) >= o
    BY <1>1, <1>2
  <1>6. \A c \in Moved : c # x => x < c /\ Before(c) = o
    BY <1>1, <1>2
  <1>7. \A c, d \in Moved : c = d
    <2> TAKE c, d \in Moved
    <2>1. CASE c # x /\ d # x
      BY <1>4, <1>6, <2>1
    <2>2. \A e \in Moved : x \in Moved => e = x
      <3> SUFFICES ASSUME NEW e \in Moved, x \in Moved, e # x
                   PROVE  FALSE
        OBVIOUS
      <3>1. x < e /\ Before(e) = o /\ Before(x) >= o /\ e \in Nat
        BY <1>1, <1>6
      <3>2. Before(x) < Before(e) /\ Before(x) \in Nat
        BY <1>1, <1>2, <1>3, <3>1
      <3> QED
        BY <3>1, <3>2
    <2> QED
      BY <2>1, <2>2
  <1>8. \E y : \A c \in A : Before(c) >= o /\ (c \in A \ {x} => Now(c) < o) => c = y
    <2>1. CASE Moved = {}
      BY <2>1
    <2>2. CASE Moved # {}
      <3>1. PICK y : y \in Moved
        BY <2>2
      <3>2. \A c \in Moved : c = y
        BY <1>7, <3>1
      <3> QED
        BY <3>2
    <2> QED
      BY <2>1, <2>2
  <1> QED
    BY <1>5, <1>8 DEF Before, Now

-----------------------------------------------------------------------------
(* What the invariant says, in numbers. *)

\* A part of a finite set is not larger than it.
LEMMA Smaller ==
  ASSUME NEW S, IsFiniteSet(S), NEW T, T \subseteq S
  PROVE  IsFiniteSet(T) /\ Cardinality(T) <= Cardinality(S)
         /\ Cardinality(T) \in Nat /\ Cardinality(S) \in Nat
  BY FS_Subset, FS_CardinalityType

\* Audiences are finite sets of numbers, and what is counted of them is a number.
LEMMA SplitSets ==
  ASSUME SplitTypeOK
  PROVE  /\ audience \in SUBSET Nat /\ IsFiniteSet(audience) /\ Cardinality(audience) \in Nat
         /\ IsFiniteSet(counted) /\ Cardinality(counted) \in Nat
         /\ moves \in Nat
         /\ IsFiniteSet(Twice) /\ Cardinality(Twice) \in Nat
         /\ IsFiniteSet(Lost) /\ Cardinality(Lost) \in Nat
         /\ IsFiniteSet(Missed) /\ Cardinality(Missed) \in Nat
         /\ IsFiniteSet(Repeated) /\ Cardinality(Repeated) \in Nat
  <1>1. /\ audience \subseteq Contacts /\ counted \subseteq Contacts
        /\ moves \in 0 .. MaxMoves /\ queued \subseteq [part: Nat, batch: Nat, contact: Contacts]
    BY DEF SplitTypeOK
  <1>2. IsFiniteSet(Contacts) /\ Contacts \subseteq Nat
    BY SplitAssumption
  <1>3. Repeated \subseteq Contacts
    BY DEF Repeated
  <1>4. Twice \subseteq Contacts
    BY <1>1, <1>3 DEF Twice, Taken, QueuedContacts
  <1>5. Lost \subseteq Contacts /\ Missed \subseteq Contacts
    BY <1>1 DEF Lost, Missed
  <1>6. moves \in Nat
    BY <1>1, SplitAssumption
  <1> QED
    BY <1>1, <1>2, <1>3, <1>4, <1>5, <1>6, Smaller

\* While pages are read they lie within the parts, one page to a batch.
LEMMA PageBounds ==
  ASSUME SplitInv, Reading
  PROVE  LET part == parts[job.part]
             next == part.offset + job.batch * BatchSize
         IN  /\ parts \in SplitParts /\ Chained(parts, Cardinality(counted))
             /\ Cardinality(counted) \in Nat
             /\ job.part \in 1 .. Len(parts) /\ job.batch \in Nat
             /\ part.offset \in Nat /\ part.size \in Int /\ part.weight \in Nat
             /\ job.batch * BatchSize \in Nat /\ job.batch * BatchSize < part.size
             /\ Limit(part, job.batch) \in 1 .. BatchSize
             /\ next \in Nat
             /\ NextOffset \in Nat
             /\ NextOffset = next + (IF job.pc = "bulk" THEN Limit(part, job.batch) ELSE 0)
  <1> DEFINE part == parts[job.part]
             done == job.batch * BatchSize
             limit == Limit(part, job.batch)
  <1>1. parts \in SplitParts /\ Chained(parts, Cardinality(counted)) /\ Cardinality(counted) \in Nat
    <2>1. job.pc \in {"select", "bulk", "winner", "done"} /\ SplitTypeOK /\ PartsOK
      BY DEF SplitInv, Reading
    <2>2. Cardinality(counted) \in Nat
      BY <2>1, SplitSets
    <2> QED
      BY <2>1, <2>2 DEF PartsOK, SplitTypeOK, SplitParts
  <1>2. job.part \in 1 .. Len(parts) /\ job.batch \in Nat /\ done < part.size
    BY <1>1, PartTypes DEF SplitInv, SplitTypeOK, Reading
  <1>3. part.offset \in Nat /\ part.size \in Int /\ part.weight \in Nat
    BY <1>1, <1>2, PartTypes
  <1>4. done \in Nat /\ BatchSize \in Nat \ {0}
    BY <1>2, BatchOffsets, SplitAssumption
  <1>5. limit \in 1 .. BatchSize
    <2> HIDE DEF part
    <2>1. limit = IF part.weight > 0 /\ part.size - done < BatchSize
                  THEN part.size - done ELSE BatchSize
      BY DEF Limit
    <2> HIDE DEF limit, done
    <2> QED
      BY <1>2, <1>3, <1>4, <2>1
  <1>6. NextOffset = part.offset + done + (IF job.pc = "bulk" THEN limit ELSE 0)
    BY DEF NextOffset
  <1>7. part.offset + done \in Nat /\ NextOffset \in Nat
    <2> HIDE DEF part, done, limit
    <2> QED
      BY <1>3, <1>4, <1>5, <1>6
  <1> QED
    BY <1>1, <1>2, <1>3, <1>4, <1>5, <1>6, <1>7

-----------------------------------------------------------------------------
(* The steps. *)

\* A contact that comes or goes costs one mail at most.
LEMMA MoveStep ==
  ASSUME SplitInv, NEW x \in Contacts, MoveContact(x)
  PROVE  SplitInv'
  <1> DEFINE A == audience
             B == audience'
             o == NextOffset
  <1>1. /\ Reading /\ job.pc \in {"select", "bulk"} /\ moves < MaxMoves
        /\ moves' = moves + 1
        /\ counted' = counted /\ job' = job /\ parts' = parts /\ queued' = queued
        /\ B = IF x \in A THEN A \ {x} ELSE A \cup {x}
    BY DEF MoveContact, Reading
  <1>2. SplitTypeOK
    BY DEF SplitInv
  <1>3. /\ A \in SUBSET Nat /\ IsFiniteSet(A) /\ Cardinality(A) \in Nat
        /\ moves \in Nat /\ MaxMoves \in Nat /\ x \in Nat
        /\ Cardinality(counted) \in Nat
        /\ IsFiniteSet(Twice) /\ Cardinality(Twice) \in Nat
        /\ IsFiniteSet(Lost) /\ Cardinality(Lost) \in Nat
    BY <1>2, SplitSets, SplitAssumption
  <1>4. o \in Nat
    BY <1>1, PageBounds
  <1>5. B \subseteq Contacts /\ moves' \in 0 .. MaxMoves
    <2>1. A \subseteq Contacts
      BY <1>2 DEF SplitTypeOK
    <2>2. B \subseteq Contacts
      BY <1>1, <2>1
    <2>3. moves' \in 0 .. MaxMoves
      BY <1>1, <1>3
    <2> QED
      BY <2>2, <2>3
  <1>6. SplitTypeOK'
    <2>1. \A i \in {job.part} : parts'[i] = parts[i]
      BY <1>1
    <2> QED
      BY <1>1, <1>2, <1>5 DEF SplitTypeOK
  <1>7. /\ NextOffset' = o /\ Reading' /\ Taken' = Taken /\ Repeated' = Repeated
        /\ QueuedContacts' = QueuedContacts
        /\ job'.ids = job.ids
    BY <1>1 DEF NextOffset, Reading, Taken, QueuedContacts, Repeated, JobsFor, Limit
  <1>8. \A c : Rank(c) = RankIn(A, c) /\ Rank(c)' = RankIn(B, c)
    BY DEF Rank, RankIn
  <1>9. /\ Twice = Repeated \cup (QueuedContacts \cap job.ids)
                     \cup {c \in Taken \cap A : RankIn(A, c) >= o}
        /\ Twice' = Repeated \cup (QueuedContacts \cap job.ids)
                     \cup {c \in Taken \cap B : RankIn(B, c) >= o}
        /\ Lost = {c \in counted \ Taken : c \in A => RankIn(A, c) < o}
        /\ Lost' = {c \in counted \ Taken : c \in B => RankIn(B, c) < o}
    <2>1. Twice = Repeated \cup (QueuedContacts \cap job.ids)
                     \cup {c \in Taken \cap A : RankIn(A, c) >= o}
      BY <1>1, <1>8 DEF Twice
    <2>2. Twice' = Repeated' \cup (QueuedContacts' \cap job'.ids)
                     \cup {c \in Taken' \cap B : Reading' /\ Rank(c)' >= NextOffset'}
      BY DEF Twice
    <2>3. Twice' = Repeated \cup (QueuedContacts \cap job.ids)
                     \cup {c \in Taken \cap B : RankIn(B, c) >= o}
      BY <1>7, <1>8, <2>2
    <2>4. Lost = {c \in counted \ Taken : c \in A => RankIn(A, c) < o}
      BY <1>8 DEF Lost
    <2>5. Lost' = {c \in counted' \ Taken' : c \in B => Rank(c)' < NextOffset'}
      BY DEF Lost
    <2>6. Lost' = {c \in counted \ Taken : c \in B => RankIn(B, c) < o}
      BY <1>1, <1>7, <1>8, <2>5
    <2> QED
      BY <2>1, <2>3, <2>4, <2>6
  <1> DEFINE grown == Cardinality(A) - Cardinality(counted)
  <1>10. /\ grown <= moves /\ - grown <= moves
         /\ moves = 0 => audience = counted
         /\ Cardinality(Twice) <= moves
         /\ 2 * Cardinality(Lost) <= moves - grown
    BY <1>1, <1>3 DEF SplitInv, CountOK, MovesPaid
  <1>11. /\ Cardinality(B) \in Nat
         /\ Cardinality(Twice') <= moves + 1
         /\ 2 * Cardinality(Lost') <= (moves + 1) - (Cardinality(B) - Cardinality(counted))
         /\ Cardinality(B) - Cardinality(A) \in {-1, 1}
    <2>1. CASE x \notin A
      <3>1. B = A \cup {x}
        BY <1>1, <2>1
      <3>2. Cardinality(A \cup {x}) = Cardinality(A) + 1
        BY <1>3, <2>1, FS_AddElement
      <3>3. /\ \A c \in A : RankIn(A \cup {x}, c) < o => RankIn(A, c) < o
            /\ \E y : \A c \in A \cup {x} :
                  RankIn(A \cup {x}, c) >= o => (c \in A /\ RankIn(A, c) >= o) \/ c = y
        BY <1>3, <1>4, <2>1, ArrivalShifts
      <3>4. PICK y : \A c \in A \cup {x} :
                        RankIn(A \cup {x}, c) >= o => (c \in A /\ RankIn(A, c) >= o) \/ c = y
        BY <3>3
      <3>5. Twice' \subseteq Twice \cup {y}
        BY <1>9, <3>1, <3>4
      <3>6. Lost' \subseteq Lost
        BY <1>9, <3>1, <3>3
      <3>7. Cardinality(Twice') <= Cardinality(Twice) + 1 /\ Cardinality(Twice') \in Nat
        BY <1>3, <3>5, OneMore
      <3>8. Cardinality(Lost') <= Cardinality(Lost) /\ Cardinality(Lost') \in Nat
        BY <1>3, <3>6, Smaller
      <3>9. Cardinality(B) = Cardinality(A) + 1
        BY <3>1, <3>2
      <3> HIDE DEF B
      <3> QED
        BY <1>3, <1>10, <3>7, <3>8, <3>9
    <2>2. CASE x \in A
      <3>1. B = A \ {x}
        BY <1>1, <2>2
      <3>2. Cardinality(A \ {x}) = Cardinality(A) - 1 /\ IsFiniteSet(A \ {x})
        BY <1>3, <2>2, FS_RemoveElement
      <3>3. /\ \A c \in A \ {x} : RankIn(A \ {x}, c) >= o => RankIn(A, c) >= o
            /\ \E y : \A c \in A :
                  RankIn(A, c) >= o /\ (c \in A \ {x} => RankIn(A \ {x}, c) < o) => c = y
        BY <1>3, <1>4, <2>2, DepartureShifts
      <3>4. PICK y : \A c \in A :
                        RankIn(A, c) >= o /\ (c \in A \ {x} => RankIn(A \ {x}, c) < o) => c = y
        BY <3>3
      <3>5. Twice' \subseteq Twice
        BY <1>9, <3>1, <3>3
      <3>6. Lost' \subseteq Lost \cup {y}
        <4>1. \A c \in A : RankIn(A, c) < o \/ RankIn(A, c) >= o
          <5>1. \A c \in A : RankIn(A, c) \in Nat
            BY <1>3, RanksOrdered
          <5> QED
            BY <1>4, <5>1
        <4> QED
          BY <1>9, <3>1, <3>4, <4>1
      <3>7. Cardinality(Twice') <= Cardinality(Twice) /\ Cardinality(Twice') \in Nat
        BY <1>3, <3>5, Smaller
      <3>8. Cardinality(Lost') <= Cardinality(Lost) + 1 /\ Cardinality(Lost') \in Nat
        BY <1>3, <3>6, OneMore
      <3>9. Cardinality(B) = Cardinality(A) - 1 /\ Cardinality(B) \in Nat
        BY <3>1, <3>2, FS_CardinalityType
      <3> HIDE DEF B
      <3> QED
        BY <1>3, <1>10, <3>7, <3>8, <3>9
    <2> QED
      BY <2>1, <2>2
  <1> HIDE DEF A, B, o
  <1>12. MovesPaid'
    <2>1. Cardinality(Twice)' <= moves'
      BY <1>1, <1>11
    <2>2. 2 * Cardinality(Lost)' <= moves' + Cardinality(counted)' - Cardinality(audience)'
      BY <1>1, <1>3, <1>11 DEF B
    <2> QED
      BY <1>1, <2>1, <2>2 DEF MovesPaid
  <1>13. CountOK'
    <2>1. /\ Cardinality(audience)' - Cardinality(counted)' <= moves'
          /\ Cardinality(counted)' - Cardinality(audience)' <= moves'
          /\ moves' # 0
      BY <1>1, <1>3, <1>10, <1>11 DEF B, A
    <2> QED
      BY <2>1 DEF CountOK
  <1>14. SharesSent' /\ StartOK' /\ PartsOK' /\ PagesQueued'
    BY <1>1, <1>3 DEF SplitInv, SharesSent, StartOK, PartsOK, PagesQueued
  <1>15. job' \in [pc: SplitPcs, part: Nat, batch: Nat, ids: SUBSET Contacts]
    BY <1>1 DEF SplitInv
  <1> QED
    BY <1>6, <1>12, <1>13, <1>14, <1>15 DEF SplitInv

\* Before the count nobody has a job, so nobody has two.
LEMMA NothingSent ==
  queued = {} /\ job.ids = {} => Cardinality(Twice) = 0
  <1> SUFFICES ASSUME queued = {}, job.ids = {}
               PROVE  Twice = {} /\ Cardinality(Twice) = 0
    OBVIOUS
  <1>1. QueuedContacts = {} /\ \A c : JobsFor(c) = {}
    BY DEF QueuedContacts, JobsFor
  <1>2. Cardinality({}) = 0
    BY FS_EmptySet
  <1>3. \A c : Cardinality(JobsFor(c)) = 0
    BY <1>1, <1>2
  <1>4. Repeated = {}
    BY <1>3 DEF Repeated
  <1>5. Twice = {}
    BY <1>1, <1>4 DEF Twice, Taken
  <1> QED
    BY <1>1, <1>2, <1>4, <1>5

\* A broadcast is loaded with the variants that are stored.
LEMMA LoadStep ==
  ASSUME SplitInv, LoadBroadcast
  PROVE  SplitInv'
  <1>1. /\ job.pc = "load" /\ job' = [job EXCEPT !.pc = "count"]
        /\ audience' = audience /\ counted' = counted /\ moves' = moves /\ queued' = queued
    BY DEF LoadBroadcast
  <1>2. job \in [pc: SplitPcs, part: Nat, batch: Nat, ids: SUBSET Contacts]
    BY DEF SplitInv
  <1>3. /\ job'.pc = "count" /\ job'.ids = job.ids /\ job.ids = {} /\ queued = {} /\ moves = 0
        /\ job' \in [pc: SplitPcs, part: Nat, batch: Nat, ids: SUBSET Contacts]
    BY <1>1, <1>2 DEF SplitInv, StartOK, SplitPcs
  <1>4. parts' \in SplitParts /\ \A i \in DOMAIN parts' : parts'[i].weight \in 1 .. 99
    <2>1. PICK weights \in StoredWeights :
             parts' = [i \in DOMAIN weights |-> [weight |-> weights[i], offset |-> 0, size |-> 0]]
      BY DEF LoadBroadcast
    <2>2. PICK n \in 1 .. MaxVariants : weights \in [1 .. n -> Weights]
      BY DEF StoredWeights
    <2>3. n \in Nat
      BY <2>2, SplitAssumption
    <2>4. \A i \in 1 .. n : weights[i] \in 1 .. 99
      BY <2>2, SplitAssumption
    <2>5. parts' = [i \in 1 .. n |-> [weight |-> weights[i], offset |-> 0, size |-> 0]]
      BY <2>1, <2>2
    <2>6. \A i \in 1 .. n : weights[i] \in Nat
      <3>1. \A w \in 1 .. 99 : w \in Nat
        OBVIOUS
      <3> QED
        BY <2>4, <3>1, Zenon
    <2> DEFINE Part == [weight: Nat, offset: Nat, size: Int]
    <2>7. parts' \in [1 .. n -> Part]
      BY <2>5, <2>6
    <2>8. \A i \in 1 .. n : parts'[i].weight \in 1 .. 99
      BY <2>4, <2>5
    <2>9. DOMAIN parts' = 1 .. n
      BY <2>5
    <2> HIDE DEF Part
    <2>10. parts' \in Seq(Part)
      BY <2>3, <2>7
    <2> QED
      BY <2>8, <2>9, <2>10 DEF SplitParts, Part
  <1>5. SplitTypeOK'
    BY <1>1, <1>3, <1>4 DEF SplitInv, SplitTypeOK, SplitParts
  <1>6. StartOK'
    BY <1>1, <1>3, <1>4 DEF StartOK
  <1>7. PartsOK' /\ CountOK' /\ SharesSent'
    BY <1>3 DEF PartsOK, CountOK, SharesSent
  <1>8. PagesQueued'
    BY <1>1, <1>3 DEF SplitInv, PagesQueued
  <1>9. MovesPaid'
    <2>1. (queued = {} /\ job.ids = {})'
      BY <1>1, <1>3
    <2>2. (Cardinality(Twice) = 0)'
      BY <2>1, NothingSent, PTL
    <2> QED
      BY <1>1, <1>3, <2>2 DEF MovesPaid, Reading
  <1> QED
    BY <1>3, <1>5, <1>6, <1>7, <1>8, <1>9 DEF SplitInv

\* The contacts are counted and the audience is cut; nothing was read yet.
LEMMA CountStep ==
  ASSUME SplitInv, CountContacts
  PROVE  SplitInv'
  <1> DEFINE total == Cardinality(audience)
             ps == parts'
             n == Len(parts')
             j == job'
  <1>1. /\ job.pc = "count"
        /\ parts' = Cut(parts, total) /\ j = Enter(1, ps)
        /\ counted' = audience /\ audience' = audience /\ moves' = moves /\ queued' = queued
    BY DEF CountContacts
  <1>2. SplitTypeOK /\ moves = 0 /\ queued = {}
        /\ \A i \in DOMAIN parts : parts[i].weight \in 1 .. 99
    BY <1>1 DEF SplitInv, StartOK
  <1>3. total \in Nat /\ audience \subseteq Contacts /\ IsFiniteSet(audience)
    BY <1>2, SplitSets DEF SplitTypeOK
  <1>4. ps \in SplitParts /\ Chained(ps, total)
    <2>1. parts \in Variants
      BY <1>2 DEF Variants, SplitParts, SplitTypeOK
    <2>2. Cut(parts, total) \in SplitParts /\ Chained(Cut(parts, total), total)
      BY <1>3, <2>1, CutParts
    <2> HIDE DEF total
    <2> QED
      BY <1>1, <2>2
  <1> HIDE DEF ps, total
  <1>5. /\ DOMAIN ps = 1 .. n /\ n \in Nat \ {0}
        /\ \A i \in 1 .. n : ps[i].weight \in Nat /\ ps[i].offset \in Nat /\ ps[i].size \in Int
    BY <1>3, <1>4, PartTypes DEF ps
  <1> HIDE DEF n, j
  <1>6. /\ j \in [pc: {"select", "winner"}, part: 1 .. n, batch: {0}, ids: {{}}]
        /\ j.pc = "select" => ps[j.part].size > 0 /\ ps[j.part].offset = ps[1].offset
        /\ j.pc = "winner" => /\ j.part = n
                              /\ ps[n].size <= 0
                              /\ ps[n].offset = ps[1].offset
        /\ \A k \in 1 .. j.part - 1 : ps[k].size = 0
    <2>1. 1 \in 1 .. n + 1 /\ 1 # n + 1 /\ 1 <= n
      BY <1>5
    <2>2. 1 \in 1 .. Len(ps) + 1 /\ 1 # Len(ps) + 1 /\ 1 <= Len(ps)
      BY <2>1 DEF n, ps
    <2> QED
      BY <1>1, <1>3, <1>4, <2>2, EnterParts DEF n, ps
  <1>7. ps[1].offset = 0 /\ ps[n].size = total - ps[n].offset /\ ps[n].weight = 0
    BY <1>4 DEF Chained, n, ps
  <1>8. /\ j.pc \in {"select", "winner"} /\ j.part \in 1 .. n /\ j.batch = 0 /\ j.ids = {}
        /\ j \in [pc: SplitPcs, part: Nat, batch: Nat, ids: SUBSET Contacts]
    BY <1>5, <1>6 DEF SplitPcs
  <1>9. j.batch * BatchSize = 0
    BY <1>8, SplitAssumption
  <1>10. SplitTypeOK'
    <2>1. j.pc = "select" => j.batch * BatchSize < ps[j.part].size
      BY <1>6, <1>9
    <2>2. Cardinality(j.ids) <= BatchSize
      BY <1>8, FS_EmptySet, SplitAssumption
    <2>3. audience' \subseteq Contacts /\ counted' \subseteq Contacts
      BY <1>1, <1>3
    <2> QED
      BY <1>1, <1>2, <1>4, <1>5, <1>8, <2>1, <2>2, <2>3 DEF SplitTypeOK, SplitParts, j, ps
  <1>11. StartOK' /\ PagesQueued'
    BY <1>1, <1>2, <1>6, <1>8 DEF StartOK, PagesQueued, SplitInv, j, n
  <1>12. PartsOK'
    BY <1>1, <1>4 DEF PartsOK, ps, total
  <1>13. CountOK'
    BY <1>1, <1>2, <1>3 DEF CountOK, total
  <1>14. SharesSent'
    <2>1. \A i \in 1 .. n - 1 : i < j.part => ps[i].size = 0
      <3> TAKE i \in 1 .. n - 1
      <3>1. i < j.part => i \in 1 .. j.part - 1
        BY <1>5, <1>8
      <3> QED
        BY <1>6, <3>1
    <2>2. \A i : SentTo(i)' = {} /\ Cardinality(SentTo(i)') = 0
      BY <1>1, <1>2, FS_EmptySet DEF SentTo
    <2> QED
      BY <1>8, <1>9, <2>1, <2>2 DEF SharesSent, j, n, ps
  <1>15. MovesPaid'
    <2>1. (queued = {} /\ job.ids = {})'
      BY <1>1, <1>2, <1>8 DEF j
    <2>2. (Cardinality(Twice) = 0)'
      BY <2>1, NothingSent, PTL
    <2>3. ASSUME Reading'
          PROVE  Cardinality(Lost') = 0
      <3>1. j.pc = "select"
        BY <1>8, <2>3 DEF Reading, j
      <3>2. NextOffset' = ps[j.part].offset + j.batch * BatchSize + 0
        BY <3>1 DEF NextOffset, j, ps
      <3>3. NextOffset' = 0
        BY <1>6, <1>7, <1>9, <3>1, <3>2
      <3>4. \A c \in audience : RankIn(audience, c) \in Nat
        <4>1. audience \in SUBSET Nat
          BY <1>2, SplitSets
        <4> QED
          BY <1>3, <4>1, RanksOrdered
      <3>5. \A c \in audience : ~(RankIn(audience, c) < 0)
        BY <3>4
      <3>6. \A c : Rank(c)' = RankIn(audience, c)
        BY <1>1 DEF Rank, RankIn
      <3>7. Lost' = {}
        BY <1>1, <3>3, <3>5, <3>6 DEF Lost
      <3> QED
        BY <3>7, FS_EmptySet
    <2>4. ASSUME j.pc = "winner"
          PROVE  Cardinality(Missed') = 0
      <3>1. total = 0
        BY <1>3, <1>5, <1>6, <1>7, <2>4
      <3>2. audience = {}
        BY <1>3, <3>1, FS_EmptySet DEF total
      <3>3. Missed' = {}
        BY <1>1, <3>2 DEF Missed
      <3> QED
        BY <3>3, FS_EmptySet
    <2>5. /\ Cardinality(Twice') <= moves'
          /\ Reading' => 2 * Cardinality(Lost') <= moves' + Cardinality(counted') - Cardinality(audience')
          /\ job'.pc \in {"winner", "done"} => Cardinality(Missed') <= moves'
      <3>1. moves' = 0 /\ counted' = audience /\ audience' = audience /\ Cardinality(audience) \in Nat
        BY <1>1, <1>2, <1>3 DEF total
      <3> QED
        BY <1>8, <2>2, <2>3, <2>4, <3>1 DEF j
    <2> QED
      BY <2>5 DEF MovesPaid
  <1> QED
    BY <1>8, <1>10, <1>11, <1>12, <1>13, <1>14, <1>15 DEF SplitInv, j

\* A page is read: the contacts of the next ranks, as the audience stands.
LEMMA SelectStep ==
  ASSUME SplitInv, SelectPage
  PROVE  SplitInv'
  <1> DEFINE part == parts[job.part]
             limit == Limit(part, job.batch)
             next == part.offset + job.batch * BatchSize
             page == Page(next, limit)
  <1>1. /\ job.pc = "select" /\ job' = [job EXCEPT !.pc = "bulk", !.ids = page]
        /\ audience' = audience /\ counted' = counted /\ moves' = moves
        /\ parts' = parts /\ queued' = queued
    BY DEF SelectPage
  <1>2. /\ SplitTypeOK /\ job \in [pc: SplitPcs, part: Nat, batch: Nat, ids: SUBSET Contacts]
        /\ job.ids = {} /\ Reading
    BY <1>1 DEF SplitInv, StartOK, Reading
  <1>3. /\ parts \in SplitParts /\ Chained(parts, Cardinality(counted))
        /\ job.part \in 1 .. Len(parts) /\ job.batch \in Nat
        /\ part.offset \in Nat /\ part.size \in Int /\ part.weight \in Nat
        /\ job.batch * BatchSize \in Nat /\ job.batch * BatchSize < part.size
        /\ limit \in 1 .. BatchSize /\ next \in Nat /\ NextOffset = next + 0
    BY <1>1, <1>2, PageBounds
  <1>4. BatchSize \in Nat \ {0} /\ limit \in Nat
    BY <1>3, SplitAssumption
  <1>5. /\ audience \in SUBSET Nat /\ IsFiniteSet(audience) /\ Cardinality(audience) \in Nat
        /\ audience \subseteq Contacts /\ moves \in Nat
        /\ Cardinality(counted) \in Nat
        /\ IsFiniteSet(Twice) /\ Cardinality(Twice) \in Nat
        /\ IsFiniteSet(Lost) /\ Cardinality(Lost) \in Nat
    BY <1>2, SplitSets DEF SplitTypeOK
  <1>6. page = {c \in audience : next <= RankIn(audience, c) /\ RankIn(audience, c) < next + limit}
    BY DEF Page, Rank, RankIn
  <1>7. NextOffset' = next + limit
    <2>1. job'.pc = "bulk" /\ job'.part = job.part /\ job'.batch = job.batch
      BY <1>1, <1>2
    <2> QED
      BY <1>1, <2>1 DEF NextOffset, Limit
  <1>8. page \subseteq Contacts
    BY <1>5, <1>6
  <1> HIDE DEF limit, next, page
  <1>9. /\ job'.pc = "bulk" /\ job'.part = job.part /\ job'.batch = job.batch /\ job'.ids = page
        /\ job' \in [pc: SplitPcs, part: Nat, batch: Nat, ids: SUBSET Contacts]
    BY <1>1, <1>2, <1>8 DEF SplitPcs
  <1>10. /\ IsFiniteSet(page) /\ Cardinality(page) <= limit
         /\ next + limit <= Cardinality(audience) => Cardinality(page) = limit
    <2>1. next \in Nat /\ limit \in Nat
      BY <1>3, <1>4
    <2>2. audience \in SUBSET Nat /\ IsFiniteSet(audience)
      BY <1>5
    <2> QED
      BY <1>6, <2>1, <2>2, RangeHolds
  <1>11. SplitTypeOK'
    <2>1. Cardinality(page) <= BatchSize
      <3>1. Cardinality(page) \in Nat
        BY <1>10, FS_CardinalityType
      <3> QED
        BY <1>3, <1>4, <1>10, <3>1
    <2> QED
      BY <1>1, <1>2, <1>8, <1>9, <2>1 DEF SplitTypeOK
  <1>12. StartOK' /\ PartsOK' /\ CountOK' /\ PagesQueued'
    BY <1>1, <1>2, <1>9 DEF SplitInv, StartOK, PartsOK, CountOK, PagesQueued
  <1>13. MovesPaid'
    <2>1. \A c \in audience : RankIn(audience, c) \in Nat
      BY <1>5, RanksOrdered
    <2>2. \A c : Rank(c) = RankIn(audience, c) /\ Rank(c)' = RankIn(audience, c)
      BY <1>1 DEF Rank, RankIn
    <2>3. /\ Repeated' = Repeated /\ QueuedContacts' = QueuedContacts
          /\ Taken = QueuedContacts /\ Taken' = QueuedContacts \cup page
          /\ Reading' /\ Missed' = Missed
      BY <1>1, <1>2, <1>9 DEF Repeated, JobsFor, QueuedContacts, Taken, Reading, Missed
    <2>4. NextOffset = next
      BY <1>3
    <2>5. \A c \in audience : /\ RankIn(audience, c) >= next + limit => RankIn(audience, c) >= next
                              /\ c \in page => ~(RankIn(audience, c) >= next + limit)
                                               /\ RankIn(audience, c) >= next
                              /\ RankIn(audience, c) < next + limit
                                   => RankIn(audience, c) < next \/ c \in page
      BY <1>3, <1>4, <1>6, <2>1
    <2>6. Twice' \subseteq Twice
      <3>1. Twice' = Repeated' \cup (QueuedContacts' \cap job'.ids)
                       \cup {c \in Taken' \cap audience' : Reading' /\ Rank(c)' >= NextOffset'}
        BY DEF Twice
      <3>2. Twice' = Repeated \cup (QueuedContacts \cap page)
                       \cup {c \in (QueuedContacts \cup page) \cap audience :
                               RankIn(audience, c) >= next + limit}
        BY <1>1, <1>7, <1>9, <2>2, <2>3, <3>1
      <3>3. {c \in QueuedContacts \cap audience : RankIn(audience, c) >= next} \subseteq Twice
        BY <1>2, <2>2, <2>3, <2>4 DEF Twice
      <3>4. Repeated \subseteq Twice
        BY DEF Twice
      <3>5. page \subseteq audience
        BY <1>6
      <3> QED
        BY <2>5, <3>2, <3>3, <3>4, <3>5
    <2>7. Lost' \subseteq Lost
      <3>1. Lost' = {c \in counted' \ Taken' : c \in audience' => Rank(c)' < NextOffset'}
        BY DEF Lost
      <3>2. Lost' = {c \in counted \ (QueuedContacts \cup page) :
                       c \in audience => RankIn(audience, c) < next + limit}
        BY <1>1, <1>7, <2>2, <2>3, <3>1
      <3>3. Lost = {c \in counted \ QueuedContacts : c \in audience => RankIn(audience, c) < next}
        BY <2>2, <2>3, <2>4 DEF Lost
      <3> QED
        BY <2>5, <3>2, <3>3
    <2>8. /\ Cardinality(Twice') <= Cardinality(Twice) /\ Cardinality(Twice') \in Nat
          /\ Cardinality(Lost') <= Cardinality(Lost) /\ Cardinality(Lost') \in Nat
      BY <1>5, <2>6, <2>7, Smaller
    <2>9. /\ Cardinality(Twice) <= moves
          /\ 2 * Cardinality(Lost) <= moves + Cardinality(counted) - Cardinality(audience)
      BY <1>2 DEF SplitInv, MovesPaid
    <2>10. /\ Cardinality(Twice') <= moves
           /\ 2 * Cardinality(Lost') <= moves + Cardinality(counted) - Cardinality(audience)
      BY <1>5, <2>8, <2>9
    <2> QED
      BY <1>1, <1>9, <2>10 DEF MovesPaid
  <1>14. SharesSent'
    <2> SUFFICES ASSUME moves = 0, parts[Len(parts)].size >= 0
                 PROVE  /\ \A i \in 1 .. Len(parts) - 1 :
                             Cardinality(SentTo(i)) = IF i < job.part THEN parts[i].size
                                      ELSE IF i = job.part THEN job.batch * BatchSize ELSE 0
                        /\ job.part < Len(parts) => Cardinality(page) = limit
      <3>1. \A i : SentTo(i)' = SentTo(i)
        BY <1>1 DEF SentTo
      <3>2. limit = Limit(parts[job.part], job.batch) /\ limit = Limit(parts[job.part], job.batch)'
        BY <1>1, <1>9 DEF limit, Limit
      <3> QED
        BY <1>1, <1>9, <3>1, <3>2 DEF SharesSent
    <2>1. \A i \in 1 .. Len(parts) - 1 :
             Cardinality(SentTo(i)) = IF i < job.part THEN parts[i].size
                                      ELSE IF i = job.part THEN job.batch * BatchSize ELSE 0
      BY <1>1 DEF SplitInv, SharesSent
    <2>2. ASSUME job.part < Len(parts)
          PROVE  Cardinality(page) = limit
      <3> DEFINE p == job.part
                 n == Len(parts)
                 total == Cardinality(counted)
                 batched == job.batch * BatchSize
      <3>1. /\ n \in Nat \ {0} /\ p \in 1 .. n - 1 /\ p + 1 \in 1 .. n /\ n \in p + 1 .. n
        BY <1>3, <2>2, PartTypes
      <3>2. /\ parts[p].weight > 0 /\ parts[p + 1].offset = parts[p].offset + parts[p].size
            /\ parts[n].offset \in Nat /\ parts[p + 1].offset \in Nat
        <4>1. n \in 1 .. n
          BY <3>1
        <4>2. /\ \A i \in 1 .. n : parts[i].offset \in Nat
              /\ \A i \in 1 .. n - 1 :
                    parts[i].weight > 0 /\ parts[i + 1].offset = parts[i].offset + parts[i].size
          BY <1>3, <1>5, PartTypes
        <4> HIDE DEF n, p
        <4> QED
          BY <3>1, <4>1, <4>2
      <3>3. parts[p + 1].offset <= parts[n].offset
        BY <1>3, <1>5, <3>1, OffsetsGrow
      <3>4. parts[n].offset <= total
        <4>1. parts[n].size = total - parts[n].offset /\ parts[n].size >= 0
          BY <1>3 DEF Chained
        <4> QED
          BY <1>5, <3>2, <4>1
      <3>5. limit <= part.size - batched
        <4>1. limit = IF part.weight > 0 /\ part.size - batched < BatchSize
                      THEN part.size - batched ELSE BatchSize
          BY DEF limit, Limit
        <4> HIDE DEF batched
        <4> QED
          BY <1>3, <1>4, <3>2, <4>1 DEF batched
      <3>6. next = part.offset + batched
        BY DEF next
      <3>7. next + limit <= Cardinality(audience)
        <4>1. audience = counted
          BY <1>2, <1>1 DEF SplitInv, CountOK
        <4>2. part.offset \in Nat /\ part.size \in Int /\ batched \in Nat /\ total \in Nat
          BY <1>3, <1>5
        <4>3. parts[p + 1].offset = part.offset + part.size
          BY <3>2
        <4>4. /\ parts[p + 1].offset \in Nat /\ parts[n].offset \in Nat
              /\ Cardinality(audience) = total
          BY <3>2, <4>1
        <4> HIDE DEF part, n, p, batched, total
        <4>5. part.offset + part.size <= total
          BY <3>3, <3>4, <4>2, <4>3, <4>4
        <4>6. part.offset + batched + limit <= total
          BY <1>4, <3>5, <4>2, <4>5
        <4> QED
          BY <3>6, <4>4, <4>6, Zenon
      <3> QED
        BY <1>10, <3>7
    <2> QED
      BY <2>1, <2>2
  <1> QED
    BY <1>9, <1>11, <1>12, <1>13, <1>14 DEF SplitInv

\* After a page comes the next one, where that page ends, in this part or a later one;
\* when there is none, the pages reached the end of what was counted.
LEMMA NextPage ==
  ASSUME SplitInv, AddPage
  PROVE  LET p     == job.part
             limit == Limit(parts[p], job.batch)
             n     == Len(parts)
         IN  /\ job' \in [pc: SplitPcs, part: Nat, batch: Nat, ids: SUBSET Contacts]
             /\ job'.pc \in {"select", "winner"} /\ job'.ids = {} /\ job'.part \in 1 .. n
             /\ job'.pc = "select" =>
                   job'.batch * BatchSize < parts[job'.part].size /\ NextOffset' = NextOffset
             /\ job'.pc = "winner" => job'.part = n /\ NextOffset >= Cardinality(counted)
             /\ \/ /\ job'.pc = "select" /\ job'.part = p /\ job'.batch = job.batch + 1
                   /\ job'.batch * BatchSize = job.batch * BatchSize + limit
                \/ /\ job'.batch = 0
                   /\ job'.pc = "select" => job'.part > p
                   /\ p < n => /\ job'.part > p
                               /\ job.batch * BatchSize + limit = parts[p].size
                   /\ \A k \in p + 1 .. job'.part - 1 : parts[k].size = 0
  <1> DEFINE p == job.part
             part == parts[p]
             n == Len(parts)
             limit == Limit(part, job.batch)
             batched == job.batch * BatchSize
             total == Cardinality(counted)
  <1>1. /\ job.pc = "bulk" /\ parts' = parts /\ Reading
        /\ job' = IF HasMore(part, job.batch)
                  THEN [job EXCEPT !.pc = "select", !.batch = @ + 1, !.ids = {}]
                  ELSE Enter(p + 1, parts)
    BY DEF AddPage, Reading
  <1>2. job \in [pc: SplitPcs, part: Nat, batch: Nat, ids: SUBSET Contacts]
    BY DEF SplitInv
  <1>3. /\ parts \in SplitParts /\ Chained(parts, total) /\ total \in Nat
        /\ p \in 1 .. n /\ job.batch \in Nat
        /\ part.offset \in Nat /\ part.size \in Int /\ part.weight \in Nat
        /\ batched \in Nat /\ batched < part.size
        /\ limit \in 1 .. BatchSize
        /\ NextOffset = part.offset + batched + limit
    BY <1>1, PageBounds
  <1>4. /\ n \in Nat \ {0}
        /\ \A i \in 1 .. n : parts[i].offset \in Nat /\ parts[i].size \in Int
        /\ \A i \in 1 .. n - 1 :
              parts[i].weight > 0 /\ parts[i + 1].offset = parts[i].offset + parts[i].size
    BY <1>3, PartTypes
  <1>5. parts[n].weight = 0 /\ parts[n].size = total - parts[n].offset
    BY <1>3 DEF Chained
  <1>6. (job.batch + 1) * BatchSize = batched + BatchSize /\ BatchSize \in Nat \ {0}
    BY <1>3, BatchOffsets, SplitAssumption
  <1>7. limit = IF part.weight > 0 /\ part.size - batched < BatchSize
                THEN part.size - batched ELSE BatchSize
    BY DEF Limit
  <1>8. HasMore(part, job.batch) <=> batched + BatchSize < part.size
    BY <1>6 DEF HasMore
  <1> HIDE DEF limit, part, n, batched, total
  <1>9. limit \in Nat /\ p \in Nat
    BY <1>2, <1>3, <1>6
  <1>10. CASE HasMore(part, job.batch)
    <2>1. batched + BatchSize < part.size
      BY <1>8, <1>10
    <2>2. limit = BatchSize
      <3>1. ~(part.size - batched < BatchSize)
        BY <1>3, <1>6, <2>1
      <3> QED
        BY <1>7, <3>1
    <2>3. job' = [job EXCEPT !.pc = "select", !.batch = @ + 1, !.ids = {}]
      BY <1>1, <1>10
    <2>4. /\ job'.pc = "select" /\ job'.part = p /\ job'.batch = job.batch + 1 /\ job'.ids = {}
          /\ job' \in [pc: SplitPcs, part: Nat, batch: Nat, ids: SUBSET Contacts]
      <3>1. job.batch + 1 \in Nat /\ "select" \in SplitPcs /\ {} \in SUBSET Contacts
        BY <1>3 DEF SplitPcs
      <3> QED
        BY <1>2, <2>3, <3>1
    <2>5. job'.batch * BatchSize = batched + BatchSize
      BY <1>6, <2>4
    <2>6. NextOffset' = part.offset + job'.batch * BatchSize + 0
      BY <1>1, <2>4 DEF NextOffset, part
    <2>7. NextOffset' = NextOffset
      BY <1>3, <1>6, <2>2, <2>5, <2>6
    <2> HIDE DEF p
    <2> QED
      BY <1>3, <2>1, <2>2, <2>4, <2>5, <2>7 DEF limit, part, n, batched, p
  <1>11. CASE ~HasMore(part, job.batch)
    <2>1. batched + BatchSize >= part.size
      BY <1>3, <1>6, <1>8, <1>11
    <2>2. job' = Enter(p + 1, parts)
      BY <1>1, <1>11
    <2>3. p + 1 \in 1 .. n + 1 /\ (p < n <=> p + 1 # n + 1)
      BY <1>3, <1>4
    <2>4. p + 1 \in 1 .. Len(parts) + 1
      BY <2>3 DEF n
    <2> DEFINE j == job'
    <2>5. /\ j \in [pc: {"select", "winner"}, part: 1 .. n, batch: {0}, ids: {{}}]
          /\ j.pc = "select" =>
                /\ j.part \in p + 1 .. n /\ p + 1 \in 1 .. n
                /\ parts[j.part].size > 0
                /\ parts[j.part].offset = parts[p + 1].offset
          /\ j.pc = "winner" =>
                /\ j.part = n
                /\ parts[n].size <= 0 \/ p + 1 = n + 1
                /\ p + 1 <= n => parts[n].offset = parts[p + 1].offset
          /\ \A k \in p + 1 .. j.part - 1 : parts[k].size = 0
      <3>1. parts \in SplitParts /\ Chained(parts, total) /\ total \in Nat
        BY <1>3
      <3> HIDE DEF p
      <3> QED
        BY <2>2, <2>4, <3>1, EnterParts DEF n
    <2>6. ASSUME p < n
          PROVE  /\ batched + limit = part.size
                 /\ parts[p + 1].offset = NextOffset
                 /\ p + 1 \in 1 .. n
      <3>1. p \in 1 .. n - 1 /\ p + 1 \in 1 .. n
        BY <1>3, <1>4, <2>6
      <3>2. part.weight > 0 /\ parts[p + 1].offset = part.offset + part.size
        BY <1>4, <3>1 DEF part
      <3>3. part.size - batched < BatchSize \/ part.size - batched = BatchSize
        <4>1. part.size \in Int /\ batched \in Nat /\ BatchSize \in Nat
          BY <1>3, <1>6
        <4> QED
          BY <2>1, <4>1
      <3>4. batched + limit = part.size
        BY <1>3, <1>6, <1>7, <3>2, <3>3
      <3>5. part.offset + batched + limit = part.offset + part.size
        BY <1>3, <1>9, <3>4
      <3> QED
        BY <1>3, <3>1, <3>2, <3>4, <3>5
    <2>7. j.pc = "select" => j.batch * BatchSize < parts[j.part].size /\ NextOffset' = NextOffset
      <3> SUFFICES ASSUME j.pc = "select"
                   PROVE  j.batch * BatchSize < parts[j.part].size /\ NextOffset' = NextOffset
        OBVIOUS
      <3>1. j.batch * BatchSize = 0
        BY <1>6, <2>5
      <3>2. p + 1 \in 1 .. n /\ j.part \in 1 .. n
        BY <2>5
      <3>3. p < n
        BY <1>3, <1>4, <3>2
      <3>4. parts[j.part].offset = NextOffset
        BY <2>5, <2>6, <3>3
      <3>5. NextOffset' = parts[j.part].offset + j.batch * BatchSize + 0
        BY <1>1 DEF NextOffset
      <3>6. NextOffset \in Nat
        BY <1>3, <1>9
      <3> QED
        BY <2>5, <3>1, <3>4, <3>5, <3>6
    <2>8. j.pc = "winner" => j.part = n /\ NextOffset >= total
      <3> SUFFICES ASSUME j.pc = "winner"
                   PROVE  j.part = n /\ NextOffset >= total
        OBVIOUS
      <3>1. CASE p < n
        <4>1. parts[n].size <= 0 /\ parts[n].offset = NextOffset
          BY <1>3, <1>4, <2>3, <2>5, <2>6, <3>1
        <4>2. NextOffset \in Nat
          BY <1>3, <1>9
        <4> QED
          BY <1>3, <1>5, <2>5, <4>1, <4>2
      <3>2. CASE ~(p < n)
        <4>1. p = n
          BY <1>3, <1>4, <3>2
        <4>2. part.weight = 0 /\ part.size = total - part.offset
          BY <1>5, <4>1 DEF part
        <4>3. limit = BatchSize
          BY <1>7, <4>2
        <4>4. part.offset + batched + BatchSize >= total
          BY <1>3, <1>6, <2>1, <4>2
        <4> QED
          BY <1>3, <2>5, <4>3, <4>4
      <3> QED
        BY <3>1, <3>2
    <2>9. (j.pc = "select" => j.part > p) /\ (p < n => j.part > p)
      <3>1. j.pc \in {"select", "winner"}
        BY <2>5
      <3>2. j.pc = "select" => j.part > p
        BY <1>3, <1>4, <2>5
      <3>3. j.pc = "winner" => j.part = n
        BY <2>5
      <3> QED
        BY <1>3, <1>4, <3>1, <3>2, <3>3
    <2>10. /\ j \in [pc: SplitPcs, part: Nat, batch: Nat, ids: SUBSET Contacts]
           /\ j.pc \in {"select", "winner"} /\ j.part \in 1 .. n /\ j.batch = 0 /\ j.ids = {}
      <3>1. \A k \in 1 .. n : k \in Nat
        BY <1>4
      <3> QED
        BY <2>5, <3>1 DEF SplitPcs
    <2> HIDE DEF p
    <2> QED
      BY <2>5, <2>6, <2>7, <2>8, <2>9, <2>10 DEF limit, part, n, batched, p, total
  <1> QED
    BY <1>10, <1>11

\* The jobs of a page go to its contacts, none of which had one for this batch.
LEMMA PageJobs ==
  ASSUME SplitInv, AddPage
  PROVE  LET new == [part: {job.part}, batch: {job.batch}, contact: job.ids]
         IN  /\ queued' = queued \cup new
             /\ queued \cap new = {}
             /\ IsFiniteSet(new) /\ Cardinality(new) = Cardinality(job.ids)
             /\ QueuedContacts' = Taken
             /\ Repeated' \subseteq Repeated \cup (QueuedContacts \cap job.ids)
  <1> DEFINE new == [part: {job.part}, batch: {job.batch}, contact: job.ids]
             job1(c) == [part |-> job.part, batch |-> job.batch, contact |-> c]
  <1>1. job.pc = "bulk" /\ queued' = queued \cup new
    BY DEF AddPage
  <1>2. /\ job \in [pc: SplitPcs, part: Nat, batch: Nat, ids: SUBSET Contacts]
        /\ queued \subseteq [part: Nat, batch: Nat, contact: Contacts]
        /\ IsFiniteSet(Contacts)
    BY SplitAssumption DEF SplitInv, SplitTypeOK
  <1>3. \A q : q \in new <=> \E c \in job.ids : q = job1(c)
    OBVIOUS
  <1>4. \A q \in new : q.part = job.part /\ q.batch = job.batch /\ q.contact \in job.ids
    OBVIOUS
  <1>5. queued \cap new = {}
    <2> SUFFICES ASSUME NEW q \in queued, q \in new
                 PROVE  FALSE
      OBVIOUS
    <2>1. q.part < job.part \/ (q.part = job.part /\ q.batch < job.batch)
      BY <1>1 DEF SplitInv, PagesQueued
    <2>2. q.part = job.part /\ q.batch = job.batch
      BY <1>4
    <2>3. job.part \in Nat /\ job.batch \in Nat
      BY <1>2
    <2> QED
      BY <2>1, <2>2, <2>3
  <1>6. IsFiniteSet(new) /\ Cardinality(new) = Cardinality(job.ids)
    <2>1. IsFiniteSet(job.ids)
      BY <1>2, FS_Subset
    <2> DEFINE of == [c \in job.ids |-> job1(c)]
    <2>2. of \in [job.ids -> new]
      BY <1>3
    <2>3. \A c, d \in job.ids : of[c] = of[d] => c = d
      OBVIOUS
    <2>4. \A q \in new : \E c \in job.ids : of[c] = q
      BY <1>3
    <2> HIDE DEF of, new
    <2>5. of \in Bijection(job.ids, new)
      BY <2>2, <2>3, <2>4 DEF Bijection, Injection, Surjection, IsInjective
    <2>6. ExistsBijection(job.ids, new)
      BY <2>5 DEF ExistsBijection
    <2> QED
      BY <2>1, <2>6, FS_Bijection
  <1> HIDE DEF new
  <1>7. QueuedContacts' = Taken
    <2>1. QueuedContacts' = {q.contact : q \in queued'}
      BY DEF QueuedContacts
    <2>2. \A c \in job.ids : job1(c) \in new /\ job1(c).contact = c
      BY <1>3
    <2> QED
      BY <1>1, <1>4, <2>1, <2>2 DEF Taken, QueuedContacts
  <1>8. Repeated' \subseteq Repeated \cup (QueuedContacts \cap job.ids)
    <2> SUFFICES ASSUME NEW c \in Contacts, Cardinality(JobsFor(c)') > 1,
                        c \notin Repeated
                 PROVE  c \in QueuedContacts \cap job.ids
      BY DEF Repeated
    <2>1. JobsFor(c)' = JobsFor(c) \cup {q \in new : q.contact = c}
      BY <1>1 DEF JobsFor
    <2>2. ~(Cardinality(JobsFor(c)) > 1)
      BY DEF Repeated
    <2>3. c \in job.ids
      <3> SUFFICES ASSUME c \notin job.ids
                   PROVE  FALSE
        OBVIOUS
      <3>1. JobsFor(c)' = JobsFor(c)
        BY <1>4, <2>1
      <3> QED
        BY <2>2, <3>1
    <2>4. c \in QueuedContacts
      <3> SUFFICES ASSUME c \notin QueuedContacts
                   PROVE  FALSE
        OBVIOUS
      <3>1. JobsFor(c) = {}
        BY DEF JobsFor, QueuedContacts
      <3>2. {q \in new : q.contact = c} = {job1(c)}
        BY <1>3, <2>3
      <3>3. JobsFor(c)' = {job1(c)}
        BY <2>1, <3>1, <3>2
      <3>4. Cardinality({job1(c)}) = 1
        BY FS_Singleton
      <3>5. Cardinality(JobsFor(c)') = 1
        BY <3>3, <3>4
      <3> QED
        BY <3>5
    <2> QED
      BY <2>3, <2>4
  <1> QED
    BY <1>1, <1>5, <1>6, <1>7, <1>8 DEF new

\* A page is queued.
LEMMA AddStep ==
  ASSUME SplitInv, AddPage
  PROVE  SplitInv'
  <1> DEFINE p == job.part
             n == Len(parts)
             limit == Limit(parts[p], job.batch)
             new == [part: {p}, batch: {job.batch}, contact: job.ids]
             A == audience
             C == counted
             o == NextOffset
             Row == [pc: SplitPcs, part: Nat, batch: Nat, ids: SUBSET Contacts]
  <1>1. /\ job.pc = "bulk" /\ Reading /\ parts' = parts
        /\ audience' = A /\ counted' = C /\ moves' = moves
    BY DEF AddPage, Reading
  <1>2. SplitTypeOK /\ job \in Row /\ queued \subseteq [part: Nat, batch: Nat, contact: Contacts]
    BY DEF SplitInv, SplitTypeOK
  <1>3. /\ A \in SUBSET Nat /\ IsFiniteSet(A) /\ Cardinality(A) \in Nat
        /\ moves \in Nat /\ IsFiniteSet(C) /\ Cardinality(C) \in Nat
        /\ IsFiniteSet(Twice) /\ Cardinality(Twice) \in Nat
        /\ IsFiniteSet(Lost) /\ Cardinality(Lost) \in Nat
    BY <1>2, SplitSets
  <1>4. /\ queued' = queued \cup new /\ queued \cap new = {}
        /\ IsFiniteSet(new) /\ Cardinality(new) = Cardinality(job.ids)
        /\ QueuedContacts' = Taken
        /\ Repeated' \subseteq Repeated \cup (QueuedContacts \cap job.ids)
    BY PageJobs
  <1>5. /\ job' \in Row
        /\ job'.pc \in {"select", "winner"} /\ job'.ids = {} /\ job'.part \in 1 .. n
        /\ job'.pc = "select" =>
              job'.batch * BatchSize < parts[job'.part].size /\ NextOffset' = o
        /\ job'.pc = "winner" => job'.part = n /\ o >= Cardinality(C)
        /\ \/ /\ job'.pc = "select" /\ job'.part = p /\ job'.batch = job.batch + 1
              /\ job'.batch * BatchSize = job.batch * BatchSize + limit
           \/ /\ job'.batch = 0
              /\ job'.pc = "select" => job'.part > p
              /\ p < n => job'.part > p /\ job.batch * BatchSize + limit = parts[p].size
              /\ \A k \in p + 1 .. job'.part - 1 : parts[k].size = 0
    BY NextPage
  <1>6. /\ o \in Nat /\ p \in 1 .. n /\ n \in Nat \ {0} /\ job.batch \in Nat
        /\ parts \in SplitParts /\ Chained(parts, Cardinality(C)) /\ DOMAIN parts = 1 .. n
        /\ limit \in 1 .. BatchSize
    BY <1>1, <1>3, PageBounds, PartTypes
  <1>7. Taken' = Taken /\ QueuedContacts \subseteq Taken /\ job.ids \subseteq Taken
    BY <1>4, <1>5 DEF Taken
  <1> HIDE DEF p, n, limit, new, A, C, o
  <1>8. SplitTypeOK'
    <2>1. new \subseteq [part: Nat, batch: Nat, contact: Contacts]
      BY <1>2 DEF new, p
    <2>2. queued' \subseteq [part: Nat, batch: Nat, contact: Contacts]
      BY <1>2, <1>4, <2>1
    <2>3. Cardinality({}) <= BatchSize
      BY FS_EmptySet, SplitAssumption
    <2>4. /\ job'.pc # "bulk"
          /\ job'.pc = "select" => job'.part \in DOMAIN parts' /\ job'.batch \in Nat
                                   /\ job'.batch * BatchSize < parts'[job'.part].size
                                   /\ job'.ids \in SUBSET Contacts
                                   /\ Cardinality(job'.ids) <= BatchSize
      BY <1>1, <1>5, <1>6, <2>3
    <2>5. /\ audience' \subseteq Contacts /\ counted' \subseteq Contacts
          /\ moves' \in 0 .. MaxMoves /\ parts' \in Seq([weight: Nat, offset: Nat, size: Int])
      BY <1>1, <1>2 DEF SplitTypeOK, A, C
    <2>6. job'.pc \in {"load", "count", "select", "bulk", "winner", "done", "failed"}
      BY <1>5
    <2> QED
      BY <2>2, <2>4, <2>5, <2>6 DEF SplitTypeOK
  <1>9. StartOK' /\ PartsOK' /\ CountOK'
    <2>1. PartsOK'
      BY <1>1, <1>6 DEF PartsOK, C
    <2>2. CountOK'
      BY <1>1 DEF SplitInv, CountOK, A, C
    <2>3. StartOK'
      BY <1>1, <1>5 DEF StartOK, n
    <2> QED
      BY <2>1, <2>2, <2>3
  <1>10. PagesQueued'
    <2>1. IsFiniteSet(queued')
      <3>1. IsFiniteSet(queued)
        BY DEF SplitInv, PagesQueued
      <3> QED
        BY <1>4, <3>1, FS_Union
    <2>2. ASSUME NEW q \in queued', job'.pc = "select"
          PROVE  q.part < job'.part \/ (q.part = job'.part /\ q.batch < job'.batch)
      <3>1. q \in queued => q.part \in Nat /\ q.batch \in Nat
        BY <1>2
      <3>2. q \in queued => q.part < p \/ (q.part = p /\ q.batch < job.batch)
        <4>1. PagesQueued /\ job.pc \in {"select", "bulk"}
          BY <1>1 DEF SplitInv
        <4>2. \A r \in queued : r.part < job.part \/ (r.part = job.part /\ r.batch < job.batch)
          BY <4>1 DEF PagesQueued
        <4> QED
          BY <4>2 DEF p
      <3>3. q \in new => q.part = p /\ q.batch = job.batch
        BY DEF new
      <3>4. /\ q.part \in Nat /\ q.batch \in Nat /\ p \in Nat /\ job'.part \in Nat
            /\ q.part < p \/ (q.part = p /\ q.batch <= job.batch)
        BY <1>4, <1>6, <1>5, <2>2, <3>1, <3>2, <3>3
      <3>5. CASE job'.part = p /\ job'.batch = job.batch + 1
        BY <1>6, <3>4, <3>5
      <3>6. CASE job'.part > p
        <4>1. q.part <= p
          BY <3>4
        <4> QED
          BY <3>4, <3>6, <4>1
      <3> QED
        BY <1>5, <2>2, <3>5, <3>6
    <2>3. job'.pc \in {"select", "bulk"} => job'.pc = "select"
      BY <1>5
    <2> QED
      BY <2>1, <2>2, <2>3 DEF PagesQueued
  <1>11. \A c : Rank(c) = RankIn(A, c) /\ Rank(c)' = RankIn(A, c)
    BY <1>1 DEF Rank, RankIn, A
  <1>12. Cardinality(Twice) <= moves
         /\ 2 * Cardinality(Lost) <= moves + Cardinality(C) - Cardinality(A)
    BY <1>1 DEF SplitInv, MovesPaid, A, C
  <1>13. Cardinality(Twice') <= moves
    <2>1. Repeated \cup (QueuedContacts \cap job.ids) \subseteq Twice
      BY DEF Twice
    <2>2. {c \in Taken \cap A : RankIn(A, c) >= o} \subseteq Twice
      BY <1>1, <1>11 DEF Twice, A, o
    <2>3. Twice' = Repeated' \cup (QueuedContacts' \cap job'.ids)
                     \cup {c \in Taken' \cap audience' : Reading' /\ Rank(c)' >= NextOffset'}
      BY DEF Twice
    <2>4. Reading' => NextOffset' = o
      BY <1>5 DEF Reading
    <2>5. Twice' \subseteq Twice
      BY <1>1, <1>4, <1>5, <1>7, <1>11, <2>1, <2>2, <2>3, <2>4
    <2>6. Cardinality(Twice') <= Cardinality(Twice) /\ Cardinality(Twice') \in Nat
      BY <1>3, <2>5, Smaller
    <2> QED
      BY <1>3, <1>12, <2>6
  <1>14. Lost = {c \in C \ Taken : c \in A => RankIn(A, c) < o}
    BY <1>11 DEF Lost, A, C, o
  <1>15. ASSUME Reading'
         PROVE  Lost' = Lost
    <2>1. NextOffset' = o
      BY <1>5, <1>15 DEF Reading
    <2>2. Lost' = {c \in counted' \ Taken' : c \in audience' => Rank(c)' < NextOffset'}
      BY DEF Lost
    <2> QED
      BY <1>1, <1>7, <1>11, <1>14, <2>1, <2>2
  <1>16. ASSUME job'.pc = "winner"
         PROVE  Cardinality(Missed') <= moves
    <2> DEFINE Rest == {c \in A : RankIn(A, c) >= o}
    <2>1. \A c : JobsFor(c)' = {} <=> c \notin Taken
      <3>1. \A c : JobsFor(c)' = {} <=> c \notin QueuedContacts'
        BY DEF JobsFor, QueuedContacts
      <3> QED
        BY <1>4, <3>1
    <2>2. Missed' = {c \in C \cap A : c \notin Taken}
      BY <1>1, <2>1 DEF Missed
    <2>3. \A c \in A : RankIn(A, c) < o \/ RankIn(A, c) >= o
      <3>1. \A c \in A : RankIn(A, c) \in Nat
        BY <1>3, RanksOrdered
      <3> QED
        BY <1>6, <3>1
    <2>4. Missed' \subseteq Lost \cup Rest
      BY <1>14, <2>2, <2>3
    <2>5. /\ IsFiniteSet(Rest) /\ Cardinality(Rest) \in Nat
          /\ o <= Cardinality(A) => Cardinality(Rest) <= Cardinality(A) - o
          /\ o > Cardinality(A) => Cardinality(Rest) = 0
      BY <1>3, <1>6, RestHolds
    <2> HIDE DEF Rest
    <2>6. /\ IsFiniteSet(Lost \cup Rest)
          /\ Cardinality(Lost \cup Rest) <= Cardinality(Lost) + Cardinality(Rest)
          /\ Cardinality(Lost \cup Rest) \in Nat
      <3>1. /\ IsFiniteSet(Lost \cup Rest)
            /\ Cardinality(Lost \cup Rest)
                 = Cardinality(Lost) + Cardinality(Rest) - Cardinality(Lost \cap Rest)
        BY <1>3, <2>5, FS_Union
      <3>2. Cardinality(Lost \cap Rest) \in Nat
        BY <1>3, FS_Subset, FS_CardinalityType
      <3>3. Cardinality(Lost \cup Rest) \in Nat
        BY <3>1, FS_CardinalityType
      <3> QED
        BY <1>3, <2>5, <3>1, <3>2, <3>3
    <2>7. Cardinality(Missed') <= Cardinality(Lost \cup Rest) /\ Cardinality(Missed') \in Nat
      BY <2>4, <2>6, Smaller
    <2>8. Cardinality(Missed') <= Cardinality(Lost) + Cardinality(Rest)
      BY <1>3, <2>5, <2>6, <2>7
    <2>9. /\ Cardinality(A) - Cardinality(C) <= moves /\ Cardinality(C) - Cardinality(A) <= moves
      BY <1>1 DEF SplitInv, CountOK, A, C
    <2>10. o >= Cardinality(C)
      BY <1>5, <1>16
    <2>11. CASE o <= Cardinality(A)
      <3>1. Cardinality(Rest) <= Cardinality(A) - Cardinality(C)
        BY <1>3, <1>6, <2>5, <2>10, <2>11
      <3>2. 2 * Cardinality(Missed')
              <= 2 * Cardinality(Lost) + 2 * (Cardinality(A) - Cardinality(C))
        BY <1>3, <2>5, <2>7, <2>8, <3>1
      <3> QED
        BY <1>3, <1>12, <2>7, <2>9, <3>2
    <2>12. CASE o > Cardinality(A)
      BY <1>3, <1>12, <2>5, <2>7, <2>8, <2>9, <2>12
    <2> QED
      BY <1>3, <1>6, <2>11, <2>12
  <1>17. MovesPaid'
    <2>1. Reading' => 2 * Cardinality(Lost)' <= moves' + Cardinality(counted)' - Cardinality(audience)'
      BY <1>1, <1>12, <1>15 DEF A, C
    <2>2. job'.pc \in {"winner", "done"} => Cardinality(Missed)' <= moves'
      BY <1>1, <1>5, <1>16
    <2> QED
      BY <1>1, <1>13, <2>1, <2>2 DEF MovesPaid
  <1>18. SharesSent'
    <2> SUFFICES ASSUME moves = 0, parts[n].size >= 0, NEW i \in 1 .. n - 1
                 PROVE  Cardinality(SentTo(i)') = IF i < job'.part THEN parts[i].size
                                      ELSE IF i = job'.part THEN job'.batch * BatchSize ELSE 0
      BY <1>1, <1>5 DEF SharesSent, n
    <2>1. /\ Cardinality(SentTo(i)) = IF i < p THEN parts[i].size
                                      ELSE IF i = p THEN job.batch * BatchSize ELSE 0
          /\ p < n => Cardinality(job.ids) = limit
      BY <1>1 DEF SplitInv, SharesSent, p, n, limit
    <2>2. SentTo(i)' = SentTo(i) \cup {q \in new : q.part = i}
      BY <1>4 DEF SentTo
    <2>3. \A q \in new : q.part = p
      BY DEF new
    <2>4. i # p => SentTo(i)' = SentTo(i)
      BY <2>2, <2>3
    <2>5. i = p => Cardinality(SentTo(i)') = job.batch * BatchSize + limit
      <3> SUFFICES ASSUME i = p
                   PROVE  Cardinality(SentTo(i)') = job.batch * BatchSize + limit
        OBVIOUS
      <3>1. SentTo(i)' = SentTo(i) \cup new /\ SentTo(i) \cap new = {}
        BY <1>4, <2>2, <2>3 DEF SentTo
      <3>2. IsFiniteSet(SentTo(i))
        <4>1. IsFiniteSet(queued)
          BY DEF SplitInv, PagesQueued
        <4> QED
          BY <4>1, FS_Subset DEF SentTo
      <3>3. Cardinality(SentTo(i) \cup new) = Cardinality(SentTo(i)) + Cardinality(new) - 0
        BY <1>4, <3>1, <3>2, FS_Union, FS_EmptySet
      <3>4. p < n
        BY <1>6
      <3>5. Cardinality(new) = limit
        BY <1>4, <2>1, <3>4
      <3>6. Cardinality(SentTo(i)) = job.batch * BatchSize
        BY <1>6, <2>1
      <3>7. job.batch * BatchSize \in Nat /\ limit \in Nat
        BY <1>6, BatchOffsets, SplitAssumption
      <3> QED
        BY <3>1, <3>3, <3>5, <3>6, <3>7
    <2>6. i \in Nat /\ p \in Nat /\ job'.part \in Nat
      BY <1>5, <1>6
    <2>7. CASE job'.part = p /\ job'.batch * BatchSize = job.batch * BatchSize + limit
      <3>1. CASE i = p
        BY <2>5, <2>6, <2>7, <3>1
      <3>2. CASE i # p
        BY <2>1, <2>4, <2>6, <2>7, <3>2
      <3> QED
        BY <3>1, <3>2
    <2>8. CASE /\ job'.batch = 0
               /\ job'.pc = "select" => job'.part > p
               /\ p < n => job'.part > p /\ job.batch * BatchSize + limit = parts[p].size
               /\ \A k \in p + 1 .. job'.part - 1 : parts[k].size = 0
      <3>1. job'.batch * BatchSize = 0
        BY <2>8, SplitAssumption
      <3>2. CASE i < p
        <4>1. i < job'.part
          <5>1. CASE p < n
            BY <2>6, <2>8, <3>2, <5>1
          <5>2. CASE ~(p < n)
            <6>1. p = n
              BY <1>6, <5>2
            <6>2. job'.part > p \/ job'.part = n
              BY <1>5, <2>8
            <6> QED
              BY <2>6, <3>2, <6>1, <6>2
          <5> QED
            BY <5>1, <5>2
        <4> QED
          BY <2>1, <2>4, <2>6, <3>2, <4>1
      <3>3. CASE i = p
        <4>1. p < n /\ i < job'.part
          BY <1>6, <2>6, <2>8, <3>3
        <4> QED
          BY <2>5, <2>8, <3>3, <4>1
      <3>4. CASE i > p
        <4>1. Cardinality(SentTo(i)') = 0
          BY <2>1, <2>4, <2>6, <3>4
        <4>2. i < job'.part => parts[i].size = 0
          <5>1. i < job'.part => i \in p + 1 .. job'.part - 1
            BY <2>6, <3>4
          <5> QED
            BY <2>8, <5>1
        <4> QED
          BY <2>6, <3>1, <4>1, <4>2
      <3> QED
        BY <2>6, <3>2, <3>3, <3>4
    <2> QED
      BY <1>5, <2>7, <2>8
  <1> QED
    BY <1>5, <1>8, <1>9, <1>10, <1>17, <1>18 DEF SplitInv

\* The winner is scheduled, or the handler throws: nothing else is queued.
LEMMA EndStep ==
  ASSUME SplitInv, SchedulePickWinner \/ HandlerThrows
  PROVE  SplitInv'
  <1>1. /\ job'.pc \in {"done", "failed"} /\ job'.part = job.part
        /\ job' \in [pc: SplitPcs, part: Nat, batch: Nat, ids: SUBSET Contacts]
        /\ job'.ids = {}
        /\ job'.pc = "done" => job.pc = "winner"
        /\ audience' = audience /\ counted' = counted /\ moves' = moves
        /\ parts' = parts /\ queued' = queued
    <2>1. /\ job \in [pc: SplitPcs, part: Nat, batch: Nat, ids: SUBSET Contacts]
          /\ job.pc # "bulk" => job.ids = {}
      BY DEF SplitInv, StartOK
    <2>2. CASE SchedulePickWinner
      BY <2>1, <2>2 DEF SchedulePickWinner, SplitPcs
    <2>3. CASE HandlerThrows
      BY <2>1, <2>3 DEF HandlerThrows, SplitPcs
    <2> QED
      BY <2>2, <2>3
  <1>2. SplitTypeOK'
    BY <1>1 DEF SplitInv, SplitTypeOK
  <1>3. StartOK' /\ PartsOK' /\ CountOK' /\ PagesQueued'
    BY <1>1 DEF SplitInv, StartOK, PartsOK, CountOK, PagesQueued
  <1>4. SharesSent'
    <2>1. \A i : SentTo(i)' = SentTo(i)
      BY <1>1 DEF SentTo
    <2> SUFFICES ASSUME job'.pc = "done", moves = 0, parts[Len(parts)].size >= 0
                 PROVE  \A i \in 1 .. Len(parts) - 1 :
                           Cardinality(SentTo(i)) = IF i < job.part THEN parts[i].size
                                      ELSE IF i = job.part THEN job.batch * BatchSize ELSE 0
      <3>1. job'.batch = job.batch \/ job'.pc # "done"
        BY DEF SchedulePickWinner, HandlerThrows, SplitInv
      <3> QED
        BY <1>1, <2>1, <3>1 DEF SharesSent
    <2>2. job.pc = "winner"
      BY <1>1
    <2> QED
      BY <2>2 DEF SplitInv, SharesSent
  <1>5. MovesPaid'
    <2>1. /\ Repeated' = Repeated /\ QueuedContacts' = QueuedContacts /\ Missed' = Missed
          /\ ~ Reading'
      BY <1>1 DEF Repeated, JobsFor, QueuedContacts, Missed, Reading
    <2>2. Twice' = Repeated' \cup (QueuedContacts' \cap job'.ids)
                     \cup {c \in Taken' \cap audience' : Reading' /\ Rank(c)' >= NextOffset'}
      BY DEF Twice
    <2>3. Twice' \subseteq Twice
      <3>1. Repeated \subseteq Twice
        BY DEF Twice
      <3> QED
        BY <1>1, <2>1, <2>2, <3>1
    <2>4. /\ moves \in Nat /\ Cardinality(Twice) \in Nat /\ Cardinality(Twice) <= moves
          /\ Cardinality(Twice') <= Cardinality(Twice) /\ Cardinality(Twice') \in Nat
      BY <2>3, SplitSets, Smaller DEF SplitInv, MovesPaid
    <2>5. Cardinality(Twice') <= moves
      BY <2>4
    <2> QED
      BY <1>1, <2>1, <2>5 DEF SplitInv, MovesPaid
  <1> QED
    BY <1>1, <1>2, <1>3, <1>4, <1>5 DEF SplitInv

\* The invariant holds at first.
LEMMA SplitInit == Init => SplitInv
  <1> SUFFICES ASSUME Init
               PROVE  SplitInv
    OBVIOUS
  <1>1. /\ audience \subseteq Contacts /\ counted = {} /\ moves = 0
        /\ job = [pc |-> "load", part |-> 1, batch |-> 0, ids |-> {}]
        /\ parts = <<>> /\ queued = {}
    BY DEF Init
  <1>2. job \in [pc: SplitPcs, part: Nat, batch: Nat, ids: SUBSET Contacts] /\ job.pc = "load"
        /\ job.ids = {}
    BY <1>1 DEF SplitPcs
  <1>3. SplitTypeOK
    <2>1. parts \in Seq([weight: Nat, offset: Nat, size: Int])
      BY <1>1
    <2>2. moves \in 0 .. MaxMoves
      BY <1>1, SplitAssumption
    <2> QED
      BY <1>1, <1>2, <2>1, <2>2 DEF SplitTypeOK
  <1>4. StartOK /\ PartsOK /\ CountOK /\ SharesSent
    BY <1>1, <1>2 DEF StartOK, PartsOK, CountOK, SharesSent
  <1>5. PagesQueued
    BY <1>1, <1>2, FS_EmptySet DEF PagesQueued
  <1>6. MovesPaid
    <2>1. Cardinality(Twice) = 0
      BY <1>1, <1>2, NothingSent
    <2> QED
      BY <1>1, <1>2, <2>1 DEF MovesPaid, Reading
  <1> QED
    BY <1>2, <1>3, <1>4, <1>5, <1>6 DEF SplitInv

\* Every step keeps it.
LEMMA SplitStep == SplitInv /\ [Next]_vars => SplitInv'
  <1> SUFFICES ASSUME SplitInv, [Next]_vars
               PROVE  SplitInv'
    OBVIOUS
  <1>1. ASSUME NEW c \in Contacts, MoveContact(c)
        PROVE  SplitInv'
    BY <1>1, MoveStep
  <1>2. CASE LoadBroadcast
    BY <1>2, LoadStep
  <1>3. CASE CountContacts
    BY <1>3, CountStep
  <1>4. CASE SelectPage
    BY <1>4, SelectStep
  <1>5. CASE AddPage
    BY <1>5, AddStep
  <1>6. CASE SchedulePickWinner \/ HandlerThrows
    BY <1>6, EndStep
  <1>7. CASE UNCHANGED vars
    <2>1. /\ audience' = audience /\ counted' = counted /\ moves' = moves
          /\ job' = job /\ parts' = parts /\ queued' = queued
      BY <1>7 DEF vars
    <2>2. SplitTypeOK' /\ StartOK' /\ PartsOK' /\ CountOK' /\ PagesQueued' /\ SharesSent'
      BY <2>1 DEF SplitInv, SplitTypeOK, StartOK, PartsOK, CountOK, PagesQueued, SharesSent,
                  SentTo, Limit
    <2>3. Repeated' = Repeated /\ QueuedContacts' = QueuedContacts /\ Missed' = Missed
          /\ Taken' = Taken /\ Reading' = Reading /\ NextOffset' = NextOffset
          /\ \A c : Rank(c)' = Rank(c)
      BY <2>1 DEF Repeated, JobsFor, QueuedContacts, Missed, Taken, Reading, NextOffset, Limit, Rank
    <2>4. Twice' = Twice
      <3>1. Twice' = Repeated' \cup (QueuedContacts' \cap job'.ids)
                       \cup {c \in Taken' \cap audience' : Reading' /\ Rank(c)' >= NextOffset'}
        BY DEF Twice
      <3> QED
        BY <2>1, <2>3, <3>1 DEF Twice
    <2>5. Lost' = Lost
      <3>1. Lost' = {c \in counted' \ Taken' : c \in audience' => Rank(c)' < NextOffset'}
        BY DEF Lost
      <3> QED
        BY <2>1, <2>3, <3>1 DEF Lost
    <2>6. MovesPaid'
      BY <2>1, <2>3, <2>4, <2>5 DEF SplitInv, MovesPaid
    <2> QED
      BY <2>1, <2>2, <2>6 DEF SplitInv
  <1> QED
    BY <1>1, <1>2, <1>3, <1>4, <1>5, <1>6, <1>7 DEF Next

\* The invariant holds in every state of every run of the handler.
THEOREM SplitInvariant == Spec => []SplitInv
  BY SplitInit, SplitStep, PTL DEF Spec

-----------------------------------------------------------------------------
(* What it implies. *)

(***************************************************************************)
(* The handler's variables keep their types: the page it reads is one of   *)
(* the part it is in, and never larger than a batch.                       *)
(***************************************************************************)
THEOREM SplitTypes == Spec => []SplitTypeOK
  <1>1. SplitInv => SplitTypeOK
    BY DEF SplitInv
  <1> QED
    BY <1>1, SplitInvariant, PTL

(***************************************************************************)
(* With positive weights, whatever their sum, the test mails each contact  *)
(* that was counted once: each contact that comes or goes while the pages  *)
(* are read makes at most one be mailed twice or one be left out.          *)
(***************************************************************************)
THEOREM MovesCostOneMail == Spec => []MoveCostsOne
  <1>1. SplitInv => MoveCostsOne
    <2> SUFFICES ASSUME SplitInv
                 PROVE  MoveCostsOne
      OBVIOUS
    <2>1. Repeated \subseteq Twice
      BY DEF Twice
    <2>2. /\ moves \in Nat /\ Cardinality(Twice) \in Nat /\ Cardinality(Twice) <= moves
          /\ Cardinality(Repeated) <= Cardinality(Twice) /\ Cardinality(Repeated) \in Nat
      BY <2>1, SplitSets, Smaller DEF SplitInv, MovesPaid
    <2>3. Cardinality(Repeated) <= moves
      BY <2>2
    <2> QED
      BY <2>3 DEF MoveCostsOne, SplitInv, MovesPaid
  <1> QED
    BY <1>1, SplitInvariant, PTL

(***************************************************************************)
(* With a steady audience and positive weights that leave room, each       *)
(* variant is mailed to its share of the audience, or to one contact less. *)
(***************************************************************************)
THEOREM SharesAreHonoured == Spec => []ShareHonoured
  <1>1. SplitInv => ShareHonoured
    <2> SUFFICES ASSUME SplitInv, job.pc = "done", moves = 0, parts[Len(parts)].size >= 0,
                        NEW i \in 1 .. Len(parts) - 1
                 PROVE  LET sent  == 100 * Cardinality({q \in queued : q.part = i})
                            share == parts[i].weight * Cardinality(counted)
                        IN  share - 100 <= sent /\ sent <= share
      BY DEF ShareHonoured
    <2> DEFINE total == Cardinality(counted)
    <2>1. /\ Chained(parts, total) /\ total \in Nat /\ parts \in SplitParts
          /\ job.part = Len(parts)
      BY SplitSets DEF SplitInv, PartsOK, StartOK, SplitTypeOK, SplitParts
    <2>2. Cardinality(SentTo(i)) = parts[i].size
      <3>1. Len(parts) \in Nat
        BY <2>1, PartTypes
      <3>2. i < job.part
        BY <2>1, <3>1
      <3> QED
        BY <3>2 DEF SplitInv, SharesSent
    <2>3. parts[i].size = Share(parts[i].weight, total)
      BY <2>1 DEF Chained
    <2>4. parts[i].weight \in Nat
      BY <2>1, PartTypes
    <2> DEFINE weight == parts[i].weight
    <2>5. /\ Share(weight, total) \in Nat /\ 100 * Share(weight, total) <= weight * total
          /\ weight * total - 100 <= 100 * Share(weight, total)
      BY <2>1, <2>4, ShareFloors
    <2> HIDE DEF weight, total
    <2>6. {q \in queued : q.part = i} = SentTo(i)
      BY DEF SentTo
    <2> QED
      BY <2>2, <2>3, <2>5, <2>6 DEF weight, total
  <1> QED
    BY <1>1, SplitInvariant, PTL

=============================================================================
