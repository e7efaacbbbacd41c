-------------------------- MODULE SeedQueueProofs ---------------------------
(***************************************************************************)
(* Theorems about SeedQueue, for any number of seeds, coverage map, speeds *)
(* and length of the queue.                                                *)
(***************************************************************************)
EXTENDS SeedQueue, FiniteSetTheorems, SequenceTheorems, WellFoundedInduction, TLAPS

---------------------------------------------------------------------------
(* Induction over the bytes.  The predicates of an induction are given as   *)
(* sets, so that it rests on the least element of a set of naturals.        *)
LEMMA LeastNat ==
  ASSUME NEW T \in SUBSET Nat, T # {}
  PROVE  \E m \in T : \A k \in T : m <= k
<1> DEFINE R == {p \in Nat \X Nat : p[1] < p[2]}
<1>1. IsWellFoundedOn(OpToRel(<, Nat), Nat)
  BY NatLessThanWellFounded
<1>2. OpToRel(<, Nat) = R
  BY DEF OpToRel
<1>3. IsWellFoundedOn(R, Nat)
  BY <1>1, <1>2
<1>4. ASSUME NEW x \in Nat, NEW y \in Nat, ~ (<<y, x>> \in R) PROVE x <= y
  <2>1. y < x => <<y, x>> \in R
    OBVIOUS
  <2> QED
    BY <1>4, <2>1
<1> HIDE DEF R
<1>5. PICK x \in T : \A y \in T : ~ (<<y, x>> \in R)
  BY <1>3, WFMin, Zenon
<1>6. x \in Nat /\ \A y \in T : y \in Nat
  OBVIOUS
<1>7. ASSUME NEW y \in T PROVE x <= y
  BY <1>4, <1>5, <1>6, Zenon
<1> QED
  BY <1>7

(* What holds of 0, and of the next number up to n, holds up to n.          *)
LEMMA UpTo ==
  ASSUME NEW n \in Nat, NEW S, 0 \in S,
         \A k \in 0..(n - 1) : k \in S => k + 1 \in S
  PROVE  0..n \subseteq S
<1> DEFINE T == (0..n) \ S
<1> SUFFICES ASSUME T # {} PROVE FALSE
  OBVIOUS
<1>a. T \in SUBSET Nat
  OBVIOUS
<1>1. PICK m \in T : \A k \in T : m <= k
  <2> HIDE DEF T
  <2> QED
    BY <1>a, LeastNat
<1>2. m \in 0..n /\ m \notin S /\ m # 0
  BY <1>1
<1>3. m - 1 \in 0..(n - 1) /\ m - 1 \notin T
  BY <1>1, <1>2
<1>4. m - 1 \in S /\ (m - 1) + 1 = m
  BY <1>2, <1>3
<1> QED
  BY <1>2, <1>3, <1>4

---------------------------------------------------------------------------
(* The walk of cull_queue over the bytes is well defined.                   *)
WalkTo(m, g) == g = [n \in 0..m |-> IF n = 0 THEN {} ELSE Visit(g[n - 1], n)]

(* cull_queue can be followed slot by slot up to any slot (least element of the slots that cannot
   be reached). *)
LEMMA WalkExists == ASSUME NEW m \in Nat PROVE \E g : WalkTo(m, g)
<1> DEFINE S == {k \in Nat : \E g : WalkTo(k, g)}
<1>1. 0 \in S
  <2> DEFINE g == [n \in 0..0 |-> {}]
  <2>1. g = [n \in 0..0 |-> IF n = 0 THEN {} ELSE Visit(g[n - 1], n)]
    OBVIOUS
  <2> QED
    BY <2>1 DEF WalkTo
<1>2. ASSUME NEW k \in Nat, k \in S PROVE k + 1 \in S
  <2>1. PICK g : g = [n \in 0..k |-> IF n = 0 THEN {} ELSE Visit(g[n - 1], n)]
    BY <1>2 DEF WalkTo
  <2> DEFINE h == [n \in 0..(k + 1) |-> IF n = k + 1 THEN Visit(g[k], k + 1) ELSE g[n]]
             w == [n \in 0..(k + 1) |-> IF n = 0 THEN {} ELSE Visit(h[n - 1], n)]
  <2>2. ASSUME NEW n \in 0..(k + 1) PROVE h[n] = w[n]
    <3>1. CASE n = k + 1
      BY <3>1
    <3>2. CASE n = 0
      BY <2>1, <3>2
    <3>3. CASE n \in 1..k
      <4>1. n - 1 \in 0..k /\ n \in 0..k /\ n # 0 /\ n # k + 1 /\ n - 1 # k + 1
        BY <3>3
      <4>2. g[n] = Visit(g[n - 1], n)
        BY <2>1, <4>1
      <4>3. h[n] = g[n] /\ h[n - 1] = g[n - 1]
        BY <4>1
      <4> QED
        BY <4>1, <4>2, <4>3
    <3> QED
      BY <3>1, <3>2, <3>3
  <2>3. h = w
    BY <2>2
  <2>4. WalkTo(k + 1, h)
    BY <2>3 DEF WalkTo
  <2> HIDE DEF h
  <2> QED
    BY <2>4
<1> HIDE DEF S
<1>3. 0..m \subseteq S
  BY <1>1, <1>2, UpTo
<1> QED
  BY <1>3 DEF S

(* The recursive function PickedUpTo satisfies its defining equations. *)
LEMMA PickedUpToDef ==
  /\ PickedUpTo[0] = {}
  /\ \A n \in 0..(MapSize - 1) : PickedUpTo[n + 1] = Visit(PickedUpTo[n], n + 1)
<1> DEFINE F(g) == [n \in 0..MapSize |-> IF n = 0 THEN {} ELSE Visit(g[n - 1], n)]
<1>1. PickedUpTo = CHOOSE g : g = F(g)
  BY DEF PickedUpTo
<1>2. \E g : g = F(g)
  BY WalkExists, QueueAssumption DEF WalkTo
<1>3. PickedUpTo = F(PickedUpTo)
  BY <1>1, <1>2
<1> DEFINE P == PickedUpTo
<1>4. P = [n \in 0..MapSize |-> IF n = 0 THEN {} ELSE Visit(P[n - 1], n)]
  BY <1>3
<1> HIDE DEF P
<1>5. P[0] = {}
  BY <1>4, QueueAssumption
<1>6. ASSUME NEW n \in 0..(MapSize - 1) PROVE P[n + 1] = Visit(P[n], n + 1)
  <2>1. n + 1 \in 0..MapSize /\ n + 1 # 0 /\ (n + 1) - 1 = n
    BY QueueAssumption
  <2> QED
    BY <1>4, <2>1
<1> QED
  BY <1>5, <1>6 DEF P

---------------------------------------------------------------------------
(* The invariant.  What it says of the queue, of the slots and of the        *)
(* counters is said of any values of theirs, for calibrate_case and          *)
(* abandon_entry may both run in one step.                                  *)
HeldIn(held, e) == {i \in Bytes : held[i] = e}

RefsOf(entries, held) ==
  \A e \in DOMAIN entries :
    /\ entries[e].tc_ref = Cardinality(HeldIn(held, e))
    /\ (entries[e].trace_mini # NoMini) <=> HeldIn(held, e) # {}
    /\ HeldIn(held, e) \subseteq entries[e].trace_mini

(* A seed holds no slot before its calibration went well, which it does      *)
(* once: what it wins then is all it holds.                                 *)
FailedHold(entries, held) ==
  \A e \in DOMAIN entries : entries[e].cal_failed > 0 => HeldIn(held, e) = {}

FavoredIn(entries) == {e \in DOMAIN entries : entries[e].favored}
PendingIn(entries) == {e \in DOMAIN entries : ~entries[e].was_fuzzed}

CoverOf(entries, held) ==
  /\ \A i \in Bytes : held[i] # NULL =>
       \E e \in FavoredIn(entries) : i \in entries[e].trace_mini
  /\ \A e \in FavoredIn(entries) : ~entries[e].fs_redundant

CountsOf(entries, favored, fresh, unfuzzed) ==
  /\ favored = Cardinality(FavoredIn(entries))
  /\ fresh = Cardinality(FavoredIn(entries) \cap PendingIn(entries))
  /\ unfuzzed = Cardinality(PendingIn(entries))

Shape(entries, held) ==
  /\ entries \in Seq(Entry) /\ Len(entries) >= NumSeeds
  /\ held \in [Bytes -> DOMAIN entries \cup {NULL}]

DataInv(entries, held, changed, favored, fresh, unfuzzed) ==
  /\ Shape(entries, held) /\ changed \in BOOLEAN
  /\ RefsOf(entries, held) /\ FailedHold(entries, held)
  /\ ~changed => CoverOf(entries, held)
  /\ CountsOf(entries, favored, fresh, unfuzzed)

Cursor ==
  /\ pc \in {"dry", "start", "loop", "fuzz", "parse", "mutate", "sync", "stopped"}
  /\ virgin \subseteq Bytes
  /\ queue_cur \in Seeds \cup {NULL}
  /\ queue_cur = NULL => pc \in {"start", "loop", "stopped"}

(* The dry run has yet to reach the seeds from queue_cur on.                *)
DryInv ==
  pc = "dry" =>
    \A e \in Seeds : e >= queue_cur => queue[e].cal_failed = 0 /\ HeldBy(e) = {}

Data == DataInv(queue, top_rated, score_changed, queued_favored, pending_favored,
                pending_not_fuzzed)

QueueInv == Data /\ Cursor /\ DryInv

---------------------------------------------------------------------------
(* Facts about the data.                                                    *)
LEMMA ByteSets ==
  ASSUME NEW S \in SUBSET Bytes
  PROVE  /\ IsFiniteSet(S) /\ Cardinality(S) \in 0..MapSize
         /\ Cardinality(S) = 0 <=> S = {}
<1>1. IsFiniteSet(Bytes) /\ Cardinality(Bytes) = MapSize
  BY FS_Interval, QueueAssumption DEF Bytes
<1>2. IsFiniteSet(S) /\ Cardinality(S) <= MapSize
  BY <1>1, FS_Subset
<1>3. Cardinality(S) \in Nat /\ (Cardinality(S) = 0 <=> S = {})
  BY <1>2, FS_CardinalityType, FS_EmptySet
<1> QED
  BY <1>2, <1>3, QueueAssumption

(* Elementary facts about a queue of entries. *)
LEMMA QueueShape ==
  ASSUME NEW entries \in Seq(Entry)
  PROVE  /\ Len(entries) \in Nat /\ DOMAIN entries = 1..Len(entries)
         /\ entries \in [DOMAIN entries -> Entry]
         /\ \A e \in DOMAIN entries : entries[e] \in Entry /\ e \in Nat /\ e # NULL
         /\ IsFiniteSet(DOMAIN entries) /\ Cardinality(DOMAIN entries) = Len(entries)
<1>1. Len(entries) \in Nat /\ entries \in [1..Len(entries) -> Entry] /\ DOMAIN entries = 1..Len(entries)
  BY LenProperties
<1>2. IsFiniteSet(1..Len(entries)) /\ Cardinality(1..Len(entries)) = Len(entries)
  BY <1>1, FS_Interval
<1> HIDE DEF Entry
<1> QED
  BY <1>1, <1>2 DEF NULL

(* A set of seeds is finite and no larger than the queue. *)
LEMMA SeedSets ==
  ASSUME NEW entries \in Seq(Entry), NEW S \in SUBSET DOMAIN entries
  PROVE  IsFiniteSet(S) /\ Cardinality(S) \in 0..Len(entries)
<1>1. /\ IsFiniteSet(DOMAIN entries) /\ Cardinality(DOMAIN entries) = Len(entries)
      /\ Len(entries) \in Nat
  BY QueueShape
<1>2. IsFiniteSet(S) /\ Cardinality(S) <= Len(entries)
  BY <1>1, FS_Subset
<1> QED
  BY <1>1, <1>2, FS_CardinalityType

(* A function on 1..m into entries is a queue of m entries. *)
LEMMA NewQueue ==
  ASSUME NEW m \in Nat, NEW entries \in [1..m -> Entry]
  PROVE  entries \in Seq(Entry) /\ Len(entries) = m /\ DOMAIN entries = 1..m
<1>1. entries \in Seq(Entry)
  BY SeqDef, Zenon
<1>2. DOMAIN entries = 1..Len(entries) /\ Len(entries) \in Nat /\ DOMAIN entries = 1..m
  BY <1>1, LenProperties
<1> QED
  BY <1>1, <1>2

(* Renaming the elements of a set one to one does not change its size.      *)
LEMMA ImageSize ==
  ASSUME NEW P, IsFiniteSet(P), NEW f, \A i, j \in P : f[i] = f[j] => i = j
  PROVE  Cardinality({f[i] : i \in P}) = Cardinality(P)
<1> DEFINE T == {f[i] : i \in P}
           g == [i \in P |-> f[i]]
<1>1. g \in [P -> T] /\ (\A i, j \in P : g[i] = g[j] => i = j) /\ \A t \in T : \E i \in P : g[i] = t
  OBVIOUS
<1>2. g \in Bijection(P, T)
  BY <1>1 DEF Bijection, Injection, Surjection, IsInjective
<1>3. ExistsBijection(P, T)
  BY <1>2 DEF ExistsBijection
<1> QED
  BY <1>3, FS_Bijection

---------------------------------------------------------------------------
(* The picks of cull_queue: each byte that has a holder is reached by a       *)
(* picked one, and no two picked bytes have the same holder.                *)
PickInv(n, picked) ==
  /\ picked \subseteq 1..n
  /\ \A i \in picked : top_rated[i] # NULL
  /\ \A i \in 1..n : top_rated[i] # NULL => i \in Covers(picked)
  /\ \A i, j \in picked : top_rated[i] = top_rated[j] => i = j

(* The bytes covered by the winners of some slots. *)
LEMMA CoversDef ==
  ASSUME NEW picked
  PROVE  \A i : i \in Covers(picked) <=> \E j \in picked : i \in queue[top_rated[j]].trace_mini
BY DEF Covers

(* One round of the loop of cull_queue: every byte passed is covered by a seed picked. *)
LEMMA VisitKeeps ==
  ASSUME RefsOf(queue, top_rated), Shape(queue, top_rated),
         NEW n \in 0..(MapSize - 1), NEW picked, PickInv(n, picked)
  PROVE  PickInv(n + 1, Visit(picked, n + 1))
<1> DEFINE m == n + 1
           next == Visit(picked, m)
<1>1. m \in Bytes /\ 1..m = (1..n) \cup {m} /\ m \notin 1..n /\ 1..n \subseteq Bytes
  BY QueueAssumption DEF Bytes
<1>2. top_rated[m] # NULL => m \in queue[top_rated[m]].trace_mini
  BY <1>1 DEF RefsOf, HeldIn, Shape
<1>3. CASE top_rated[m] # NULL /\ m \notin Covers(picked)
  <2>1. next = picked \cup {m}
    BY <1>3 DEF Visit
  <2>2. next \subseteq 1..m /\ \A i \in next : top_rated[i] # NULL
    BY <1>1, <1>3, <2>1 DEF PickInv
  <2>3. \A i \in 1..m : top_rated[i] # NULL => i \in Covers(next)
    BY <1>1, <1>2, <2>1, CoversDef DEF PickInv
  <2>4. ASSUME NEW i \in picked PROVE top_rated[i] # top_rated[m]
    BY <1>2, <1>3, <2>4, CoversDef
  <2>5. \A i, j \in next : top_rated[i] = top_rated[j] => i = j
    BY <2>1, <2>4 DEF PickInv
  <2> QED
    BY <2>2, <2>3, <2>5 DEF PickInv
<1>4. CASE ~ (top_rated[m] # NULL /\ m \notin Covers(picked))
  <2>1. next = picked
    BY <1>4 DEF Visit
  <2> QED
    BY <1>1, <1>4, <2>1 DEF PickInv
<1> QED
  BY <1>3, <1>4

(* When the loop of cull_queue ends, every byte that has a winner is covered. *)
LEMMA PickedFacts ==
  ASSUME RefsOf(queue, top_rated), Shape(queue, top_rated)
  PROVE  PickInv(MapSize, Picked)
<1> DEFINE S == {n \in 0..MapSize : PickInv(n, PickedUpTo[n])}
<1>1. 0 \in S
  BY PickedUpToDef, QueueAssumption DEF PickInv
<1>2. ASSUME NEW n \in 0..(MapSize - 1), n \in S PROVE n + 1 \in S
  BY <1>2, PickedUpToDef, VisitKeeps, QueueAssumption
<1> HIDE DEF S
<1>3. 0..MapSize \subseteq S
  BY <1>1, <1>2, UpTo, QueueAssumption
<1> QED
  BY <1>3, QueueAssumption DEF S, Picked

---------------------------------------------------------------------------
(* What the operations do to the data.                                      *)

(* Every part of the invariant but the favored flags and the counters looks *)
(* at no more than these fields.                                            *)
SameTraces(entries, old) ==
  /\ DOMAIN entries = DOMAIN old
  /\ \A e \in DOMAIN old : /\ entries[e].tc_ref = old[e].tc_ref
                           /\ entries[e].trace_mini = old[e].trace_mini
                           /\ entries[e].cal_failed = old[e].cal_failed

(* A step that changes neither traces nor slots changes no reference count. *)
LEMMA TracesStay ==
  ASSUME NEW entries, NEW old, NEW held, SameTraces(entries, old),
         RefsOf(old, held), FailedHold(old, held)
  PROVE  RefsOf(entries, held) /\ FailedHold(entries, held)
BY DEF SameTraces, RefsOf, FailedHold

(* cull_queue: the counters are set to the size of what was picked.         *)
LEMMA Culling ==
  ASSUME Data, CullQueue
  PROVE  /\ DataInv(queue', top_rated, score_changed', queued_favored', pending_favored',
                    pending_not_fuzzed)
         /\ Len(queue') = Len(queue) /\ Seeds' = Seeds
<1>1. CASE ~score_changed
  BY <1>1 DEF Data, CullQueue, Seeds
<1>2. CASE score_changed
  <2>1. /\ score_changed' = FALSE
        /\ queued_favored' = Cardinality(Picked)
        /\ pending_favored' = Cardinality({i \in Picked : Pending(top_rated[i])})
        /\ queue' = [e \in Seeds |-> [queue[e] EXCEPT !.favored = (e \in Favored),
                                                      !.fs_redundant = (e \notin Favored)]]
    BY <1>2 DEF CullQueue
  <2>2. /\ queue \in Seq(Entry) /\ Len(queue) \in Nat /\ Seeds = 1..Len(queue)
        /\ Len(queue) >= NumSeeds /\ top_rated \in [Bytes -> Seeds \cup {NULL}]
        /\ \A e \in Seeds : queue[e] \in Entry
    BY QueueShape DEF Data, DataInv, Shape, Seeds
  <2>3. ASSUME NEW e \in Seeds
        PROVE  /\ queue'[e] \in Entry
               /\ queue'[e].tc_ref = queue[e].tc_ref
               /\ queue'[e].trace_mini = queue[e].trace_mini
               /\ queue'[e].cal_failed = queue[e].cal_failed
               /\ queue'[e].was_fuzzed = queue[e].was_fuzzed
               /\ queue'[e].favored = (e \in Favored)
               /\ queue'[e].fs_redundant = (e \notin Favored)
    <3>1. queue'[e] = [queue[e] EXCEPT !.favored = (e \in Favored),
                                       !.fs_redundant = (e \notin Favored)]
      BY <2>1
    <3> DEFINE fav == e \in Favored
               red == e \notin Favored
    <3>2. fav \in BOOLEAN /\ red \in BOOLEAN /\ queue[e] \in Entry
      BY <2>2
    <3>3. queue'[e] = [queue[e] EXCEPT !.favored = fav, !.fs_redundant = red]
      BY <3>1
    <3> HIDE DEF fav, red
    <3>4. /\ queue'[e] \in Entry
          /\ queue'[e].tc_ref = queue[e].tc_ref
          /\ queue'[e].trace_mini = queue[e].trace_mini
          /\ queue'[e].cal_failed = queue[e].cal_failed
          /\ queue'[e].was_fuzzed = queue[e].was_fuzzed
          /\ queue'[e].favored = fav
          /\ queue'[e].fs_redundant = red
      BY <3>2, <3>3 DEF Entry
    <3> QED
      BY <3>4 DEF fav, red
  <2>4. queue' \in [1..Len(queue) -> Entry]
    BY <2>1, <2>2, <2>3
  <2>5. queue' \in Seq(Entry) /\ Len(queue') = Len(queue) /\ DOMAIN queue' = Seeds
    BY <2>2, <2>4, NewQueue
  <2>6. SameTraces(queue', queue)
    BY <2>3, <2>5 DEF SameTraces, Seeds
  <2>7. PickInv(MapSize, Picked) /\ Picked \in SUBSET Bytes
    BY PickedFacts DEF Data, DataInv, PickInv, Bytes
  <2>8. Favored \subseteq Seeds
    BY <2>2, <2>7 DEF Favored, PickInv
  <2>9. FavoredIn(queue') = Favored /\ PendingIn(queue') = PendingIn(queue)
    BY <2>3, <2>5, <2>8 DEF FavoredIn, PendingIn, Seeds
  <2>10. Cardinality(Picked) = Cardinality(Favored)
    <3>1. IsFiniteSet(Picked) /\ \A i, j \in Picked : top_rated[i] = top_rated[j] => i = j
      BY <2>7, ByteSets DEF PickInv
    <3> QED
      BY <3>1, ImageSize DEF Favored
  <2>11. Cardinality({i \in Picked : Pending(top_rated[i])}) =
         Cardinality(Favored \cap PendingIn(queue))
    <3> DEFINE P == {i \in Picked : Pending(top_rated[i])}
    <3>1. P \in SUBSET Bytes /\ \A i, j \in P : top_rated[i] = top_rated[j] => i = j
      BY <2>7 DEF PickInv
    <3>2. {top_rated[i] : i \in P} = Favored \cap PendingIn(queue)
      BY <2>8 DEF Favored, Pending, PendingIn, Seeds
    <3> HIDE DEF P
    <3>3. IsFiniteSet(P)
      BY <3>1, ByteSets
    <3> QED
      BY <3>1, <3>2, <3>3, ImageSize DEF P
  <2>12. CoverOf(queue', top_rated)
    <3>1. ASSUME NEW i \in Bytes, top_rated[i] # NULL
          PROVE  \E e \in Favored : i \in queue'[e].trace_mini
      <4>1. PICK j \in Picked : i \in queue[top_rated[j]].trace_mini
        BY <2>7, <3>1, CoversDef DEF PickInv, Bytes
      <4>2. top_rated[j] \in Favored
        BY DEF Favored
      <4> QED
        BY <2>3, <2>8, <4>1, <4>2
    <3> QED
      BY <2>3, <2>8, <2>9, <3>1 DEF CoverOf
  <2>13. RefsOf(queue', top_rated) /\ FailedHold(queue', top_rated)
    BY <2>6, TracesStay DEF Data, DataInv
  <2>14. CountsOf(queue', queued_favored', pending_favored', pending_not_fuzzed)
    BY <2>1, <2>9, <2>10, <2>11 DEF Data, DataInv, CountsOf
  <2> QED
    BY <2>1, <2>2, <2>5, <2>12, <2>13, <2>14 DEF DataInv, Shape, Seeds
<1> QED
  BY <1>1, <1>2

(* abandon_entry: the counters lose the current seed when it is marked.     *)
LEMMA Abandoning ==
  ASSUME NEW entries, NEW held, NEW changed, queue_cur \in DOMAIN entries,
         DataInv(entries, held, changed, queued_favored, pending_favored, pending_not_fuzzed),
         Abandon(entries)
  PROVE  /\ DataInv(queue', held, changed, queued_favored', pending_favored',
                    pending_not_fuzzed')
         /\ Len(queue') = Len(entries) /\ DOMAIN queue' = DOMAIN entries
         /\ \A e \in DOMAIN entries : queue'[e].fav_factor = entries[e].fav_factor
<1> DEFINE cur == entries[queue_cur]
<1>1. CASE ~FirstTime(cur)
  BY <1>1 DEF Abandon
<1>2. CASE FirstTime(cur)
  <2>1. /\ queue' = With(entries, queue_cur, [cur EXCEPT !.was_fuzzed = TRUE])
        /\ pending_not_fuzzed' = pending_not_fuzzed - 1
        /\ pending_favored' = IF cur.favored THEN pending_favored - 1 ELSE pending_favored
        /\ queued_favored' = queued_favored
    BY <1>2 DEF Abandon
  <2>2. /\ entries \in Seq(Entry) /\ Len(entries) \in Nat /\ DOMAIN entries = 1..Len(entries)
        /\ \A e \in DOMAIN entries : entries[e] \in Entry
    BY QueueShape DEF DataInv, Shape
  <2>3. ASSUME NEW e \in DOMAIN entries
        PROVE  /\ queue'[e] \in Entry
               /\ queue'[e].tc_ref = entries[e].tc_ref
               /\ queue'[e].trace_mini = entries[e].trace_mini
               /\ queue'[e].cal_failed = entries[e].cal_failed
               /\ queue'[e].favored = entries[e].favored
               /\ queue'[e].fs_redundant = entries[e].fs_redundant
               /\ queue'[e].fav_factor = entries[e].fav_factor
               /\ queue'[e].was_fuzzed <=> entries[e].was_fuzzed \/ e = queue_cur
    BY <2>1, <2>2 DEF With, Entry
  <2>4. queue' \in [1..Len(entries) -> Entry]
    BY <2>1, <2>2, <2>3 DEF With
  <2>5. queue' \in Seq(Entry) /\ Len(queue') = Len(entries) /\ DOMAIN queue' = DOMAIN entries
    BY <2>2, <2>4, NewQueue
  <2>6. SameTraces(queue', entries)
    BY <2>3, <2>5 DEF SameTraces
  <2>7. RefsOf(queue', held) /\ FailedHold(queue', held)
    BY <2>6, TracesStay DEF DataInv
  <2>8. FavoredIn(queue') = FavoredIn(entries) /\ (CoverOf(entries, held) => CoverOf(queue', held))
    BY <2>3, <2>5 DEF FavoredIn, CoverOf
  <2>9. PendingIn(queue') = PendingIn(entries) \ {queue_cur} /\ queue_cur \in PendingIn(entries)
    BY <1>2, <2>3, <2>5 DEF PendingIn, FirstTime
  <2>10. pending_not_fuzzed' = Cardinality(PendingIn(queue'))
    <3>1. IsFiniteSet(PendingIn(entries))
      BY <2>2, SeedSets DEF PendingIn
    <3> QED
      BY <2>1, <2>9, <3>1, FS_RemoveElement DEF DataInv, CountsOf
  <2>11. pending_favored' = Cardinality(FavoredIn(queue') \cap PendingIn(queue'))
    <3> DEFINE P == FavoredIn(entries) \cap PendingIn(entries)
    <3>1. IsFiniteSet(P)
      BY <2>2, SeedSets DEF PendingIn
    <3>2. FavoredIn(queue') \cap PendingIn(queue') = P \ {queue_cur}
      BY <2>8, <2>9
    <3>3. queue_cur \in P <=> cur.favored
      BY <2>9 DEF FavoredIn
    <3>4. pending_favored = Cardinality(P)
      BY DEF DataInv, CountsOf
    <3> HIDE DEF P
    <3> QED
      BY <2>1, <3>1, <3>2, <3>3, <3>4, FS_RemoveElement
  <2> QED
    BY <2>1, <2>2, <2>3, <2>5, <2>7, <2>8, <2>10, <2>11 DEF DataInv, CountsOf, Shape
<1> QED
  BY <1>1, <1>2

(* calibrate_case of a seed that holds nothing yet: the winner gains exactly *)
(* the slots the other seeds lose, and takes each from one that is not       *)
(* better.                                                                  *)
Contended(q, factor, trace) ==
  LET won == Wins(q, factor, trace)
  IN  [e \in Seeds |-> IF e = q THEN Scored(q, factor, trace, won) ELSE Released(e, won)]

Taken(q, won) == [i \in Bytes |-> IF i \in won THEN q ELSE top_rated[i]]

(* update_bitmap_score, the seed that competes: one reference for each slot it wins. *)
LEMMA WinnerGains ==
  ASSUME Data, NEW q \in Seeds, HeldBy(q) = {}, NEW factor \in Factors,
         NEW trace \in SUBSET Bytes, trace # {}
  PROVE  LET new  == Contended(q, factor, trace)[q]
             won  == Wins(q, factor, trace)
         IN  /\ new \in Entry
             /\ new.tc_ref = Cardinality(won)
             /\ (new.trace_mini # NoMini) <=> won # {}
             /\ won \subseteq new.trace_mini
             /\ won = {} => new.trace_mini = queue[q].trace_mini
             /\ new.cal_failed = 0 /\ new.fav_factor = factor
             /\ new.was_fuzzed = queue[q].was_fuzzed /\ new.favored = queue[q].favored
             /\ new.fs_redundant = queue[q].fs_redundant
<1> DEFINE won == Wins(q, factor, trace)
           new == Contended(q, factor, trace)[q]
<1>1. won \in SUBSET trace /\ won \in SUBSET Bytes
  BY DEF Wins
<1> HIDE DEF won
<1>2. IsFiniteSet(won) /\ Cardinality(won) \in 0..MapSize
  BY <1>1, ByteSets
<1>3. queue[q] \in Entry
  BY QueueShape DEF Data, DataInv, Shape, Seeds
<1>4. queue[q].tc_ref = 0 /\ queue[q].trace_mini = NoMini
  <2>1. queue[q].tc_ref = Cardinality(HeldBy(q)) /\ ((queue[q].trace_mini # NoMini) <=> HeldBy(q) # {})
    BY DEF Data, DataInv, RefsOf, HeldIn, HeldBy, Seeds
  <2> QED
    BY <2>1, FS_EmptySet
<1>5. new = [queue[q] EXCEPT !.cal_failed = 0, !.fav_factor = factor,
                             !.tc_ref = @ + Cardinality(won),
                             !.trace_mini = IF won # {} THEN trace ELSE @]
  BY DEF Contended, Scored, won
<1> HIDE DEF new
<1>6. /\ new.tc_ref = queue[q].tc_ref + Cardinality(won)
      /\ new.trace_mini = IF won # {} THEN trace ELSE queue[q].trace_mini
      /\ new.cal_failed = 0 /\ new.fav_factor = factor
      /\ new.was_fuzzed = queue[q].was_fuzzed /\ new.favored = queue[q].favored
      /\ new.fs_redundant = queue[q].fs_redundant
  BY <1>3, <1>5 DEF Entry
<1>7. new.tc_ref = Cardinality(won) /\ new.tc_ref \in 0..MapSize
  BY <1>2, <1>4, <1>6
<1>8. 0 \in 0..CalChances
  BY QueueAssumption
<1>9. new \in Entry
  BY <1>3, <1>5, <1>6, <1>7, <1>8 DEF Entry, NoMini
<1> QED
  BY <1>1, <1>4, <1>6, <1>7, <1>9 DEF NoMini, won, new

(* update_bitmap_score, the seed that held a slot: its reference is released, its trace freed
   with the last. *)
LEMMA OthersLose ==
  ASSUME Data, NEW q \in Seeds, NEW won \in SUBSET Bytes, NEW e \in Seeds, e # q
  PROVE  LET new  == Released(e, won)
             held == HeldIn(Taken(q, won), e)
         IN  /\ new \in Entry
             /\ new.tc_ref = Cardinality(held)
             /\ (new.trace_mini # NoMini) <=> held # {}
             /\ held \subseteq new.trace_mini
             /\ held \subseteq HeldBy(e)
             /\ won = {} => new.trace_mini = queue[e].trace_mini
             /\ new.cal_failed = queue[e].cal_failed
             /\ new.fav_factor = queue[e].fav_factor
             /\ new.was_fuzzed = queue[e].was_fuzzed /\ new.favored = queue[e].favored
             /\ new.fs_redundant = queue[e].fs_redundant
<1> DEFINE lost == Cardinality(Holds(e, won))
           held == HeldIn(Taken(q, won), e)
           new  == Released(e, won)
<1>1. /\ HeldBy(e) \in SUBSET Bytes /\ Holds(e, won) = HeldBy(e) \cap won
      /\ held = HeldBy(e) \ won /\ held \in SUBSET Bytes
  BY DEF HeldBy, Holds, HeldIn, Taken
<1>2. /\ queue[e] \in Entry
      /\ queue[e].tc_ref = Cardinality(HeldBy(e))
      /\ (queue[e].trace_mini # NoMini) <=> HeldBy(e) # {}
      /\ HeldBy(e) \subseteq queue[e].trace_mini
  BY QueueShape DEF Data, DataInv, Shape, RefsOf, HeldIn, HeldBy, Seeds
<1>3. /\ Cardinality(held) = Cardinality(HeldBy(e)) - lost
      /\ Cardinality(HeldBy(e)) \in 0..MapSize /\ lost \in 0..MapSize
      /\ lost = 0 <=> HeldBy(e) \cap won = {}
      /\ Cardinality(held) \in 0..MapSize
      /\ Cardinality(held) = 0 <=> held = {}
  <2>1. IsFiniteSet(HeldBy(e)) /\ HeldBy(e) \cap won \in SUBSET Bytes
    BY <1>1, ByteSets
  <2> QED
    BY <1>1, <2>1, ByteSets, FS_Difference
<1>4. new = [queue[e] EXCEPT !.tc_ref = @ - lost,
                             !.trace_mini = IF lost > 0 /\ queue[e].tc_ref = lost
                                            THEN NoMini ELSE @]
  BY DEF Released
<1>5. /\ new.tc_ref = queue[e].tc_ref - lost
      /\ new.trace_mini = IF lost > 0 /\ queue[e].tc_ref = lost
                          THEN NoMini ELSE queue[e].trace_mini
      /\ new.cal_failed = queue[e].cal_failed
      /\ new.fav_factor = queue[e].fav_factor
      /\ new.was_fuzzed = queue[e].was_fuzzed /\ new.favored = queue[e].favored
      /\ new.fs_redundant = queue[e].fs_redundant
  <2> HIDE DEF new, lost
  <2> QED
    BY <1>2, <1>4 DEF Entry
<1>6. new.tc_ref = Cardinality(held) /\ new.tc_ref \in 0..MapSize
  <2> HIDE DEF new, lost, held
  <2> QED
    BY <1>2, <1>3, <1>5
<1>7. new \in Entry
  <2> HIDE DEF new, lost, held
  <2> QED
    BY <1>2, <1>4, <1>5, <1>6 DEF Entry, NoMini
<1>8. /\ (new.trace_mini # NoMini) <=> held # {}
      /\ held \subseteq new.trace_mini
      /\ won = {} => new.trace_mini = queue[e].trace_mini
  <2>1. CASE lost > 0 /\ queue[e].tc_ref = lost
    <3>1. held = {} /\ new.trace_mini = NoMini /\ won # {}
      <4> HIDE DEF new, lost, held
      <4> QED
        BY <1>2, <1>3, <1>5, <2>1
    <3> QED
      BY <3>1
  <2>2. CASE ~ (lost > 0 /\ queue[e].tc_ref = lost)
    <3>1. new.trace_mini = queue[e].trace_mini
      BY <1>5, <2>2
    <3>2. HeldBy(e) # {} <=> held # {}
      <4>1. CASE lost = 0
        BY <1>1, <1>3, <4>1
      <4>2. CASE lost # 0
        <5>1. Cardinality(held) # 0
          <6> HIDE DEF new, lost, held
          <6> QED
            BY <1>2, <1>3, <2>2, <4>2
        <5> QED
          BY <1>1, <1>3, <5>1
      <4> QED
        BY <4>1, <4>2
    <3> QED
      BY <1>1, <1>2, <3>1, <3>2
  <2> QED
    BY <2>1, <2>2
<1> QED
  BY <1>1, <1>5, <1>6, <1>7, <1>8

(* The slots that are not won stay with their holders, and score_changed     *)
(* says whether any was won.                                                *)
LEMMA Calibrating ==
  ASSUME Data, NEW q \in Seeds, HeldBy(q) = {}, NEW factor \in Factors,
         NEW trace \in SUBSET Bytes, trace # {},
         NEW won, won = Wins(q, factor, trace),
         NEW entries, entries = Contended(q, factor, trace),
         NEW held, held = Taken(q, won)
  PROVE  /\ DataInv(entries, held, score_changed \/ won # {}, queued_favored,
                    pending_favored, pending_not_fuzzed)
         /\ Len(entries) = Len(queue) /\ DOMAIN entries = Seeds
         /\ \A e \in Seeds : e # q => /\ entries[e].cal_failed = queue[e].cal_failed
                                      /\ HeldIn(held, e) \subseteq HeldBy(e)
         /\ \A i \in Bytes : top_rated[i] # NULL =>
              /\ held[i] # NULL
              /\ entries[held[i]].fav_factor <= queue[top_rated[i]].fav_factor
<1>1. /\ queue \in Seq(Entry) /\ Len(queue) \in Nat /\ Seeds = 1..Len(queue)
      /\ Len(queue) >= NumSeeds /\ top_rated \in [Bytes -> Seeds \cup {NULL}]
      /\ \A e \in Seeds : queue[e] \in Entry /\ e # NULL
  BY QueueShape DEF Data, DataInv, Shape, Seeds
<1>2. won \in SUBSET Bytes /\ won = Wins(q, factor, trace)
  BY DEF Wins
<1>3. DOMAIN entries = Seeds /\ \A e \in Seeds \ {q} : entries[e] = Released(e, won)
  BY DEF Contended
<1>4. HeldIn(held, q) = won
  BY <1>2 DEF HeldIn, Taken, HeldBy
<1>5. /\ entries[q] \in Entry
      /\ entries[q].tc_ref = Cardinality(won)
      /\ (entries[q].trace_mini # NoMini) <=> won # {}
      /\ won \subseteq entries[q].trace_mini
      /\ won = {} => entries[q].trace_mini = queue[q].trace_mini
      /\ entries[q].cal_failed = 0 /\ entries[q].fav_factor = factor
      /\ entries[q].was_fuzzed = queue[q].was_fuzzed /\ entries[q].favored = queue[q].favored
      /\ entries[q].fs_redundant = queue[q].fs_redundant
  BY WinnerGains
<1>6. ASSUME NEW e \in Seeds, e # q
      PROVE  /\ entries[e] \in Entry
             /\ entries[e].tc_ref = Cardinality(HeldIn(held, e))
             /\ (entries[e].trace_mini # NoMini) <=> HeldIn(held, e) # {}
             /\ HeldIn(held, e) \subseteq entries[e].trace_mini
             /\ HeldIn(held, e) \subseteq HeldBy(e)
             /\ won = {} => entries[e].trace_mini = queue[e].trace_mini
             /\ entries[e].cal_failed = queue[e].cal_failed
             /\ entries[e].fav_factor = queue[e].fav_factor
             /\ entries[e].was_fuzzed = queue[e].was_fuzzed
             /\ entries[e].favored = queue[e].favored
             /\ entries[e].fs_redundant = queue[e].fs_redundant
  BY <1>2, <1>3, <1>6, OthersLose
<1>7. entries \in [1..Len(queue) -> Entry]
  <2>1. entries = [e \in Seeds |-> entries[e]]
    BY DEF Contended
  <2>2. \A e \in Seeds : entries[e] \in Entry
    BY <1>5, <1>6
  <2> HIDE DEF Seeds
  <2> QED
    BY <1>1, <2>1, <2>2
<1>8. entries \in Seq(Entry) /\ Len(entries) = Len(queue)
  BY <1>1, <1>7, NewQueue
<1>9. held \in [Bytes -> Seeds \cup {NULL}]
  BY <1>1 DEF Taken
<1>10. RefsOf(entries, held)
  BY <1>3, <1>4, <1>5, <1>6 DEF RefsOf
<1>11. FailedHold(entries, held)
  <2>1. ASSUME NEW e \in Seeds, e # q, entries[e].cal_failed > 0 PROVE HeldIn(held, e) = {}
    <3>1. HeldBy(e) = {}
      BY <1>6, <2>1 DEF Data, DataInv, FailedHold, HeldIn, HeldBy, Seeds
    <3> QED
      BY <1>6, <2>1, <3>1
  <2> QED
    BY <1>3, <1>5, <2>1 DEF FailedHold
<1>12. FavoredIn(entries) = FavoredIn(queue) /\ PendingIn(entries) = PendingIn(queue)
  <2>1. \A e \in Seeds : /\ entries[e].favored = queue[e].favored
                         /\ entries[e].was_fuzzed = queue[e].was_fuzzed
    BY <1>5, <1>6
  <2> QED
    BY <1>3, <2>1 DEF FavoredIn, PendingIn, Seeds
<1>13. CountsOf(entries, queued_favored, pending_favored, pending_not_fuzzed)
  BY <1>12 DEF Data, DataInv, CountsOf
<1>14. ASSUME ~(score_changed \/ won # {}) PROVE CoverOf(entries, held)
  <2>1. /\ held = top_rated /\ CoverOf(queue, top_rated)
    BY <1>1, <1>14 DEF Taken, Data, DataInv
  <2>2. \A e \in Seeds : /\ entries[e].trace_mini = queue[e].trace_mini
                         /\ entries[e].fs_redundant = queue[e].fs_redundant
    BY <1>5, <1>6, <1>14
  <2>3. FavoredIn(queue) \subseteq Seeds
    BY DEF FavoredIn, Seeds
  <2> QED
    BY <1>12, <2>1, <2>2, <2>3 DEF CoverOf
<1>15. ASSUME NEW i \in Bytes, top_rated[i] # NULL
       PROVE  /\ held[i] # NULL
              /\ entries[held[i]].fav_factor <= queue[top_rated[i]].fav_factor
  <2>1. top_rated[i] \in Seeds /\ top_rated[i] # q
    BY <1>1, <1>15 DEF HeldBy
  <2>2. queue[top_rated[i]].fav_factor \in Nat
    <3>1. queue[top_rated[i]] \in Entry
      BY <1>1, <2>1
    <3>2. queue[top_rated[i]].fav_factor \in Factors \cup {0}
      BY <3>1 DEF Entry
    <3>3. Factors \cup {0} \subseteq Nat
      BY QueueAssumption
    <3> QED
      BY <3>2, <3>3, Zenon
  <2>3. CASE i \in won
    BY <1>1, <1>2, <1>5, <1>15, <2>3 DEF Taken, Wins
  <2>4. CASE i \notin won
    <3>1. held[i] = top_rated[i]
      BY <2>4 DEF Taken
    <3>2. entries[held[i]].fav_factor = queue[top_rated[i]].fav_factor
      BY <1>6, <2>1, <3>1
    <3> QED
      BY <1>15, <2>2, <3>1, <3>2
  <2> QED
    BY <2>3, <2>4
<1>16. DataInv(entries, held, score_changed \/ won # {}, queued_favored, pending_favored,
               pending_not_fuzzed)
  <2>1. (score_changed \/ won # {}) \in BOOLEAN
    OBVIOUS
  <2>2. Shape(entries, held)
    BY <1>1, <1>3, <1>8, <1>9 DEF Shape
  <2> QED
    BY <1>10, <1>11, <1>13, <1>14, <2>1, <2>2 DEF DataInv
<1> QED
  BY <1>3, <1>6, <1>8, <1>15, <1>16

(* A failure is counted for a seed that holds nothing.                      *)
LEMMA Failing ==
  ASSUME Data, NEW q \in Seeds, HeldBy(q) = {}, NEW failures \in 0..CalChances,
         queue' = With(queue, q, [queue[q] EXCEPT !.cal_failed = failures])
  PROVE  /\ DataInv(queue', top_rated, score_changed, queued_favored, pending_favored,
                    pending_not_fuzzed)
         /\ Len(queue') = Len(queue) /\ Seeds' = Seeds
         /\ \A e \in Seeds : /\ queue'[e].fav_factor = queue[e].fav_factor
                             /\ e # q => queue'[e] = queue[e]
<1>1. /\ queue \in Seq(Entry) /\ Len(queue) \in Nat /\ Seeds = 1..Len(queue)
      /\ \A e \in Seeds : queue[e] \in Entry
  BY QueueShape DEF Data, DataInv, Shape, Seeds
<1>2. ASSUME NEW e \in Seeds
      PROVE  /\ queue'[e] \in Entry
             /\ queue'[e].tc_ref = queue[e].tc_ref
             /\ queue'[e].trace_mini = queue[e].trace_mini
             /\ queue'[e].cal_failed = IF e = q THEN failures ELSE queue[e].cal_failed
             /\ queue'[e].was_fuzzed = queue[e].was_fuzzed
             /\ queue'[e].favored = queue[e].favored
             /\ queue'[e].fs_redundant = queue[e].fs_redundant
             /\ queue'[e].fav_factor = queue[e].fav_factor
  BY <1>1 DEF With, Entry, Seeds
<1>3. queue' \in [1..Len(queue) -> Entry]
  BY <1>1, <1>2 DEF With, Seeds
<1>4. queue' \in Seq(Entry) /\ Len(queue') = Len(queue) /\ DOMAIN queue' = DOMAIN queue
  BY <1>1, <1>3, NewQueue DEF Seeds
<1>a. RefsOf(queue', top_rated)
  BY <1>2, <1>4 DEF Data, DataInv, RefsOf, Seeds
<1>b. HeldIn(top_rated, q) = {}
  BY DEF HeldIn, HeldBy
<1>5. RefsOf(queue', top_rated) /\ FailedHold(queue', top_rated)
  BY <1>2, <1>4, <1>a, <1>b DEF Data, DataInv, FailedHold, Seeds
<1>6. FavoredIn(queue') = FavoredIn(queue) /\ PendingIn(queue') = PendingIn(queue)
  BY <1>2, <1>4 DEF FavoredIn, PendingIn, Seeds
<1>7. CoverOf(queue, top_rated) => CoverOf(queue', top_rated)
  BY <1>2, <1>6 DEF CoverOf, FavoredIn, Seeds
<1>8. /\ DataInv(queue', top_rated, score_changed, queued_favored, pending_favored,
                 pending_not_fuzzed)
  BY <1>4, <1>5, <1>6, <1>7 DEF Data, DataInv, Shape, CountsOf
<1>9. \A e \in Seeds : e # q => queue'[e] = queue[e]
  BY DEF With, Seeds
<1> QED
  BY <1>2, <1>4, <1>8, <1>9 DEF Seeds

(* A new entry is not fuzzed, and nobody's favourite.                       *)
LEMMA Saving ==
  ASSUME Data, queue' = Queued
  PROVE  /\ DataInv(queue', top_rated, score_changed, queued_favored, pending_favored,
                    pending_not_fuzzed + 1)
         /\ Len(queue') = Len(queue) + 1 /\ Seeds \subseteq Seeds'
         /\ \A e \in Seeds : queue'[e] = queue[e]
<1> DEFINE m == Len(queue) + 1
<1>1. /\ queue \in Seq(Entry) /\ Len(queue) \in Nat /\ Seeds = 1..Len(queue)
      /\ Len(queue) >= NumSeeds /\ top_rated \in [Bytes -> Seeds \cup {NULL}]
      /\ \A e \in Seeds : queue[e] \in Entry
  BY QueueShape DEF Data, DataInv, Shape, Seeds
<1>2. m \in Nat /\ 1..m = Seeds \cup {m} /\ m \notin Seeds /\ m # NULL /\ m \in 1..m
  BY <1>1 DEF NULL
<1>3. NewEntry \in Entry /\ NewEntry.tc_ref = 0 /\ NewEntry.trace_mini = {}
      /\ NewEntry.cal_failed = 0 /\ ~NewEntry.favored /\ ~NewEntry.was_fuzzed
  BY QueueAssumption DEF NewEntry, Entry, NoMini
<1>4. queue' = [e \in 1..m |-> IF e \in Seeds THEN queue[e] ELSE NewEntry]
  BY DEF Queued
<1> HIDE DEF m
<1>5. queue'[m] = NewEntry /\ \A e \in Seeds : queue'[e] = queue[e]
  BY <1>2, <1>4
<1>6. queue' \in [1..m -> Entry]
  BY <1>1, <1>2, <1>3, <1>4
<1>7. queue' \in Seq(Entry) /\ Len(queue') = m /\ DOMAIN queue' = Seeds \cup {m}
  BY <1>2, <1>6, NewQueue
<1>8. HeldIn(top_rated, m) = {}
  BY <1>1, <1>2 DEF HeldIn
<1>9. RefsOf(queue', top_rated) /\ FailedHold(queue', top_rated)
  BY <1>3, <1>5, <1>7, <1>8, FS_EmptySet DEF Data, DataInv, RefsOf, FailedHold, NoMini, Seeds
<1>10. FavoredIn(queue') = FavoredIn(queue) /\ PendingIn(queue') = PendingIn(queue) \cup {m}
  BY <1>2, <1>3, <1>5, <1>7 DEF FavoredIn, PendingIn, Seeds
<1>11. FavoredIn(queue') \cap PendingIn(queue') = FavoredIn(queue) \cap PendingIn(queue)
  BY <1>2, <1>10 DEF FavoredIn, Seeds
<1>12. Cardinality(PendingIn(queue')) = pending_not_fuzzed + 1
  <2>1. IsFiniteSet(PendingIn(queue)) /\ m \notin PendingIn(queue)
    BY <1>1, <1>2, SeedSets DEF PendingIn, Seeds
  <2> QED
    BY <1>10, <2>1, FS_AddElement DEF Data, DataInv, CountsOf
<1>13. CoverOf(queue, top_rated) => CoverOf(queue', top_rated)
  BY <1>5, <1>10 DEF CoverOf, FavoredIn, Seeds
<1>14. Shape(queue', top_rated)
  BY <1>1, <1>7, QueueAssumption DEF Shape, m
<1>15. CountsOf(queue', queued_favored, pending_favored, pending_not_fuzzed + 1)
  BY <1>10, <1>11, <1>12 DEF Data, DataInv, CountsOf
<1> QED
  BY <1>5, <1>7, <1>9, <1>13, <1>14, <1>15 DEF Data, DataInv, Seeds, m

---------------------------------------------------------------------------
(* The steps.                                                               *)

(* What SlotsOnlyImprove asks of one step.                                  *)
Improves ==
  \A i \in Bytes : top_rated[i] # NULL =>
    /\ top_rated'[i] # NULL
    /\ queue'[top_rated'[i]].fav_factor <= queue[top_rated[i]].fav_factor

(* A step that moves no slot makes no slot worse. *)
LEMMA SlotsStay ==
  ASSUME Data, top_rated' = top_rated,
         \A e \in Seeds : queue'[e].fav_factor = queue[e].fav_factor
  PROVE  Improves
<1> SUFFICES ASSUME NEW i \in Bytes, top_rated[i] # NULL
             PROVE  queue'[top_rated[i]].fav_factor <= queue[top_rated[i]].fav_factor
  BY DEF Improves
<1>1. top_rated[i] \in Seeds
  BY DEF Data, DataInv, Shape, Seeds
<1>2. queue[top_rated[i]] \in Entry
  BY <1>1, QueueShape DEF Data, DataInv, Shape, Seeds
<1>3. queue[top_rated[i]].fav_factor \in Factors \cup {0}
  BY <1>2 DEF Entry
<1>4. Factors \cup {0} \subseteq Nat
  BY QueueAssumption
<1>5. queue[top_rated[i]].fav_factor \in Nat
  BY <1>3, <1>4, Zenon
<1>6. queue'[top_rated[i]].fav_factor = queue[top_rated[i]].fav_factor
  BY <1>1
<1> QED
  BY <1>5, <1>6

(* The queue holds the initial seeds at least, numbered from 1. *)
LEMMA SeedNumbers ==
  ASSUME Data
  PROVE  /\ Len(queue) \in Nat /\ Seeds = 1..Len(queue) /\ 1..NumSeeds \subseteq Seeds
         /\ 1 \in Seeds
BY QueueShape, QueueAssumption DEF Data, DataInv, Shape, Seeds

(* The main loop moves to a seed of the queue or past its end. *)
LEMMA AdvanceStays ==
  ASSUME Data, queue_cur \in Seeds, Advance
  PROVE  queue_cur' \in Seeds \cup {NULL}
BY SeedNumbers DEF Advance

(* The dry run steps on, and leaves the seeds after this one as they are.   *)
LEMMA DryRunSteps ==
  ASSUME QueueInv, pc = "dry", DryRunNext, Seeds' = Seeds, virgin' \subseteq Bytes,
         \A e \in Seeds : e # queue_cur => /\ queue'[e].cal_failed = queue[e].cal_failed
                                           /\ HeldBy(e)' \subseteq HeldBy(e)
  PROVE  Cursor' /\ DryInv'
<1>1. queue_cur \in Seeds /\ Len(queue) \in Nat /\ Seeds = 1..Len(queue)
  BY SeedNumbers DEF QueueInv, Cursor
<1>2. CASE queue_cur < Len(queue)
  <2>1. pc' = "dry" /\ queue_cur' = queue_cur + 1 /\ queue_cur' \in Seeds /\ queue_cur' # NULL
    BY <1>1, <1>2 DEF DryRunNext, NULL
  <2>2. ASSUME NEW e \in Seeds, e >= queue_cur'
        PROVE  queue'[e].cal_failed = 0 /\ HeldBy(e)' = {}
    <3>1. e # queue_cur /\ e >= queue_cur
      BY <1>1, <2>1, <2>2
    <3>2. queue[e].cal_failed = 0 /\ HeldBy(e) = {}
      BY <3>1 DEF QueueInv, DryInv
    <3> QED
      BY <3>1, <3>2
  <2> QED
    BY <2>1, <2>2 DEF Cursor, DryInv
<1>3. CASE ~ (queue_cur < Len(queue))
  BY <1>3 DEF DryRunNext, Cursor, DryInv
<1> QED
  BY <1>2, <1>3

(* The seed the dry run is at holds nothing and never failed.               *)
LEMMA DryRunAt ==
  ASSUME QueueInv, pc = "dry"
  PROVE  queue_cur \in Seeds /\ HeldBy(queue_cur) = {} /\ queue[queue_cur].cal_failed = 0
<1>1. queue_cur \in Seeds /\ Seeds = 1..Len(queue) /\ Len(queue) \in Nat
  BY SeedNumbers DEF QueueInv, Cursor
<1>2. queue_cur >= queue_cur
  BY <1>1
<1> QED
  BY <1>1, <1>2 DEF QueueInv, DryInv

(* perform_dry_run calibrates a seed, which then competes for the slots. *)
LEMMA DryRunCalibratesKeeps ==
  ASSUME QueueInv, DryRunCalibrates PROVE QueueInv' /\ Improves
<1>1. PICK factor \in Factors, trace \in (SUBSET Bytes) \ {{}} :
        CalibrateEnds(queue_cur, factor, trace)
  BY DEF DryRunCalibrates
<1> DEFINE won == Wins(queue_cur, factor, trace)
<1>2. /\ pc = "dry" /\ DryRunNext
      /\ UNCHANGED <<queued_favored, pending_favored, pending_not_fuzzed>>
      /\ queue' = Contended(queue_cur, factor, trace)
      /\ top_rated' = Taken(queue_cur, won)
      /\ score_changed' = (score_changed \/ won # {})
      /\ virgin' \subseteq virgin
  BY <1>1 DEF DryRunCalibrates, CalibrateEnds, Contended, Taken, counters
<1>3. queue_cur \in Seeds /\ HeldBy(queue_cur) = {} /\ Data
  BY <1>2, DryRunAt DEF QueueInv
<1>t. trace \in SUBSET Bytes /\ trace # {}
  OBVIOUS
<1>4. won = Wins(queue_cur, factor, trace)
  OBVIOUS
<1> HIDE DEF won
<1>5. /\ DataInv(queue', top_rated', score_changed \/ won # {}, queued_favored,
                 pending_favored, pending_not_fuzzed)
      /\ DOMAIN queue' = Seeds
      /\ \A e \in Seeds : e # queue_cur => /\ queue'[e].cal_failed = queue[e].cal_failed
                                           /\ HeldIn(top_rated', e) \subseteq HeldBy(e)
      /\ \A i \in Bytes : top_rated[i] # NULL =>
           /\ top_rated'[i] # NULL
           /\ queue'[top_rated'[i]].fav_factor <= queue[top_rated[i]].fav_factor
  BY <1>2, <1>3, <1>t, <1>4, Calibrating
<1>6. Data'
  BY <1>2, <1>5 DEF Data
<1>7. Seeds' = Seeds /\ virgin' \subseteq Bytes
  BY <1>2, <1>5 DEF Seeds, QueueInv, Cursor
<1>8. Cursor' /\ DryInv'
  BY <1>2, <1>5, <1>7, DryRunSteps DEF HeldIn, HeldBy
<1> QED
  BY <1>5, <1>6, <1>8 DEF QueueInv, Improves

(* perform_dry_run meets a seed that crashes, times out or is not parsed. *)
LEMMA DryRunFailsKeeps ==
  ASSUME QueueInv, DryRunFails \/ DryRunUnparsed PROVE QueueInv' /\ Improves
<1>1. pc = "dry"
  BY DEF DryRunFails, DryRunUnparsed
<1>2. PICK failures \in 0..CalChances :
        queue' = With(queue, queue_cur, [queue[queue_cur] EXCEPT !.cal_failed = failures])
  <2>1. queue[queue_cur].cal_failed = 0
    BY <1>1, DryRunAt
  <2>2. CalChances \in 0..CalChances /\ 0 + 1 \in 0..CalChances /\ 0 \in 0..CalChances
    BY QueueAssumption
  <2>3. CASE DryRunFails
    <3>1. PICK res \in Fault \ {"NONE", "NOBITS"} :
            queue' = With(queue, queue_cur, [queue[queue_cur] EXCEPT !.cal_failed =
                            IF res \in GiveUpFaults THEN CalChances ELSE @ + 1])
      BY <2>3 DEF DryRunFails
    <3> DEFINE f == IF res \in GiveUpFaults THEN CalChances ELSE queue[queue_cur].cal_failed + 1
    <3>2. f \in 0..CalChances
      BY <2>1, <2>2
    <3>3. queue' = With(queue, queue_cur, [queue[queue_cur] EXCEPT !.cal_failed = f])
      BY <3>1
    <3> HIDE DEF f
    <3> QED
      BY <3>2, <3>3
  <2>4. CASE DryRunUnparsed
    <3>1. PICK res \in Fault :
            queue' = With(queue, queue_cur, [queue[queue_cur] EXCEPT !.cal_failed =
                            IF res \in GiveUpFaults THEN CalChances ELSE @])
      BY <2>4 DEF DryRunUnparsed
    <3> DEFINE f == IF res \in GiveUpFaults THEN CalChances ELSE queue[queue_cur].cal_failed
    <3>2. f \in 0..CalChances
      BY <2>1, <2>2
    <3>3. queue' = With(queue, queue_cur, [queue[queue_cur] EXCEPT !.cal_failed = f])
      BY <3>1
    <3> HIDE DEF f
    <3> QED
      BY <3>2, <3>3
  <2> QED
    BY <2>3, <2>4
<1>3. /\ DryRunNext
      /\ UNCHANGED <<top_rated, score_changed, virgin, queued_favored, pending_favored,
                     pending_not_fuzzed>>
  BY DEF DryRunFails, DryRunUnparsed, counters
<1>4. /\ DataInv(queue', top_rated, score_changed, queued_favored, pending_favored,
                 pending_not_fuzzed)
      /\ Seeds' = Seeds
      /\ \A e \in Seeds : /\ queue'[e].fav_factor = queue[e].fav_factor
                          /\ e # queue_cur => queue'[e] = queue[e]
  BY <1>1, <1>2, DryRunAt, Failing DEF QueueInv
<1>5. Data' /\ virgin' \subseteq Bytes
  BY <1>3, <1>4 DEF Data, QueueInv, Cursor
<1>6. \A e \in Seeds : HeldBy(e)' = HeldBy(e)
  BY <1>3 DEF HeldBy
<1>7. Cursor' /\ DryInv'
  BY <1>1, <1>3, <1>4, <1>5, <1>6, DryRunSteps
<1>8. Improves
  BY <1>3, <1>4, SlotsStay DEF QueueInv
<1> QED
  BY <1>5, <1>7, <1>8 DEF QueueInv

(* cull_queue at the head of the loop, and before it.                       *)
LEMMA LoopHeadKeeps ==
  ASSUME QueueInv, StartFuzzing \/ LoopHead PROVE QueueInv' /\ Improves
<1>1. /\ CullQueue /\ pc' = "fuzz"
      /\ UNCHANGED <<top_rated, pending_not_fuzzed, virgin>>
  BY DEF StartFuzzing, LoopHead
<1>2. /\ DataInv(queue', top_rated, score_changed', queued_favored', pending_favored',
                 pending_not_fuzzed)
      /\ Seeds' = Seeds
  BY <1>1, Culling DEF QueueInv
<1>3. queue_cur' \in Seeds' /\ queue_cur' # NULL
  BY <1>2, SeedNumbers DEF StartFuzzing, LoopHead, QueueInv, Cursor, NULL
<1>4. Data' /\ Cursor' /\ DryInv'
  BY <1>1, <1>2, <1>3 DEF Data, QueueInv, Cursor, DryInv
<1>5. \A e \in Seeds : queue'[e].fav_factor = queue[e].fav_factor
  <2>1. CASE score_changed
    <3> SUFFICES ASSUME NEW e \in Seeds PROVE queue'[e].fav_factor = queue[e].fav_factor
      OBVIOUS
    <3>1. queue'[e] = [queue[e] EXCEPT !.favored = (e \in Favored),
                                       !.fs_redundant = (e \notin Favored)]
      BY <1>1, <2>1 DEF CullQueue
    <3>2. queue[e] \in Entry
      BY QueueShape DEF QueueInv, Data, DataInv, Shape, Seeds
    <3> QED
      BY <3>1, <3>2 DEF Entry
  <2>2. CASE ~score_changed
    BY <1>1, <2>2 DEF CullQueue
  <2> QED
    BY <2>1, <2>2
<1> QED
  BY <1>1, <1>4, <1>5, SlotsStay DEF QueueInv

(* A seed with a failure on it holds nothing, so that it may contend now.   *)
LEMMA FailedSeed ==
  ASSUME QueueInv, pc = "fuzz", queue[queue_cur].cal_failed \in 1..(CalChances - 1)
  PROVE  queue_cur \in Seeds /\ HeldBy(queue_cur) = {}
<1>1. queue_cur \in Seeds
  BY DEF QueueInv, Cursor
<1>2. queue[queue_cur].cal_failed > 0
  BY QueueAssumption
<1> QED
  BY <1>1, <1>2 DEF QueueInv, Data, DataInv, FailedHold, HeldIn, HeldBy, Seeds

(* fuzz_one calibrates again a seed whose calibration failed, and now succeeds. *)
LEMMA RecalibrateSeedKeeps ==
  ASSUME QueueInv, RecalibrateSeed PROVE QueueInv' /\ Improves
<1>1. PICK factor \in Factors, trace \in (SUBSET Bytes) \ {{}} :
        CalibrateEnds(queue_cur, factor, trace)
  BY DEF RecalibrateSeed
<1> DEFINE won == Wins(queue_cur, factor, trace)
<1>2. /\ pc = "fuzz" /\ pc' = "parse" /\ queue_cur' = queue_cur
      /\ queue[queue_cur].cal_failed \in 1..(CalChances - 1)
      /\ UNCHANGED <<queued_favored, pending_favored, pending_not_fuzzed>>
      /\ queue' = Contended(queue_cur, factor, trace)
      /\ top_rated' = Taken(queue_cur, won)
      /\ score_changed' = (score_changed \/ won # {})
      /\ virgin' \subseteq virgin
  BY <1>1 DEF RecalibrateSeed, CalibrateEnds, Contended, Taken, counters
<1>3. queue_cur \in Seeds /\ HeldBy(queue_cur) = {} /\ Data
  BY <1>2, FailedSeed DEF QueueInv
<1>t. trace \in SUBSET Bytes /\ trace # {}
  OBVIOUS
<1>4. won = Wins(queue_cur, factor, trace)
  OBVIOUS
<1> HIDE DEF won
<1>5. /\ DataInv(queue', top_rated', score_changed \/ won # {}, queued_favored,
                 pending_favored, pending_not_fuzzed)
      /\ DOMAIN queue' = Seeds
      /\ \A i \in Bytes : top_rated[i] # NULL =>
           /\ top_rated'[i] # NULL
           /\ queue'[top_rated'[i]].fav_factor <= queue[top_rated[i]].fav_factor
  BY <1>2, <1>3, <1>t, <1>4, Calibrating
<1>6. Data'
  BY <1>2, <1>5 DEF Data
<1>7. Cursor' /\ DryInv'
  BY <1>2, <1>5 DEF QueueInv, Cursor, DryInv, Seeds
<1> QED
  BY <1>5, <1>6, <1>7 DEF QueueInv, Improves

(* Calibrated and abandoned in one visit.                                   *)
LEMMA RecalibrateNoBitsKeeps ==
  ASSUME QueueInv, RecalibrateNoBits PROVE QueueInv' /\ Improves
<1>1. PICK factor \in Factors, trace \in (SUBSET Bytes) \ {{}} :
        LET won == Wins(queue_cur, factor, trace)
        IN  /\ CalibrateResult(trace) = "NOBITS"
            /\ Abandon([e \in Seeds |-> IF e = queue_cur
                                        THEN Scored(queue_cur, factor, trace, won)
                                        ELSE Released(e, won)])
            /\ top_rated' = [i \in Bytes |-> IF i \in won THEN queue_cur ELSE top_rated[i]]
            /\ score_changed' = (score_changed \/ won # {})
  BY DEF RecalibrateNoBits
<1> DEFINE won == Wins(queue_cur, factor, trace)
           entries == Contended(queue_cur, factor, trace)
<1>2. /\ pc = "fuzz" /\ pc' = "loop" /\ Advance /\ virgin' = virgin
      /\ queue[queue_cur].cal_failed \in 1..(CalChances - 1)
  BY DEF RecalibrateNoBits
<1>3. /\ Abandon(entries) /\ top_rated' = Taken(queue_cur, won)
      /\ score_changed' = (score_changed \/ won # {})
  BY <1>1 DEF Contended, Taken
<1>4. queue_cur \in Seeds /\ HeldBy(queue_cur) = {} /\ Data
  BY <1>2, FailedSeed DEF QueueInv
<1>5. trace \in SUBSET Bytes /\ trace # {}
  OBVIOUS
<1>6. won = Wins(queue_cur, factor, trace) /\ entries = Contended(queue_cur, factor, trace)
  OBVIOUS
<1> HIDE DEF won, entries
<1>7. /\ DataInv(entries, top_rated', score_changed', queued_favored, pending_favored,
                 pending_not_fuzzed)
      /\ DOMAIN entries = Seeds
      /\ \A i \in Bytes : top_rated[i] # NULL =>
           /\ top_rated'[i] # NULL
           /\ entries[top_rated'[i]].fav_factor <= queue[top_rated[i]].fav_factor
  BY <1>3, <1>4, <1>5, <1>6, Calibrating
<1>8. /\ DataInv(queue', top_rated', score_changed', queued_favored', pending_favored',
                 pending_not_fuzzed')
      /\ DOMAIN queue' = DOMAIN entries
      /\ \A e \in DOMAIN entries : queue'[e].fav_factor = entries[e].fav_factor
  BY <1>3, <1>4, <1>7, Abandoning
<1>9. \A i \in Bytes : top_rated'[i] # NULL => top_rated'[i] \in DOMAIN entries
  BY <1>7 DEF DataInv, Shape
<1>10. Improves
  BY <1>7, <1>8, <1>9 DEF Improves
<1>11. Data'
  BY <1>8 DEF Data
<1>12. Seeds' = Seeds /\ queue_cur' \in Seeds \cup {NULL}
  BY <1>2, <1>4, <1>7, <1>8, AdvanceStays DEF Seeds
<1>13. Cursor' /\ DryInv'
  BY <1>2, <1>12 DEF QueueInv, Cursor, DryInv
<1> QED
  BY <1>10, <1>11, <1>13 DEF QueueInv

(* fuzz_one calibrates again a seed whose calibration failed, and fails again. *)
LEMMA RecalibrateFailsKeeps ==
  ASSUME QueueInv, RecalibrateFails PROVE QueueInv' /\ Improves
<1> DEFINE failures == queue[queue_cur].cal_failed + 1
<1>1. /\ pc = "fuzz" /\ pc' = "loop" /\ Advance
      /\ queue[queue_cur].cal_failed \in 1..(CalChances - 1)
      /\ UNCHANGED <<top_rated, score_changed, virgin, queued_favored, pending_favored,
                     pending_not_fuzzed>>
      /\ queue' = With(queue, queue_cur, [queue[queue_cur] EXCEPT !.cal_failed = failures])
  BY DEF RecalibrateFails, CalibrateFails, counters
<1>2. failures \in 0..CalChances
  BY <1>1, QueueAssumption
<1> HIDE DEF failures
<1>3. queue_cur \in Seeds /\ HeldBy(queue_cur) = {} /\ Data
  BY <1>1, FailedSeed DEF QueueInv
<1>4. /\ DataInv(queue', top_rated, score_changed, queued_favored, pending_favored,
                 pending_not_fuzzed)
      /\ Seeds' = Seeds
      /\ \A e \in Seeds : queue'[e].fav_factor = queue[e].fav_factor
  BY <1>1, <1>2, <1>3, Failing
<1>5. queue_cur' \in Seeds \cup {NULL}
  BY <1>1, <1>3, AdvanceStays
<1>6. Data' /\ Cursor' /\ DryInv'
  BY <1>1, <1>4, <1>5 DEF Data, QueueInv, Cursor, DryInv
<1> QED
  BY <1>1, <1>3, <1>4, <1>6, SlotsStay DEF QueueInv

(* The visit ends with abandon_entry.                                       *)
LEMMA FinishKeeps ==
  ASSUME QueueInv, NothingToMutate \/ FinishSeed PROVE QueueInv' /\ Improves
<1>1. /\ pc \in {"parse", "mutate"} /\ pc' \in {"loop", "sync"} /\ Abandon(queue)
      /\ UNCHANGED <<top_rated, score_changed, virgin>>
      /\ Advance \/ queue_cur' = queue_cur
      /\ pc' = "sync" => queue_cur' = queue_cur
  BY DEF NothingToMutate, FinishSeed
<1>2. queue_cur \in Seeds /\ Data
  BY <1>1 DEF QueueInv, Cursor
<1>3. /\ DataInv(queue', top_rated, score_changed, queued_favored', pending_favored',
                 pending_not_fuzzed')
      /\ Seeds' = Seeds
      /\ \A e \in Seeds : queue'[e].fav_factor = queue[e].fav_factor
  BY <1>1, <1>2, Abandoning DEF Data, Seeds
<1>4. queue_cur' \in Seeds \cup {NULL} /\ (pc' = "sync" => queue_cur' # NULL)
  <2>1. queue_cur # NULL
    BY <1>1 DEF QueueInv, Cursor
  <2> QED
    BY <1>1, <1>2, <2>1, AdvanceStays
<1>5. Data' /\ Cursor' /\ DryInv'
  BY <1>1, <1>3, <1>4 DEF Data, QueueInv, Cursor, DryInv
<1> QED
  BY <1>1, <1>2, <1>3, <1>5, SlotsStay DEF QueueInv

(* save_if_interesting, for a mutation or an input of another fuzzer.       *)
LEMMA SaveKeeps ==
  ASSUME QueueInv, ExecuteMutation \/ SyncFuzzers PROVE QueueInv' /\ Improves
<1>1. /\ pc \in {"mutate", "sync"} /\ virgin' \subseteq virgin
      /\ UNCHANGED <<pc, top_rated, score_changed, queued_favored, pending_favored, queue_cur>>
      /\ \/ queue' = Queued /\ pending_not_fuzzed' = pending_not_fuzzed + 1
         \/ UNCHANGED <<queue, pending_not_fuzzed>>
  BY DEF ExecuteMutation, SyncFuzzers, SaveIfInteresting
<1>2. CASE queue' = Queued /\ pending_not_fuzzed' = pending_not_fuzzed + 1
  <2>1. /\ DataInv(queue', top_rated, score_changed, queued_favored, pending_favored,
                   pending_not_fuzzed + 1)
        /\ Seeds \subseteq Seeds' /\ \A e \in Seeds : queue'[e] = queue[e]
    BY <1>2, Saving DEF QueueInv
  <2>2. Data' /\ Cursor' /\ DryInv'
    BY <1>1, <1>2, <2>1 DEF Data, QueueInv, Cursor, DryInv
  <2> QED
    BY <1>1, <2>1, <2>2, SlotsStay DEF QueueInv
<1>3. CASE UNCHANGED <<queue, pending_not_fuzzed>>
  <2>1. Data' /\ Cursor' /\ DryInv'
    BY <1>1, <1>3 DEF Data, QueueInv, Cursor, DryInv, Seeds
  <2> QED
    BY <1>1, <1>3, <2>1, SlotsStay DEF QueueInv
<1> QED
  BY <1>1, <1>2, <1>3

(* The steps that only move on, and stuttering.                             *)
LEMMA IdleKeeps ==
  ASSUME QueueInv,
         SkipSeed \/ EnterSeed \/ GiveUpSeed \/ ParseSeed \/ NextSeed \/ Stop \/ UNCHANGED vars
  PROVE  QueueInv' /\ Improves
<1>1. UNCHANGED <<queue, top_rated, score_changed, queued_favored, pending_favored,
                  pending_not_fuzzed, virgin>>
  BY DEF SkipSeed, EnterSeed, GiveUpSeed, ParseSeed, NextSeed, Stop, vars, counters
<1>2. Data' /\ Improves
  BY <1>1, SlotsStay DEF QueueInv, Data
<1>3. \/ pc \in {"fuzz", "sync"} /\ pc' = "loop" /\ Advance
      \/ pc \in {"fuzz", "parse"} /\ pc' \in {"parse", "mutate"} /\ queue_cur' = queue_cur
      \/ pc' = "stopped" /\ queue_cur' = queue_cur
      \/ pc' = pc /\ queue_cur' = queue_cur
  BY DEF SkipSeed, EnterSeed, GiveUpSeed, ParseSeed, NextSeed, Stop, vars
<1>4. CASE pc \in {"fuzz", "sync"} /\ pc' = "loop" /\ Advance
  <2>1. queue_cur' \in Seeds \cup {NULL}
    BY <1>4, AdvanceStays DEF QueueInv, Cursor
  <2> QED
    BY <1>1, <1>2, <1>4, <2>1 DEF QueueInv, Cursor, DryInv, Seeds
<1>5. CASE ~ (pc \in {"fuzz", "sync"} /\ pc' = "loop" /\ Advance)
  BY <1>1, <1>2, <1>3, <1>5 DEF QueueInv, Cursor, DryInv, Seeds, HeldBy
<1> QED
  BY <1>4, <1>5

(* The invariant holds before the dry run. *)
LEMMA QueueInit == Init => QueueInv
<1> SUFFICES ASSUME Init PROVE QueueInv
  OBVIOUS
<1>1. queue = [e \in 1..NumSeeds |-> NewEntry] /\ top_rated = [i \in Bytes |-> NULL]
  BY DEF Init
<1>2. /\ NewEntry \in Entry /\ NewEntry.tc_ref = 0 /\ NewEntry.trace_mini = NoMini
      /\ NewEntry.cal_failed = 0 /\ ~NewEntry.favored /\ ~NewEntry.was_fuzzed
  BY QueueAssumption DEF NewEntry, Entry, NoMini
<1>3. /\ queue \in Seq(Entry) /\ Len(queue) = NumSeeds /\ Seeds = 1..NumSeeds
      /\ DOMAIN queue = 1..NumSeeds /\ \A e \in Seeds : queue[e] = NewEntry
  <2>1. NumSeeds \in Nat /\ queue \in [1..NumSeeds -> Entry]
    BY <1>1, <1>2, QueueAssumption
  <2> QED
    BY <1>1, <2>1, NewQueue DEF Seeds
<1>4. Shape(queue, top_rated)
  BY <1>1, <1>3, QueueAssumption DEF Shape
<1>5. \A e \in Seeds : HeldIn(top_rated, e) = {} /\ HeldBy(e) = {}
  BY <1>1, <1>3 DEF HeldIn, HeldBy, NULL
<1>6. RefsOf(queue, top_rated) /\ FailedHold(queue, top_rated)
  BY <1>2, <1>3, <1>5, FS_EmptySet DEF RefsOf, FailedHold, Seeds
<1>7. FavoredIn(queue) = {} /\ PendingIn(queue) = Seeds
  BY <1>2, <1>3 DEF FavoredIn, PendingIn, Seeds
<1>8. CoverOf(queue, top_rated)
  BY <1>1, <1>7 DEF CoverOf
<1>9. CountsOf(queue, queued_favored, pending_favored, pending_not_fuzzed)
  <2>1. Cardinality(PendingIn(queue)) = NumSeeds
    BY <1>3, <1>7, FS_Interval, QueueAssumption
  <2>2. FavoredIn(queue) \cap PendingIn(queue) = {}
    BY <1>7
  <2> QED
    BY <1>7, <2>1, <2>2, FS_EmptySet DEF CountsOf, Init
<1>10. Data
  BY <1>4, <1>6, <1>8, <1>9 DEF Data, DataInv, Init
<1>11. Cursor
  BY <1>3, QueueAssumption DEF Init, Cursor, NULL
<1>12. DryInv
  BY <1>2, <1>3, <1>5 DEF DryInv
<1> QED
  BY <1>10, <1>11, <1>12 DEF QueueInv

(* Every step keeps the invariant and makes no slot worse. *)
LEMMA QueueStep == ASSUME QueueInv, [Next]_vars PROVE QueueInv' /\ Improves
<1>1. CASE Step
  BY <1>1, DryRunCalibratesKeeps, DryRunFailsKeeps, LoopHeadKeeps, RecalibrateSeedKeeps,
     RecalibrateNoBitsKeeps, RecalibrateFailsKeeps, FinishKeeps, IdleKeeps DEF Step, VisitSeed
<1>2. CASE ~Step
  BY <1>2, SaveKeeps, IdleKeeps DEF Next
<1> QED
  BY <1>1, <1>2

(* The invariant holds in every reachable state. *)
LEMMA QueueInvariance == Spec => []QueueInv
<1>1. QueueInv /\ [Next]_vars => QueueInv'
  BY QueueStep
<1> QED
  BY <1>1, QueueInit, PTL DEF Spec

(* The queue keeps its shape, the reference counts and failures stay in      *)
(* range, and no counter leaves the range of its unsigned type.             *)
THEOREM QueueTypes == Spec => []TypeOK
<1>1. QueueInv => TypeOK
  <2> SUFFICES ASSUME QueueInv PROVE TypeOK
    OBVIOUS
  <2>1. queue \in Seq(Entry) /\ Len(queue) >= NumSeeds /\ top_rated \in [Bytes -> Seeds \cup {NULL}]
    BY DEF QueueInv, Data, DataInv, Shape, Seeds
  <2>2. /\ FavoredIn(queue) \in SUBSET DOMAIN queue /\ PendingIn(queue) \in SUBSET DOMAIN queue
        /\ FavoredIn(queue) \cap PendingIn(queue) \in SUBSET DOMAIN queue
    BY DEF FavoredIn, PendingIn
  <2>3. /\ queued_favored \in 0..Len(queue) /\ pending_favored \in 0..Len(queue)
        /\ pending_not_fuzzed \in 0..Len(queue)
    BY <2>1, <2>2, SeedSets DEF QueueInv, Data, DataInv, CountsOf
  <2> QED
    BY <2>1, <2>3 DEF QueueInv, Data, DataInv, Cursor, TypeOK
<1> QED
  BY <1>1, QueueInvariance, PTL

(* update_bitmap_score counts references exactly: a trace is freed with the  *)
(* last slot of its seed and not before.                                    *)
THEOREM RefCountsAreExact == Spec => []RefCounts
<1>1. QueueInv => RefCounts
  BY DEF QueueInv, Data, DataInv, RefsOf, RefCounts, HeldIn, HeldBy, Seeds
<1> QED
  BY <1>1, QueueInvariance, PTL

(* The greedy walk of cull_queue leaves favored seeds that reach every byte   *)
(* anybody holds, and counts each of them once.                             *)
THEOREM FavoredSeedsCover == Spec => []FavoredCover
<1>1. QueueInv => FavoredCover
  BY DEF QueueInv, Data, DataInv, CoverOf, CountsOf, FavoredIn, FavoredCover, FavoredSeeds, Seeds
<1> QED
  BY <1>1, QueueInvariance, PTL

(* The pending counters, kept by increments and decrements all over the      *)
(* fuzzer, count what they are named for.                                   *)
THEOREM PendingCountsAreExact == Spec => []PendingCounts
<1>1. QueueInv => PendingCounts
  <2> SUFFICES ASSUME QueueInv PROVE PendingCounts
    OBVIOUS
  <2>1. /\ FavoredIn(queue) \cap PendingIn(queue) = {e \in FavoredSeeds : Pending(e)}
        /\ PendingIn(queue) = {e \in Seeds : Pending(e)}
    BY DEF FavoredIn, PendingIn, FavoredSeeds, Pending, Seeds
  <2> QED
    BY <2>1 DEF QueueInv, Data, DataInv, CountsOf, PendingCounts
<1> QED
  BY <1>1, QueueInvariance, PTL

(* A slot of top_rated is never vacated and never goes to a worse seed.     *)
THEOREM SlotsImprove == Spec => SlotsOnlyImprove
<1>1. QueueInv /\ [Next]_vars =>
        [\A i \in Bytes : top_rated[i] # NULL =>
           /\ top_rated'[i] # NULL
           /\ queue'[top_rated'[i]].fav_factor <= queue[top_rated[i]].fav_factor]_vars
  BY QueueStep DEF Improves
<1> QED
  BY <1>1, QueueInvariance, PTL DEF Spec, SlotsOnlyImprove
=============================================================================
