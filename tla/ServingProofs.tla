--------------------------- MODULE ServingProofs ---------------------------
(***************************************************************************)
(* Theorems about what a tab sees: whatever others do to the tables and    *)
(* the disk meanwhile, for any number of jobs, files, deliveries and       *)
(* pages, and any hook.                                                    *)
(***************************************************************************)
EXTENDS Serving, JobRowsProofs, FunctionTheorems, SequenceTheorems,
        WellFoundedInduction

(***************************************************************************)
(* Places: an order without ties numbers a finite set from 1 without gaps  *)
(***************************************************************************)
From(T, at, j)  == {k \in T : at[k] >= at[j]}
Place(T, at, j) == Cardinality(From(T, at, j))

\* A set ordered by at, no two of its members at once.
Ordered(T, at) == /\ IsFiniteSet(T)
                  /\ \A j \in T : at[j] \in Nat
                  /\ \A j, k \in T : at[j] = at[k] => j = k

\* A place is a number up to the size of the set; later means a lower one.
LEMMA PlaceIsNumber ==
  ASSUME NEW T, NEW at, Ordered(T, at), NEW j \in T
  PROVE  /\ Cardinality(T) \in Nat
         /\ Place(T, at, j) \in 1..Cardinality(T)
         /\ \A k \in T : at[k] > at[j] => Place(T, at, k) < Place(T, at, j)
<1>1. IsFiniteSet(T) /\ Cardinality(T) \in Nat
  BY FS_CardinalityType DEF Ordered
<1>2. \A k \in T : /\ From(T, at, k) \in SUBSET T
                   /\ IsFiniteSet(From(T, at, k))
                   /\ Cardinality(From(T, at, k)) \in Nat
                   /\ Cardinality(From(T, at, k)) <= Cardinality(T)
                   /\ k \in From(T, at, k)
  BY <1>1, FS_Subset, FS_CardinalityType DEF From, Ordered
<1>3. Cardinality(From(T, at, j)) # 0
  BY <1>2, FS_EmptySet
<1>4. ASSUME NEW k \in T, at[k] > at[j]
      PROVE  Place(T, at, k) < Place(T, at, j)
  <2>1. From(T, at, k) \in SUBSET From(T, at, j)
    BY <1>4 DEF From, Ordered
  <2>2. j \notin From(T, at, k)
    BY <1>4 DEF From, Ordered
  <2>3. From(T, at, k) # From(T, at, j)
    BY <1>2, <2>2
  <2>4. /\ Cardinality(From(T, at, k)) <= Cardinality(From(T, at, j))
        /\ Cardinality(From(T, at, k)) # Cardinality(From(T, at, j))
    BY <1>2, <2>1, <2>3, FS_Subset
  <2> QED
    BY <1>2, <2>4 DEF Place
<1> QED
  BY <1>1, <1>2, <1>3, <1>4 DEF Place

\* No place has two members, and none is empty.
LEMMA PlacesAreTaken ==
  ASSUME NEW T, NEW at, Ordered(T, at)
  PROVE  /\ \A j, k \in T : Place(T, at, j) = Place(T, at, k) => j = k
         /\ \A i \in 1..Cardinality(T) : \E j \in T : Place(T, at, j) = i
<1> DEFINE n == Cardinality(T)
           f == [j \in T |-> Place(T, at, j)]
<1>1. IsFiniteSet(T) /\ n \in Nat
  BY FS_CardinalityType DEF Ordered
<1>2. \A j \in T : Place(T, at, j) \in 1..n
  BY PlaceIsNumber
<1>3. ASSUME NEW j \in T, NEW k \in T, Place(T, at, j) = Place(T, at, k)
      PROVE  j = k
  <2>1. ~(at[j] > at[k]) /\ ~(at[k] > at[j])
    BY <1>1, <1>2, <1>3, PlaceIsNumber
  <2> QED
    BY <2>1 DEF Ordered
<1>4. f \in [T -> 1..n]
  BY <1>2
<1>5. f \in Injection(T, 1..n)
  BY <1>3, <1>4, Fun_IsInj
<1>6. IsFiniteSet(1..n) /\ Cardinality(1..n) = n
  BY <1>1, FS_Interval
<1>7. f \in Surjection(T, 1..n)
  BY <1>5, <1>6, FS_Injection
<1> HIDE DEF f
<1>8. \A i \in 1..n : \E j \in T : f[j] = i
  BY <1>7, Fun_SurjectionProperties
<1> QED
  BY <1>3, <1>8 DEF f

\* One more, the newest: everyone moves one place down.
LEMMA PlacesAfterCreate ==
  ASSUME NEW T, NEW at, NEW at2, NEW j, Ordered(T, at), j \notin T,
         at2[j] \in Nat, \A k \in T : at2[k] = at[k] /\ at2[j] > at[k]
  PROVE  /\ Ordered(T \cup {j}, at2)
         /\ Cardinality(T \cup {j}) = Cardinality(T) + 1
         /\ Place(T \cup {j}, at2, j) = 1
         /\ \A k \in T :
              Place(T \cup {j}, at2, k) = Place(T, at, k) + 1
<1>1. IsFiniteSet(T \cup {j}) /\ Cardinality(T \cup {j}) = Cardinality(T) + 1
  BY FS_AddElement DEF Ordered
<1>2. Ordered(T \cup {j}, at2)
  BY <1>1 DEF Ordered
<1>3. From(T \cup {j}, at2, j) = {j}
  BY DEF From, Ordered
<1>4. ASSUME NEW k \in T
      PROVE  Place(T \cup {j}, at2, k) = Place(T, at, k) + 1
  <2>1. From(T \cup {j}, at2, k) = From(T, at, k) \cup {j}
    BY <1>4 DEF From, Ordered
  <2>2. IsFiniteSet(From(T, at, k)) /\ j \notin From(T, at, k)
    BY FS_Subset DEF From, Ordered
  <2> QED
    BY <2>1, <2>2, FS_AddElement DEF Place
<1> QED
  BY <1>1, <1>2, <1>3, <1>4, FS_Singleton DEF Place

\* One less: the older ones move one place up.
LEMMA PlacesAfterDelete ==
  ASSUME NEW T, NEW at, NEW j \in T, Ordered(T, at)
  PROVE  /\ Ordered(T \ {j}, at)
         /\ Cardinality(T \ {j}) = Cardinality(T) - 1
         /\ \A k \in T \ {j} :
              Place(T \ {j}, at, k) = IF at[j] >= at[k]
                                       THEN Place(T, at, k) - 1
                                       ELSE Place(T, at, k)
<1>1. IsFiniteSet(T \ {j}) /\ Cardinality(T \ {j}) = Cardinality(T) - 1
  BY FS_RemoveElement DEF Ordered
<1>2. Ordered(T \ {j}, at)
  BY <1>1 DEF Ordered
<1>3. ASSUME NEW k \in T \ {j}
      PROVE  Place(T \ {j}, at, k) = IF at[j] >= at[k]
                                      THEN Place(T, at, k) - 1
                                      ELSE Place(T, at, k)
  <2>1. From(T \ {j}, at, k) = From(T, at, k) \ {j}
    BY DEF From
  <2>2. IsFiniteSet(From(T, at, k)) /\ (j \in From(T, at, k) <=> at[j] >= at[k])
    BY FS_Subset DEF From, Ordered
  <2> QED
    BY <2>1, <2>2, FS_RemoveElement DEF Place
<1> QED
  BY <1>1, <1>2, <1>3

(***************************************************************************)
(* The books of a history: a list of len entries that shows the jobs ids   *)
(* has read the first n places of the jobs T, some of them (old) there     *)
(* from the beginning; so many were added since, so many went.             *)
(***************************************************************************)
Returning(T, at, ids, n)   == {j \in ids \cap T : Place(T, at, j) > n}
Missed(T, at, ids, n, old) == {j \in (old \cap T) \ ids : Place(T, at, j) <= n}

Books(T, at, ids, len, n, old, added, went) ==
  /\ len - Cardinality(ids) + Cardinality(Returning(T, at, ids, n)) <= added
  /\ Cardinality(Missed(T, at, ids, n, old)) <= went
  /\ len # n => Cardinality((old \cap T) \ ids) <= went

\* All that is counted is finite.
LEMMA BooksAreFinite ==
  ASSUME NEW T, NEW at, NEW ids, NEW n, NEW old, IsFiniteSet(T)
  PROVE  /\ IsFiniteSet(Returning(T, at, ids, n))
         /\ IsFiniteSet(Missed(T, at, ids, n, old))
         /\ IsFiniteSet((old \cap T) \ ids)
         /\ Cardinality(Returning(T, at, ids, n)) \in Nat
         /\ Cardinality(Missed(T, at, ids, n, old)) \in Nat
         /\ Cardinality((old \cap T) \ ids) \in Nat
<1>1. /\ Returning(T, at, ids, n) \in SUBSET T
      /\ Missed(T, at, ids, n, old) \in SUBSET T
      /\ (old \cap T) \ ids \in SUBSET T
  BY DEF Returning, Missed
<1>2. \A S \in SUBSET T : IsFiniteSet(S)
  BY FS_Subset
<1> HIDE DEF Returning, Missed
<1> QED
  BY <1>1, <1>2, FS_CardinalityType

\* A set within another and one more element counts at most one more.
LEMMA OneMore ==
  ASSUME NEW S, NEW T, NEW x, IsFiniteSet(T), S \subseteq T \cup {x}
  PROVE  /\ IsFiniteSet(S) /\ Cardinality(S) \in Nat
         /\ Cardinality(T) \in Nat
         /\ Cardinality(S) <= Cardinality(T) + 1
         /\ S \subseteq T => Cardinality(S) <= Cardinality(T)
<1>1. /\ IsFiniteSet(T \cup {x})
      /\ Cardinality(T \cup {x}) <= Cardinality(T) + 1
      /\ Cardinality(T) \in Nat /\ Cardinality(T \cup {x}) \in Nat
  BY FS_AddElement, FS_CardinalityType
<1>2. /\ IsFiniteSet(S) /\ Cardinality(S) <= Cardinality(T \cup {x})
  BY <1>1, FS_Subset
<1> QED
  BY <1>1, <1>2, FS_Subset, FS_CardinalityType

\* A new job pushes at most one that was shown beyond the places read.
LEMMA BooksAfterCreate ==
  ASSUME NEW T, NEW at, NEW at2, NEW j, Ordered(T, at), j \notin T,
         at2[j] \in Nat, \A k \in T : at2[k] = at[k] /\ at2[j] > at[k],
         NEW ids, j \notin ids, IsFiniteSet(ids),
         NEW len \in Nat, NEW n \in Nat, NEW old, j \notin old,
         NEW added \in Nat, NEW went \in Nat,
         Books(T, at, ids, len, n, old, added, went)
  PROVE  Books(T \cup {j}, at2, ids, len, n, old, added + 1, went)
<1> DEFINE U == T \cup {j}
<1>1. /\ IsFiniteSet(T) /\ IsFiniteSet(U) /\ Cardinality(ids) \in Nat
      /\ \A k \in T : Place(T, at, k) \in Nat
      /\ \A k \in T : Place(U, at2, k) = Place(T, at, k) + 1
  <2>1. IsFiniteSet(T) /\ Cardinality(ids) \in Nat
    BY FS_CardinalityType DEF Ordered
  <2>2. /\ Ordered(U, at2)
        /\ \A k \in T : Place(U, at2, k) = Place(T, at, k) + 1
    BY PlacesAfterCreate
  <2>3. \A k \in T : Place(T, at, k) \in Nat
    BY PlaceIsNumber
  <2> QED
    BY <2>1, <2>2, <2>3 DEF Ordered
<1>2. Cardinality(Returning(U, at2, ids, n))
        <= Cardinality(Returning(T, at, ids, n)) + 1
  <2> DEFINE last == CHOOSE k \in T : Place(T, at, k) = n
  <2>1. \A k \in T : Place(T, at, k) = n => k = last
    BY PlacesAreTaken
  <2> HIDE DEF last
  <2>2. Returning(U, at2, ids, n) \subseteq Returning(T, at, ids, n) \cup {last}
    BY <1>1, <2>1 DEF Returning
  <2> QED
    BY <1>1, <2>2, BooksAreFinite, OneMore
<1>3. /\ Missed(U, at2, ids, n, old) \subseteq Missed(T, at, ids, n, old)
      /\ (old \cap U) \ ids = (old \cap T) \ ids
  BY <1>1 DEF Missed
<1>4. Cardinality(Missed(U, at2, ids, n, old))
        <= Cardinality(Missed(T, at, ids, n, old))
  BY <1>1, <1>3, BooksAreFinite, FS_Subset
<1>5. /\ Cardinality(Returning(U, at2, ids, n)) \in Nat
      /\ Cardinality(Returning(T, at, ids, n)) \in Nat
      /\ Cardinality(Missed(U, at2, ids, n, old)) \in Nat
      /\ Cardinality(Missed(T, at, ids, n, old)) \in Nat
  BY <1>1, BooksAreFinite
<1>6. /\ len - Cardinality(ids) + Cardinality(Returning(T, at, ids, n)) <= added
      /\ Cardinality(Missed(T, at, ids, n, old)) <= went
      /\ len # n => Cardinality((old \cap T) \ ids) <= went
  BY DEF Books
<1>7. /\ len - Cardinality(ids) + Cardinality(Returning(U, at2, ids, n))
           <= added + 1
      /\ Cardinality(Missed(U, at2, ids, n, old)) <= went
      /\ len # n => Cardinality((old \cap U) \ ids) <= went
  <2> DEFINE c  == Cardinality(ids)
             r  == Cardinality(Returning(T, at, ids, n))
             r2 == Cardinality(Returning(U, at2, ids, n))
             m  == Cardinality(Missed(T, at, ids, n, old))
             m2 == Cardinality(Missed(U, at2, ids, n, old))
  <2>1. /\ c \in Nat /\ r \in Nat /\ r2 \in Nat /\ m \in Nat /\ m2 \in Nat
        /\ r2 <= r + 1 /\ m2 <= m /\ len - c + r <= added /\ m <= went
    BY <1>1, <1>2, <1>4, <1>5, <1>6
  <2> HIDE DEF c, r, r2, m, m2
  <2>2. len - c + r2 <= added + 1 /\ m2 <= went
    BY <2>1
  <2> QED
    BY <1>3, <1>6, <2>2 DEF c, r2, m2
<1> QED
  BY <1>7 DEF Books

\* A job that goes lets at most one other slip into the places read, unseen.
LEMMA BooksAfterDelete ==
  ASSUME NEW T, NEW at, NEW j \in T, Ordered(T, at),
         NEW ids, IsFiniteSet(ids),
         NEW len \in Nat, NEW n \in Nat, NEW old,
         NEW added \in Nat, NEW went \in Nat,
         Books(T, at, ids, len, n, old, added, went)
  PROVE  Books(T \ {j}, at, ids, len, n, old, added, went + 1)
<1> DEFINE U == T \ {j}
<1>1. /\ IsFiniteSet(T) /\ IsFiniteSet(U) /\ Cardinality(ids) \in Nat
      /\ \A k \in T : Place(T, at, k) \in Nat
      /\ \A k \in U : Place(U, at, k) \in {Place(T, at, k), Place(T, at, k) - 1}
  <2>1. IsFiniteSet(T) /\ Cardinality(ids) \in Nat
    BY FS_CardinalityType DEF Ordered
  <2>2. /\ Ordered(U, at)
        /\ \A k \in U : Place(U, at, k) \in {Place(T, at, k), Place(T, at, k) - 1}
    BY PlacesAfterDelete
  <2>3. \A k \in T : Place(T, at, k) \in Nat
    BY PlaceIsNumber
  <2> QED
    BY <2>1, <2>2, <2>3 DEF Ordered
<1>2. Returning(U, at, ids, n) \subseteq Returning(T, at, ids, n)
  BY <1>1 DEF Returning
<1>3. Cardinality(Missed(U, at, ids, n, old))
        <= Cardinality(Missed(T, at, ids, n, old)) + 1
  <2> DEFINE next == CHOOSE k \in T : Place(T, at, k) = n + 1
  <2>1. \A k \in T : Place(T, at, k) = n + 1 => k = next
    BY PlacesAreTaken
  <2> HIDE DEF next
  <2>2. Missed(U, at, ids, n, old) \subseteq Missed(T, at, ids, n, old) \cup {next}
    <3> SUFFICES ASSUME NEW k \in (old \cap U) \ ids, Place(U, at, k) <= n
                 PROVE  Place(T, at, k) <= n \/ k = next
      BY DEF Missed
    <3>1. k \in U /\ k \in T
      OBVIOUS
    <3>2. Place(T, at, k) <= n + 1
      BY <1>1, <3>1
    <3> QED
      BY <1>1, <2>1, <3>1, <3>2
  <2> QED
    BY <1>1, <2>2, BooksAreFinite, OneMore
<1>4. (old \cap U) \ ids \subseteq (old \cap T) \ ids
  OBVIOUS
<1>5. /\ Cardinality(Returning(U, at, ids, n))
           <= Cardinality(Returning(T, at, ids, n))
      /\ Cardinality((old \cap U) \ ids) <= Cardinality((old \cap T) \ ids)
  BY <1>1, <1>2, <1>4, BooksAreFinite, FS_Subset
<1>6. /\ Cardinality(Returning(U, at, ids, n)) \in Nat
      /\ Cardinality(Returning(T, at, ids, n)) \in Nat
      /\ Cardinality(Missed(U, at, ids, n, old)) \in Nat
      /\ Cardinality(Missed(T, at, ids, n, old)) \in Nat
      /\ Cardinality((old \cap U) \ ids) \in Nat
      /\ Cardinality((old \cap T) \ ids) \in Nat
  BY <1>1, BooksAreFinite
<1> HIDE DEF U
<1> QED
  BY <1>1, <1>3, <1>5, <1>6 DEF Books, U

\* The next page: the jobs of the next size places, as many as there are.
LEMMA BooksAfterRead ==
  ASSUME NEW T, NEW at, Ordered(T, at), NEW ids, IsFiniteSet(ids),
         NEW n \in Nat, NEW size \in Nat, NEW old,
         NEW added \in Nat, NEW went \in Nat,
         Books(T, at, ids, n, n, old, added, went),
         NEW page2, page2 = {j \in T : Place(T, at, j) \in (n + 1)..(n + size)},
         NEW got \in Nat, got = Cardinality(page2),
         got < size => Cardinality(T) < n + size
  PROVE  Books(T, at, ids \cup page2, n + got, n + size, old, added, went)
<1> DEFINE R == Returning(T, at, ids, n)
           S == Returning(T, at, ids \cup page2, n + size)
<1>1. /\ IsFiniteSet(T) /\ Cardinality(T) \in Nat /\ Cardinality(ids) \in Nat
      /\ \A k \in T : Place(T, at, k) \in 1..Cardinality(T)
  BY PlaceIsNumber, FS_CardinalityType DEF Ordered
<1>2. page2 \in SUBSET T
  OBVIOUS
<1>3. IsFiniteSet(page2)
  BY <1>1, <1>2, FS_Subset
<1>4. /\ IsFiniteSet(ids \cup page2)
      /\ Cardinality(ids \cup page2) = Cardinality(ids) + got
                                         - Cardinality(ids \cap page2)
  BY <1>3, FS_Union
<1>5. ids \cap page2 = R \cap page2 /\ S = R \ page2
  BY <1>1 DEF Returning
<1>6. IsFiniteSet(R) /\ Cardinality(R) \in Nat
  BY <1>1, BooksAreFinite
<1>7. Cardinality(S) = Cardinality(R) - Cardinality(ids \cap page2)
  BY <1>5, <1>6, FS_Difference
<1>8. /\ Cardinality(ids \cap page2) \in Nat
      /\ Cardinality(ids \cup page2) \in Nat
      /\ Cardinality(S) \in Nat
  BY <1>1, <1>3, <1>4, FS_Intersection, FS_CardinalityType, BooksAreFinite
<1>9. (n + got) - Cardinality(ids \cup page2) + Cardinality(S) <= added
  <2>1. n - Cardinality(ids) + Cardinality(R) <= added
    BY DEF Books
  <2> HIDE DEF R, S
  <2> QED
    BY <1>1, <1>4, <1>6, <1>7, <1>8, <2>1
<1>10. Missed(T, at, ids \cup page2, n + size, old)
         \subseteq Missed(T, at, ids, n, old)
  BY <1>1 DEF Missed
<1>11. Cardinality(Missed(T, at, ids \cup page2, n + size, old)) <= went
  <2>1. /\ Cardinality(Missed(T, at, ids \cup page2, n + size, old)) \in Nat
        /\ Cardinality(Missed(T, at, ids, n, old)) \in Nat
        /\ Cardinality(Missed(T, at, ids \cup page2, n + size, old))
             <= Cardinality(Missed(T, at, ids, n, old))
    BY <1>1, <1>10, BooksAreFinite, FS_Subset
  <2> QED
    BY <2>1 DEF Books
<1>12. ASSUME n + got # n + size
       PROVE  Cardinality((old \cap T) \ (ids \cup page2)) <= went
  <2>1. got <= size
    <3> DEFINE f == [j \in page2 |-> Place(T, at, j)]
    <3>1. f \in [page2 -> (n + 1)..(n + size)]
      OBVIOUS
    <3>2. f \in Injection(page2, (n + 1)..(n + size))
      BY <1>2, <3>1, PlacesAreTaken, Fun_IsInj
    <3>3. /\ IsFiniteSet((n + 1)..(n + size))
          /\ Cardinality((n + 1)..(n + size)) = size
      <4> DEFINE a == n + 1
                 b == n + size
      <4>1. /\ a \in Int /\ b \in Int
            /\ (IF a > b THEN 0 ELSE b - a + 1) = size
        OBVIOUS
      <4> HIDE DEF a, b
      <4>2. /\ IsFiniteSet(a..b)
            /\ Cardinality(a..b) = IF a > b THEN 0 ELSE b - a + 1
        BY <4>1, FS_Interval
      <4> QED
        BY <4>1, <4>2 DEF a, b
    <3> QED
      BY <3>2, <3>3, FS_Injection
  <2>2. \A k \in T : Place(T, at, k) <= n + size
    <3>1. got < size
      BY <1>12, <2>1
    <3>2. Cardinality(T) < n + size
      BY <3>1
    <3> QED
      BY <1>1, <3>2
  <2>3. (old \cap T) \ (ids \cup page2)
          = Missed(T, at, ids \cup page2, n + size, old)
    BY <2>2 DEF Missed
  <2> QED
    BY <1>11, <2>3
<1> HIDE DEF R
<1> QED
  BY <1>9, <1>11, <1>12 DEF Books

\* Nothing read yet.
LEMMA BooksOpen ==
  ASSUME NEW T, NEW at, Ordered(T, at), NEW old,
         NEW added \in Nat, NEW went \in Nat
  PROVE  Books(T, at, {}, 0, 0, old, added, went)
<1>1. Returning(T, at, {}, 0) = {} /\ Missed(T, at, {}, 0, old) = {}
  BY PlaceIsNumber DEF Returning, Missed
<1> QED
  BY <1>1, FS_EmptySet DEF Books

(***************************************************************************)
(* The server's part of the invariant                                      *)
(***************************************************************************)

\* Every job that is there was created, no two at one time.
Timeline ==
  /\ created \in SUBSET Job /\ IsFiniteSet(created)
  /\ createdAt \in [Job -> Nat]
  /\ \A j \in created : createdAt[j] \in 1..Cardinality(created)
  /\ \A j, k \in created : createdAt[j] = createdAt[k] => j = k
  /\ There \subseteq created

\* What a row names is on disk unless something else took it, and no file has
\* more outputs, written or being written, than there were deliveries.
OutputsHold ==
  /\ \A f \in File : ~FileExists(f) => files[f].output = 0
  /\ \A f \in File \ wiped : files[f].output # 0 => Path(f) \in disk
  /\ \A f \in File :
       /\ files[f].output <= starts
       /\ files[f].status = "processing" => files[f].output < starts
  /\ disk \subseteq File \X (1..Starts)
  /\ starts \in 0..Starts /\ again \subseteq Job /\ wiped \subseteq File

\* Until a second delivery, a terminal job has no file without a verdict.
ClosedForGood ==
  \A j \in Job \ again : jobs[j].status \in TerminalJob => AllFinal(j)

ServerInv == TablesInv /\ Timeline /\ OutputsHold /\ ClosedForGood

(***************************************************************************)
(* What a step of the server can do to a reader: jobs come once, the       *)
(* outputs of a job that stays only grow, a job that was terminal looks    *)
(* the same unless it was delivered again, and an output leaves the disk   *)
(* with its job or by something else.                                      *)
(***************************************************************************)
Comes(j) == /\ j \in Job \ created
            /\ There' = There \cup {j} /\ created' = created \cup {j}
            /\ createdAt' = [createdAt EXCEPT ![j] = Cardinality(created) + 1]
Goes(j) == /\ j \in There
           /\ There' = There \ {j}
           /\ UNCHANGED <<created, createdAt>>
Stays == UNCHANGED <<There, created, createdAt>>

OneWay ==
  /\ again \subseteq again' /\ wiped \subseteq wiped'
  /\ Stays \/ \E j \in Job : Comes(j) \/ Goes(j)
  /\ \A j \in There \cap There' :
       /\ Ready(j) \subseteq Ready(j)'
       /\ j \notin again' /\ jobs[j].status \in TerminalJob
            => JobRead(j)' = JobRead(j)
  /\ \A p \in disk \ disk' : JobOf[p[1]] \notin There' \/ p[1] \in wiped'

\* A status computed from the counts is terminal only if all are final.
LEMMA TerminalMeansAllFinal ==
  ASSUME NEW j \in Job, NEW fs,
         \A g \in FilesOf(j) : fs[g].status \in FileStatus,
         ComputeJobStatus(Cardinality(FilesOf(j)), Counted(fs, j, "done"),
                          Counted(fs, j, "failed")) \in TerminalJob
  PROVE  \A g \in FilesOf(j) : fs[g].status \in FinalFile
<1> DEFINE outcome == [g \in FilesOf(j) |-> fs[g].status]
           d == Counted(fs, j, "done")
           e == Counted(fs, j, "failed")
           n == Cardinality(FilesOf(j))
<1>1. outcome \in [FilesOf(j) -> FileStatus]
  OBVIOUS
<1>2. /\ Cardinality(With(outcome, "done")) = d
      /\ Cardinality(With(outcome, "failed")) = e
  <2>1. \A s : With(outcome, s) = {g \in FilesOf(j) : fs[g].status = s}
    BY DEF With
  <2> QED
    BY <2>1 DEF Counted
<1>3. /\ n \in Nat /\ d \in Nat /\ e \in Nat /\ d + e <= n
      /\ d + e = n <=> \A g \in FilesOf(j) : outcome[g] \in FinalFile
  <2> HIDE DEF outcome, d, e, n
  <2>1. IsFiniteSet(FilesOf(j))
    BY FilesOfFinite
  <2> QED
    BY <1>1, <1>2, <2>1, CountsReachTotal DEF n
<1>4. ComputeJobStatus(n, d, e) \in TerminalJob
  OBVIOUS
<1>5. ~(d + e < n)
  <2> HIDE DEF d, e, n
  <2> QED
    BY <1>3, <1>4 DEF ComputeJobStatus, TerminalJob
<1>6. \A g \in FilesOf(j) : outcome[g] \in FinalFile
  BY <1>3, <1>5
<1> QED
  BY <1>6

\* Which jobs are there is a matter of their status alone.
LEMMA ThereByStatus ==
  ASSUME NEW j \in Job
  PROVE  /\ j \in There <=> jobs[j].status # "absent"
         /\ j \in There' <=> jobs'[j].status # "absent"
BY DEF There, JobExists

\* An upload.
LEMMA CreateMoves ==
  ASSUME ServerInv, NEW j \in Job, Create(j)
  PROVE  ServerInv' /\ OneWay
<1> USE JobRowsAssumption DEF ServerInv
<1>1. /\ TablesInv' /\ RowsTypeOK /\ RowsTypeOK'
      /\ j \notin created
      /\ created' = created \cup {j}
      /\ createdAt' = [createdAt EXCEPT ![j] = Cardinality(created) + 1]
      /\ UNCHANGED <<disk, starts, again, wiped>>
  BY InsertKeepsTables DEF Create, InsertJob, TablesInv
<1>2. /\ jobs'[j].status = "pending"
      /\ \A k \in Job : k # j => jobs'[k] = jobs[k]
      /\ \A f \in FilesOf(j) :
           files'[f].status = "pending" /\ files'[f].output = 0
      /\ \A f \in File : JobOf[f] # j => files'[f] = files[f]
  BY <1>1 DEF Create, InsertJob, RowsTypeOK, NewJobRow, NoJobRow, NewFileRow, NoFileRow,
              FilesOf
<1>3. There' = There \cup {j} /\ j \notin There
  BY <1>1, <1>2, ThereByStatus DEF Timeline, There
<1>4. Timeline'
  <2>1. /\ IsFiniteSet(created')
        /\ Cardinality(created') = Cardinality(created) + 1
        /\ Cardinality(created) \in Nat
    BY <1>1, FS_AddElement, FS_CardinalityType DEF Timeline
  <2>2. createdAt' \in [Job -> Nat]
    BY <1>1, <2>1 DEF Timeline
  <2>3. \A k \in created : createdAt'[k] = createdAt[k]
    BY <1>1 DEF Timeline
  <2>4. createdAt'[j] = Cardinality(created) + 1
    BY <1>1 DEF Timeline
  <2>5. \A k \in created' : createdAt'[k] \in 1..Cardinality(created')
    BY <1>1, <2>1, <2>3, <2>4 DEF Timeline
  <2>6. \A k, l \in created' : createdAt'[k] = createdAt'[l] => k = l
    BY <1>1, <2>1, <2>3, <2>4 DEF Timeline
  <2> QED
    BY <1>1, <1>3, <2>1, <2>2, <2>5, <2>6 DEF Timeline
<1>5. OutputsHold'
  <2>1. ASSUME NEW f \in File
        PROVE  /\ ~FileExists(f)' => files'[f].output = 0
               /\ f \notin wiped' /\ files'[f].output # 0 => Path(f)' \in disk'
               /\ files'[f].output <= starts'
               /\ files'[f].status = "processing" => files'[f].output < starts'
    <3>1. CASE f \in FilesOf(j)
      BY <1>1, <1>2, <3>1 DEF FileExists, OutputsHold
    <3>2. CASE f \notin FilesOf(j)
      BY <1>1, <1>2, <3>2 DEF FileExists, OutputsHold, Path, FilesOf
    <3> QED
      BY <3>1, <3>2
  <2> QED
    BY <1>1, <2>1 DEF OutputsHold
<1>6. ClosedForGood'
  <2> SUFFICES ASSUME NEW k \in Job, k \notin again', jobs'[k].status \in TerminalJob
               PROVE  \A f \in FilesOf(k) : files'[f].status \in FinalFile
    BY DEF ClosedForGood, AllFinal, FilesOf
  <2>1. k # j
    BY <1>2 DEF TerminalJob
  <2> QED
    BY <1>1, <1>2, <2>1 DEF ClosedForGood, AllFinal, FilesOf
<1>7. \A k \in There \cap There' : Ready(k)' = Ready(k) /\ JobRead(k)' = JobRead(k)
  BY <1>2, <1>3 DEF Ready, JobRead, FilesOf, There
<1> QED
  BY <1>1, <1>3, <1>4, <1>5, <1>6, <1>7 DEF OneWay, Comes

\* A deletion.
LEMMA DeleteMoves ==
  ASSUME ServerInv, NEW j \in Job, Delete(j)
  PROVE  ServerInv' /\ OneWay /\ j \notin There'
<1> USE JobRowsAssumption DEF ServerInv
<1>1. /\ TablesInv' /\ RowsTypeOK /\ RowsTypeOK'
      /\ j \in There
      /\ disk' = disk \ {Path(f) : f \in FilesOf(j) \ Tampered}
      /\ UNCHANGED <<created, createdAt, starts, again, wiped>>
  BY RemoveKeepsTables DEF Delete, RemoveJob, TablesInv, There
<1>2. /\ jobs'[j].status = "absent"
      /\ \A k \in Job : k # j => jobs'[k] = jobs[k]
      /\ \A f \in FilesOf(j) :
           files'[f].status = "absent" /\ files'[f].output = 0
      /\ \A f \in File : JobOf[f] # j => files'[f] = files[f]
  BY <1>1 DEF Delete, RemoveJob, RowsTypeOK, NoJobRow, NoFileRow, FilesOf
<1>3. There' = There \ {j}
  BY <1>1, <1>2, ThereByStatus DEF There
<1>4. Timeline'
  BY <1>1, <1>3 DEF Timeline
<1>5. OutputsHold'
  <2>1. ASSUME NEW f \in File
        PROVE  /\ ~FileExists(f)' => files'[f].output = 0
               /\ f \notin wiped' /\ files'[f].output # 0 => Path(f)' \in disk'
               /\ files'[f].output <= starts'
               /\ files'[f].status = "processing" => files'[f].output < starts'
    <3>1. CASE f \in FilesOf(j)
      BY <1>1, <1>2, <3>1 DEF FileExists, OutputsHold
    <3>2. CASE f \notin FilesOf(j)
      <4>1. files'[f] = files[f] /\ Path(f)' = Path(f)
        BY <1>2, <3>2 DEF FilesOf, Path
      <4>2. Path(f) \in disk => Path(f) \in disk'
        BY <1>1, <3>2 DEF Path
      <4> QED
        BY <1>1, <4>1, <4>2 DEF FileExists, OutputsHold
    <3> QED
      BY <3>1, <3>2
  <2> QED
    BY <1>1, <2>1 DEF OutputsHold
<1>6. ClosedForGood'
  <2> SUFFICES ASSUME NEW k \in Job, k \notin again', jobs'[k].status \in TerminalJob
               PROVE  \A f \in FilesOf(k) : files'[f].status \in FinalFile
    BY DEF ClosedForGood, AllFinal, FilesOf
  <2>1. k # j
    BY <1>2 DEF TerminalJob
  <2> QED
    BY <1>1, <1>2, <2>1 DEF ClosedForGood, AllFinal, FilesOf
<1>7. \A k \in There \cap There' : Ready(k)' = Ready(k) /\ JobRead(k)' = JobRead(k)
  BY <1>2, <1>3 DEF Ready, JobRead, FilesOf, There
<1>8. \A p \in disk \ disk' : JobOf[p[1]] = j
  BY <1>1 DEF Path, FilesOf
<1> QED
  BY <1>1, <1>3, <1>4, <1>5, <1>6, <1>7, <1>8 DEF OneWay, Goes

\* A delivery that starts: only a second one of a final file reopens it.
LEMMA StartMoves ==
  ASSUME ServerInv, NEW f \in File, Start(f)
  PROVE  ServerInv' /\ OneWay
<1> USE JobRowsAssumption DEF ServerInv
<1> DEFINE j == JobOf[f]
<1>1. /\ TablesInv' /\ RowsTypeOK /\ RowsTypeOK'
      /\ j \in Job /\ j \in There /\ f \in FilesOf(j)
      /\ starts < Starts /\ starts' = starts + 1
      /\ files[f].status # "processing"
      /\ again' = IF files[f].status \in FinalFile THEN again \cup {j} ELSE again
      /\ UNCHANGED <<created, createdAt, disk, wiped>>
  BY StartKeepsTables
     DEF Start, Delivered, TablesInv, RowsTogether, There, FilesOf
<1>2. /\ jobs'[j] = [jobs[j] EXCEPT !.status =
                       IF @ = "pending" THEN "processing" ELSE @]
      /\ \A k \in Job : k # j => jobs'[k] = jobs[k]
      /\ files'[f] = [files[f] EXCEPT !.status = "processing"]
      /\ \A g \in File : g # f => files'[g] = files[g]
  BY <1>1 DEF Start, StartFile, RowsTypeOK
<1>3. /\ jobs[j] \in JobRow /\ files[f] \in FileRow
      /\ jobs'[j].status = IF jobs[j].status = "pending" THEN "processing"
                                                        ELSE jobs[j].status
      /\ files'[f].status = "processing"
      /\ \A g \in File : files'[g].output = files[g].output
  BY <1>1, <1>2 DEF RowsTypeOK, JobRow, FileRow
<1>4. There' = There
  BY <1>2, <1>3, ThereByStatus DEF There
<1>5. Timeline'
  BY <1>1, <1>4 DEF Timeline
<1>6. OutputsHold'
  <2>1. ASSUME NEW g \in File
        PROVE  /\ ~FileExists(g)' => files'[g].output = 0
               /\ g \notin wiped' /\ files'[g].output # 0 => Path(g)' \in disk'
               /\ files'[g].output <= starts'
               /\ files'[g].status = "processing" => files'[g].output < starts'
    <3>1. files'[g].output \in Nat /\ starts \in Nat
      BY <1>1 DEF RowsTypeOK, FileRow, OutputsHold
    <3>2. CASE g = f
      BY <1>1, <1>3, <3>1, <3>2 DEF FileExists, OutputsHold, Path
    <3>3. CASE g # f
      BY <1>1, <1>2, <3>1, <3>3 DEF FileExists, OutputsHold, Path
    <3> QED
      BY <3>2, <3>3
  <2>2. starts' \in 0..Starts /\ again' \subseteq Job
    BY <1>1, ServingAssumption DEF OutputsHold
  <2> QED
    BY <1>1, <2>1, <2>2 DEF OutputsHold
<1>7. ASSUME j \notin again', jobs[j].status \in TerminalJob
      PROVE  FALSE
  BY <1>1, <1>7 DEF ClosedForGood, AllFinal
<1>8. ClosedForGood'
  <2> SUFFICES ASSUME NEW k \in Job, k \notin again', jobs'[k].status \in TerminalJob
               PROVE  \A g \in FilesOf(k) : files'[g].status \in FinalFile
    BY DEF ClosedForGood, AllFinal, FilesOf
  <2>1. k # j
    BY <1>3, <1>7 DEF TerminalJob
  <2> QED
    BY <1>1, <1>2, <2>1 DEF ClosedForGood, AllFinal, FilesOf
<1>9. ASSUME NEW k \in There \cap There'
      PROVE  /\ Ready(k)' = Ready(k)
             /\ k \notin again' /\ jobs[k].status \in TerminalJob
                  => JobRead(k)' = JobRead(k)
  <2>1. Ready(k)' = Ready(k)
    BY <1>3 DEF Ready, FilesOf
  <2>2. k # j => jobs'[k] = jobs[k]
    BY <1>2 DEF There
  <2> QED
    BY <1>7, <2>1, <2>2 DEF JobRead
<1> QED
  BY <1>1, <1>4, <1>5, <1>6, <1>8, <1>9 DEF OneWay, Stays

\* A verdict that keeps what the row names or names something new.
LEMMA VerdictMoves ==
  ASSUME ServerInv, NEW f \in File, FileExists(f), Verdicts(f),
         NEW row \in FileRow, row.status \in FinalFile, FileSettled(f, row),
         row.output \in {files[f].output, files[f].output + 1},
         \/ row.output = files[f].output /\ disk' = disk
         \/ row.output = files[f].output + 1 /\ disk' = disk \cup {<<f, row.output>>},
         UNCHANGED <<created, createdAt, wiped>>
  PROVE  ServerInv' /\ OneWay
<1> USE JobRowsAssumption DEF ServerInv
<1> DEFINE j  == JobOf[f]
           fs == [files EXCEPT ![f] = row]
           counted == [jobs[j] EXCEPT !.processed = @ + 1]
           d == Counted(fs, j, "done")
           e == Counted(fs, j, "failed")
<1>1. /\ TablesInv' /\ RowsTypeOK /\ RowsTypeOK'
      /\ j \in Job /\ j \in There /\ f \in FilesOf(j)
  BY SettledKeepsTables DEF TablesInv, RowsTogether, There, FilesOf
<1>2. starts' \in 0..Starts /\ starts <= starts' /\ row.output <= starts'
  <2>1. starts \in 0..Starts /\ files[f].output \in Nat
    BY <1>1 DEF OutputsHold, RowsTypeOK, FileRow
  <2>2. CASE files[f].status = "processing" /\ UNCHANGED <<starts, again>>
    BY <2>1, <2>2 DEF OutputsHold
  <2>3. CASE files[f].status \in FinalFile /\ Delivered(f)
    BY <2>1, <2>3, ServingAssumption DEF OutputsHold, Delivered
  <2> QED
    BY <2>2, <2>3 DEF Verdicts
<1>3. /\ again \subseteq again' /\ again' \subseteq Job
      /\ j \notin again' => files[f].status = "processing"
  BY <1>1 DEF Verdicts, Delivered, OutputsHold
<1>4. /\ files' = fs
      /\ jobs' = [jobs EXCEPT ![j] = Stamped(counted, d, e)]
  BY DEF FileSettled, Recomputed
<1>5. /\ jobs'[j] = Stamped(counted, d, e)
      /\ \A k \in Job : k # j => jobs'[k] = jobs[k]
      /\ files'[f] = row
      /\ \A g \in File : g # f => files'[g] = files[g]
  BY <1>1, <1>4 DEF RowsTypeOK
<1>6. jobs'[j].status \in JobStatus
      /\ jobs'[j].status = ComputeJobStatus(Cardinality(FilesOf(j)), d, e)
  <2>1. jobs[j] \in JobRow /\ jobs[j].status # "absent"
        /\ jobs[j].total = Cardinality(FilesOf(j))
    BY <1>1, ThereByStatus DEF RowsTypeOK, TablesInv, JobsAreSized, JobExists
  <2>2. /\ counted \in JobRow /\ counted.status # "absent"
        /\ counted.total = Cardinality(FilesOf(j))
    BY <2>1 DEF JobRow
  <2>3. d \in Nat /\ e \in Nat
    BY <1>1, CountIsNat
  <2> HIDE DEF counted, d, e
  <2> QED
    BY <1>5, <2>2, <2>3, StampedIsRow
<1>7. There' = There
  <2>1. jobs'[j].status # "absent"
    BY <1>6 DEF JobStatus
  <2> QED
    BY <1>1, <1>5, <2>1, ThereByStatus DEF There
<1>8. Timeline'
  BY <1>7 DEF Timeline
<1>9. OutputsHold'
  <2>1. ASSUME NEW g \in File
        PROVE  /\ ~FileExists(g)' => files'[g].output = 0
               /\ g \notin wiped' /\ files'[g].output # 0 => Path(g)' \in disk'
               /\ files'[g].output <= starts'
               /\ files'[g].status = "processing" => files'[g].output < starts'
    <3>1. files[g].output \in Nat /\ starts \in Nat /\ starts' \in Nat
      BY <1>1, <1>2 DEF RowsTypeOK, FileRow, OutputsHold
    <3>2. CASE g = f
      <4>1. row.status \notin {"absent", "processing"}
        BY DEF FinalFile
      <4>2. g \notin wiped /\ files[g].output # 0 => Path(g) \in disk
        BY DEF OutputsHold
      <4> QED
        BY <1>2, <1>5, <3>2, <4>1, <4>2 DEF FileExists, Path
    <3>3. CASE g # f
      <4>1. disk \subseteq disk'
        OBVIOUS
      <4> QED
        BY <1>2, <1>5, <3>1, <3>3, <4>1 DEF FileExists, OutputsHold, Path
    <3> QED
      BY <3>2, <3>3
  <2>2. disk' \subseteq File \X (1..Starts)
    <3>1. files[f].output \in Nat /\ row.output \in Nat
      BY <1>1 DEF RowsTypeOK, FileRow
    <3>2. row.output = files[f].output + 1 => row.output \in 1..Starts
      BY <1>2, <3>1, ServingAssumption
    <3> QED
      BY <3>2 DEF OutputsHold
  <2> QED
    BY <1>2, <1>3, <2>1, <2>2 DEF OutputsHold
<1>10. j \notin again' => jobs[j].status \notin TerminalJob
  BY <1>1, <1>3 DEF ClosedForGood, AllFinal, FinalFile
<1>11. ClosedForGood'
  <2> SUFFICES ASSUME NEW k \in Job, k \notin again', jobs'[k].status \in TerminalJob
               PROVE  \A g \in FilesOf(k) : files'[g].status \in FinalFile
    BY DEF ClosedForGood, AllFinal, FilesOf
  <2>1. CASE k = j
    <3>1. \A g \in FilesOf(j) : files'[g].status \in FileStatus
      <4>1. \A g \in FilesOf(j) : g \in File /\ JobOf[g] = j
        BY DEF FilesOf
      <4>2. \A g \in FilesOf(j) : files'[g].status # "absent"
        BY <1>1, <1>7, <4>1 DEF TablesInv, RowsTogether, FileExists, JobExists, There
      <4> QED
        BY <1>1, <4>1, <4>2 DEF RowsTypeOK, FileRow
    <3>2. ComputeJobStatus(Cardinality(FilesOf(j)), Counted(files', j, "done"),
                           Counted(files', j, "failed")) \in TerminalJob
      BY <1>4, <1>6, <2>1
    <3> QED
      BY <1>1, <2>1, <3>1, <3>2, TerminalMeansAllFinal
  <2>2. CASE k # j
    BY <1>3, <1>5, <2>2 DEF ClosedForGood, AllFinal, FilesOf
  <2> QED
    BY <2>1, <2>2
<1>12. ASSUME NEW k \in There \cap There'
       PROVE  /\ Ready(k) \subseteq Ready(k)'
              /\ k \notin again' /\ jobs[k].status \in TerminalJob
                   => JobRead(k)' = JobRead(k)
  <2>1. k \in Job
    BY DEF There
  <2>2. CASE k = j
    <3>1. files[f].output \in Nat
      BY <1>1 DEF RowsTypeOK, FileRow
    <3>2. files[f].output # 0 => row.output # 0
      BY <3>1
    <3> QED
      BY <1>5, <1>10, <2>2, <3>2 DEF Ready, FilesOf
  <2>3. CASE k # j
    <3>1. Ready(k)' = Ready(k)
      BY <1>1, <1>5, <2>3 DEF Ready, FilesOf
    <3> QED
      BY <1>5, <2>1, <2>3, <3>1 DEF JobRead
  <2> QED
    BY <2>2, <2>3
<1> QED
  BY <1>1, <1>3, <1>7, <1>8, <1>9, <1>11, <1>12 DEF OneWay, Stays

\* Something else takes an output.
LEMMA WipeMoves ==
  ASSUME ServerInv, NEW f \in File, Wipe(f)
  PROVE  ServerInv' /\ OneWay
<1> USE DEF ServerInv
<1>1. /\ UNCHANGED <<jobs, files, created, createdAt, starts, again>>
      /\ disk' = disk \ {Path(f)} /\ wiped' = wiped \cup {f}
  BY DEF Wipe, rows
<1>2. TablesInv' /\ There' = There
  BY <1>1, IdleTables DEF There, JobExists
<1>3. Timeline' /\ ClosedForGood'
  BY <1>1, <1>2 DEF Timeline, ClosedForGood, AllFinal, FilesOf
<1>4. OutputsHold'
  BY <1>1 DEF OutputsHold, FileExists, Path
<1>5. \A k : Ready(k)' = Ready(k) /\ JobRead(k)' = JobRead(k)
  BY <1>1 DEF Ready, JobRead, FilesOf
<1>6. \A p \in disk \ disk' : p[1] \in wiped'
  BY <1>1 DEF Path
<1> QED
  BY <1>1, <1>2, <1>3, <1>4, <1>5, <1>6 DEF OneWay, Stays

\* Every step of the server keeps its invariant and is one way.
LEMMA ServerSteps ==
  ASSUME ServerInv,
         \/ \E j \in Job : Create(j) \/ Delete(j)
         \/ \E f \in File : Start(f) \/ Finish(f) \/ Fail(f) \/ Wipe(f)
  PROVE  ServerInv' /\ OneWay
<1>1. ASSUME NEW f \in File, Finish(f)
      PROVE  ServerInv' /\ OneWay
  <2> DEFINE n   == files[f].output + 1
             row == [files[f] EXCEPT !.status = "done", !.output = n]
  <2>1. files[f] \in FileRow
    BY DEF ServerInv, TablesInv, RowsTypeOK
  <2>2. row \in FileRow /\ row.status \in FinalFile /\ row.output = n
    <3>1. n \in Nat
      BY <2>1 DEF FileRow
    <3> HIDE DEF n
    <3> QED
      BY <2>1, <3>1 DEF FileRow, FileStatus, FinalFile
  <2>3. /\ FileExists(f) /\ Verdicts(f) /\ FileSettled(f, row)
        /\ disk' = disk \cup {<<f, row.output>>}
        /\ UNCHANGED <<created, createdAt, wiped>>
    BY <1>1, <2>2 DEF Finish, CompleteFile
  <2> QED
    BY <2>2, <2>3, VerdictMoves
<1>2. ASSUME NEW f \in File, Fail(f)
      PROVE  ServerInv' /\ OneWay
  <2> DEFINE row == [files[f] EXCEPT !.status = "failed", !.error = TRUE]
  <2>1. files[f] \in FileRow
    BY DEF ServerInv, TablesInv, RowsTypeOK
  <2>2. row \in FileRow /\ row.status \in FinalFile /\ row.output = files[f].output
    BY <2>1 DEF FileRow, FileStatus, FinalFile
  <2>3. /\ FileExists(f) /\ Verdicts(f) /\ FileSettled(f, row)
        /\ disk' = disk /\ UNCHANGED <<created, createdAt, wiped>>
    BY <1>2 DEF Fail, FailFile
  <2> QED
    BY <2>2, <2>3, VerdictMoves
<1> QED
  BY <1>1, <1>2, CreateMoves, DeleteMoves, StartMoves, WipeMoves

\* So does one that is none.
LEMMA ServerRests ==
  ASSUME ServerInv, UNCHANGED server
  PROVE  ServerInv' /\ There' = There
<1>1. /\ UNCHANGED <<jobs, files, created, createdAt, disk, starts, again, wiped>>
  BY DEF server
<1>2. TablesInv' /\ There' = There
  BY <1>1, IdleTables DEF ServerInv, There, JobExists
<1>3. Timeline' /\ ClosedForGood'
  BY <1>1, <1>2 DEF ServerInv, Timeline, ClosedForGood, AllFinal, FilesOf
<1>4. OutputsHold'
  BY <1>1 DEF ServerInv, OutputsHold, FileExists, Path
<1> QED
  BY <1>2, <1>3, <1>4 DEF ServerInv

\* The tables before the first upload.
LEMMA ServerStarts == Init => ServerInv
<1> SUFFICES ASSUME Init PROVE ServerInv
  OBVIOUS
<1>1. RowsInit /\ TablesInv
  BY RowsInitConsistent DEF Init
<1>2. There = {}
  BY <1>1 DEF RowsInit, There, JobExists, NoJobRow
<1>3. Timeline
  BY <1>1, <1>2, FS_EmptySet DEF Init, RowsInit, Timeline
<1>4. OutputsHold
  BY <1>1, ServingAssumption DEF Init, RowsInit, OutputsHold, NoFileRow
<1>5. ClosedForGood
  BY <1>1 DEF Init, RowsInit, ClosedForGood, NoJobRow, TerminalJob
<1> QED
  BY <1>1, <1>3, <1>4, <1>5 DEF ServerInv

(***************************************************************************)
(* What GET /jobs answers                                                  *)
(***************************************************************************)
LEMMA MinOfTwo ==
  ASSUME NEW a \in Int, NEW b \in Int
  PROVE  Min({a, b}) = IF a <= b THEN a ELSE b
<1> DEFINE m == IF a <= b THEN a ELSE b
<1>1. /\ m \in {a, b} /\ \A y \in {a, b} : m <= y
      /\ \A x \in {a, b} : (\A y \in {a, b} : x <= y) => x = m
  OBVIOUS
<1> HIDE DEF m
<1> QED
  BY <1>1 DEF Min, m

\* The jobs that are there are ordered by their time of creation.
LEMMA ThereIsOrdered ==
  ASSUME ServerInv
  PROVE  /\ Ordered(There, createdAt)
         /\ IsFiniteSet(There) /\ Cardinality(There) \in Nat
         /\ \A j \in There : Rank(j) = Place(There, createdAt, j)
<1>1. There \in SUBSET created /\ IsFiniteSet(created) /\ created \in SUBSET Job
  BY DEF ServerInv, Timeline
<1>2. IsFiniteSet(There)
  BY <1>1, FS_Subset
<1>3. Ordered(There, createdAt)
  BY <1>1, <1>2 DEF Ordered, ServerInv, Timeline
<1>4. \A j \in There : Rank(j) = Place(There, createdAt, j)
  BY DEF Rank, Place, From
<1> QED
  BY <1>2, <1>3, <1>4, FS_CardinalityType

\* JobRead is of the type of the API, and lists files of the job.
LEMMA JobReadIsRead ==
  ASSUME ServerInv, NEW j \in There
  PROVE  /\ j \in Job /\ j \in created
         /\ JobRead(j) \in Read /\ JobRead(j).id = j
         /\ JobRead(j).ready = Ready(j) /\ Ready(j) \subseteq FilesOf(j)
<1>1. j \in Job /\ jobs[j].status # "absent" /\ j \in created
  BY DEF There, JobExists, ServerInv, Timeline
<1>2. jobs[j] \in JobRow
  BY <1>1 DEF ServerInv, TablesInv, RowsTypeOK
<1>3. jobs[j].status \in JobStatus /\ Ready(j) \subseteq File
  BY <1>1, <1>2 DEF JobRow, Ready, FilesOf
<1> QED
  BY <1>1, <1>3 DEF JobRead, Read, Ready, FilesOf

\* One job per place, from the first place asked for, as many as there are.
LEMMA ListIsPlaces ==
  ASSUME ServerInv, NEW limit \in Nat, NEW offset \in Nat,
         NEW list, list = ListJobs(limit, offset)
  PROVE  /\ list \in Seq(Read) /\ Len(list) <= limit
         /\ \A i \in DOMAIN list : list[i] \in {JobRead(j) : j \in There}
         /\ Ids(list) = {j \in There : Place(There, createdAt, j)
                                         \in (offset + 1)..(offset + limit)}
         /\ Cardinality(Ids(list)) = Len(list)
         /\ Len(list) < limit => Cardinality(There) < offset + limit
<1> DEFINE c == Cardinality(There)
           n == IF limit <= c - offset THEN limit ELSE c - offset
           P(j) == Place(There, createdAt, j)
           job(i) == CHOOSE j \in There : Rank(j) = offset + i
<1>1. /\ Ordered(There, createdAt) /\ IsFiniteSet(There) /\ c \in Nat
      /\ \A j \in There : Rank(j) = P(j) /\ P(j) \in 1..c
  BY ThereIsOrdered, PlaceIsNumber
<1>2. /\ \A j, k \in There : P(j) = P(k) => j = k
      /\ \A i \in 1..c : \E j \in There : P(j) = i
  BY <1>1, PlacesAreTaken
<1>3. n \in Int /\ n <= limit /\ offset + n <= c
  BY <1>1
<1>4. \A i \in 1..n : job(i) \in There /\ P(job(i)) = offset + i
  <2> SUFFICES ASSUME NEW i \in 1..n
               PROVE  job(i) \in There /\ P(job(i)) = offset + i
    OBVIOUS
  <2>1. offset + i \in 1..c
    <3> HIDE DEF n, c
    <3> QED
      BY <1>1, <1>3
  <2>2. \E j \in There : P(j) = offset + i
    BY <1>2, <2>1
  <2>3. \E j \in There : Rank(j) = offset + i
    BY <1>1, <2>2
  <2> HIDE DEF P
  <2> QED
    BY <1>1, <2>3
<1>5. list = [i \in 1..n |-> JobRead(job(i))]
  <2>1. c - offset \in Int
    BY <1>1
  <2>2. Min({limit, c - offset}) = n
    BY <2>1, MinOfTwo
  <2> QED
    BY <2>2 DEF ListJobs
<1>6. \A i \in 1..n : JobRead(job(i)) \in Read /\ JobRead(job(i)).id = job(i)
  BY <1>4, JobReadIsRead
<1> HIDE DEF n, P, job
<1>7. /\ list \in Seq(Read) /\ DOMAIN list = 1..n
      /\ Len(list) = IF n < 0 THEN 0 ELSE n
  <2>1. CASE n >= 0
    BY <1>3, <1>5, <1>6, <2>1
  <2>2. CASE n < 0
    <3>1. 1..n = {} /\ 1..n = 1..0
      BY <1>3, <2>2
    <3>2. list = [i \in 1..0 |-> JobRead(job(i))]
      BY <1>5, <3>1
    <3>3. list \in Seq(Read) /\ Len(list) = 0
      BY <3>2
    <3> QED
      BY <1>5, <2>2, <3>3
  <2> QED
    BY <1>3, <2>1, <2>2
<1>8. Len(list) <= limit
  BY <1>3, <1>7
<1>9. \A i \in DOMAIN list : list[i] = JobRead(job(i)) /\ list[i].id = job(i)
  BY <1>5, <1>6, <1>7
<1>10. Len(list) < limit => c < offset + limit
  BY <1>1, <1>3, <1>7 DEF n
<1>11. Ids(list) = {j \in There : P(j) \in (offset + 1)..(offset + limit)}
  <2>1. ASSUME NEW i \in DOMAIN list
        PROVE  /\ list[i].id \in There
               /\ P(list[i].id) \in (offset + 1)..(offset + limit)
    <3>1. i \in 1..n /\ list[i].id = job(i)
      BY <1>7, <1>9
    <3>2. offset + i \in (offset + 1)..(offset + limit)
      BY <1>3, <3>1
    <3> QED
      BY <1>4, <3>1, <3>2
  <2>2. ASSUME NEW j \in There, P(j) \in (offset + 1)..(offset + limit)
        PROVE  \E i \in DOMAIN list : list[i].id = j
    <3> DEFINE i == P(j) - offset
    <3>1. P(j) \in 1..c
      BY <1>1
    <3>2. i \in 1..n /\ P(j) = offset + i
      BY <1>1, <2>2, <3>1 DEF n
    <3> HIDE DEF i
    <3>3. job(i) = j
      BY <1>2, <1>4, <3>2
    <3> QED
      BY <1>7, <1>9, <3>2, <3>3
  <2> QED
    BY <2>1, <2>2 DEF Ids
<1>12. Cardinality(Ids(list)) = Len(list)
  <2> DEFINE f == [i \in 1..Len(list) |-> list[i].id]
  <2>1. DOMAIN list = 1..Len(list) /\ Len(list) \in Nat
    BY <1>7
  <2>2. f \in [1..Len(list) -> Ids(list)]
    BY <2>1 DEF Ids
  <2>3. \A i, k \in 1..Len(list) : f[i] = f[k] => i = k
    <3> SUFFICES ASSUME NEW i \in 1..Len(list), NEW k \in 1..Len(list), f[i] = f[k]
                 PROVE  i = k
      OBVIOUS
    <3>1. P(job(i)) = offset + i /\ P(job(k)) = offset + k
      BY <1>4, <1>7, <2>1
    <3>2. job(i) = job(k)
      BY <1>9, <2>1
    <3> QED
      BY <3>1, <3>2
  <2>4. \A j \in Ids(list) : \E i \in 1..Len(list) : f[i] = j
    BY <2>1 DEF Ids
  <2> HIDE DEF f
  <2>5. f \in Bijection(1..Len(list), Ids(list))
    BY <2>2, <2>3, <2>4, Fun_IsBij
  <2>6. ExistsBijection(1..Len(list), Ids(list))
    BY <2>5, Fun_ExistsBij
  <2> QED
    BY <2>1, <2>6, FS_CountingElements
<1> QED
  BY <1>4, <1>7, <1>8, <1>9, <1>10, <1>11, <1>12 DEF P

(***************************************************************************)
(* The tab's part of the invariant                                         *)
(***************************************************************************)

\* Only what is mounted ever asks; the page of a job or of a preview has one.
HookInv ==
  /\ hook \in Hook /\ page \in Job \cup {"none"}
  /\ hook \in {"job", "blob"} => page \in Job
  /\ hook = "blob" => reply = Idle
  /\ closing # {} => hook \in {"job", "jobs"}

\* What a read of a job stays good for, however old it is.
StillGood(r) ==
  /\ r \in Read /\ r.id \in created /\ r.ready \subseteq FilesOf(r.id)
  /\ r.id \in There =>
       /\ r.ready \subseteq Ready(r.id)
       /\ r.id \notin again /\ r.status \in TerminalJob
            => r = JobRead(r.id)

AllGood(list) == list \in Seq(Read) /\ \A i \in DOMAIN list : StillGood(list[i])

\* Every read the tab shows or is about to show is.
QueryInv ==
  /\ AllGood(shown) /\ AllGood(reply.jobs)
  /\ pages \in Nat
  /\ reply \in [at : {"idle", "flying", "failed"}, ok : BOOLEAN, jobs : Seq(Read)]
  /\ hook = "job" => Ids(shown) \subseteq {page} /\ Ids(reply.jobs) \subseteq {page}
  /\ hook = "jobs" => Len(shown) <= Limit /\ Len(reply.jobs) <= Limit
  /\ hook = "history" => /\ Len(shown) <= pages * PageSize
                         /\ Len(reply.jobs) <= PageSize
  /\ hook = "blob" => shown = <<>>

\* A deletion the tab has sent is done when it hears of it.
DialogInv == closing \cup told \subseteq created \ There

\* The books of a history balance with what has moved since its first page,
\* with and without the page that is on its way.
Since == Cardinality(created \ (before.there \cup before.gone))
Went  == Cardinality((created \ There) \ before.gone)
Balanced(list, n) ==
  Books(There, createdAt, Ids(list), Len(list), n, before.there, Since, Went)

HistoryInv ==
  hook = "history" =>
    /\ before.there \subseteq created /\ before.gone \subseteq created \ There
    /\ Balanced(shown, pages * PageSize)
    /\ reply.at = "flying" =>
         /\ reply.ok
         /\ Len(shown) = pages * PageSize
         /\ Balanced(shown \o reply.jobs, (pages + 1) * PageSize)

\* A download of the current run is of the selected file, which can be had
\* unless its job is gone or something was wrong with it.
Excused == page \notin There \/ preview.file \in Tampered \cup wiped
Preview == [run : Nat, runs : Nat, file : File \cup {"none"}, url : Nat,
            live : SUBSET Nat, isError : BOOLEAN, lost : SUBSET Nat,
            listed : SUBSET File]
PreviewInv ==
  /\ preview \in Preview /\ preview.run <= preview.runs
  /\ preview.live \subseteq {preview.run} \ {0}
  /\ preview.url \in preview.live \cup {0}
  /\ preview.listed \subseteq FilesOf(page)
  /\ preview.listed # {} => page \in created
  /\ page \in There => preview.listed \subseteq Ready(page)
  /\ preview.run # 0 => preview.file \in preview.listed
  /\ preview.isError =>
       preview.run # 0 /\ (Excused \/ preview.run \in preview.lost)
  /\ \A q \in fetches :
       /\ q.run \in 1..preview.runs
       /\ q.run = preview.run =>
            \/ Excused
            \/ q.ok /\ q.path \in disk /\ q.path[1] = preview.file

SvInv == /\ ServerInv /\ HookInv /\ QueryInv /\ DialogInv /\ GoneStaysGone
         /\ HistoryInv /\ PreviewInv

(***************************************************************************)
(* The steps of the server leave the tab's part alone                      *)
(***************************************************************************)

\* A read stays good.
LEMMA GoodStaysGood ==
  ASSUME ServerInv, OneWay, NEW r, StillGood(r)
  PROVE  StillGood(r)'
<1>1. r.id \in created' /\ (r.id \in There' => r.id \in There)
  BY DEF OneWay, StillGood, Stays, Comes, Goes
<1>2. ASSUME r.id \in There'
      PROVE  /\ r.ready \subseteq Ready(r.id)'
             /\ r.id \notin again' /\ r.status \in TerminalJob
                  => r = JobRead(r.id)'
  <2>1. r.id \in There \cap There'
    BY <1>1, <1>2
  <2>2. /\ Ready(r.id) \subseteq Ready(r.id)'
        /\ r.id \notin again' /\ jobs[r.id].status \in TerminalJob
             => JobRead(r.id)' = JobRead(r.id)
    BY <2>1 DEF OneWay
  <2>3. again \subseteq again'
    BY DEF OneWay
  <2>4. r = JobRead(r.id) => r.status = jobs[r.id].status
    BY DEF JobRead
  <2> QED
    BY <2>1, <2>2, <2>3, <2>4 DEF StillGood
<1> QED
  BY <1>1, <1>2 DEF StillGood, FilesOf

LEMMA AllGoodStays ==
  ASSUME ServerInv, OneWay, NEW list, AllGood(list)
  PROVE  AllGood(list)'
BY GoodStaysGood DEF AllGood

\* The numbers the books are balanced against.
LEMMA SinceAndWent ==
  ASSUME ServerInv
  PROVE  Since \in Nat /\ Went \in Nat
<1>1. /\ created \ (before.there \cup before.gone) \in SUBSET created
      /\ (created \ There) \ before.gone \in SUBSET created
      /\ IsFiniteSet(created)
  BY DEF ServerInv, Timeline
<1> QED
  BY <1>1, FS_Subset, FS_CardinalityType DEF Since, Went

\* The entries of a good list are of finitely many jobs, all created.
LEMMA IdsOfGood ==
  ASSUME ServerInv, NEW list, AllGood(list)
  PROVE  /\ Ids(list) \subseteq created /\ IsFiniteSet(Ids(list))
         /\ Len(list) \in Nat
<1>1. Ids(list) \in SUBSET created
  BY DEF AllGood, StillGood, Ids
<1> QED
  BY <1>1, FS_Subset DEF ServerInv, Timeline, AllGood

\* The books stay balanced.
LEMMA BalancedStays ==
  ASSUME ServerInv, ServerInv', OneWay, UNCHANGED before,
         before.there \subseteq created, before.gone \subseteq created \ There,
         NEW list, AllGood(list), NEW n \in Nat, Balanced(list, n)
  PROVE  /\ Balanced(list, n)'
         /\ before.there \subseteq created'
         /\ before.gone \subseteq created' \ There'
<1> DEFINE old   == before.there
           since == created \ (before.there \cup before.gone)
           went  == (created \ There) \ before.gone
<1>1. /\ Ids(list) \subseteq created /\ IsFiniteSet(Ids(list)) /\ Len(list) \in Nat
      /\ Ordered(There, createdAt) /\ There \subseteq created
      /\ created \subseteq Job /\ createdAt \in [Job -> Nat]
      /\ \A j \in created : createdAt[j] \in 1..Cardinality(created)
      /\ Cardinality(created) \in Nat
  BY IdsOfGood, ThereIsOrdered, FS_CardinalityType DEF ServerInv, Timeline
<1>2. /\ Since \in Nat /\ Went \in Nat
      /\ IsFiniteSet(since) /\ IsFiniteSet(went)
  <2>1. since \in SUBSET created /\ went \in SUBSET created
    OBVIOUS
  <2> QED
    BY <2>1, SinceAndWent, FS_Subset DEF ServerInv, Timeline
<1>3. Books(There, createdAt, Ids(list), Len(list), n, old, Since, Went)
  BY DEF Balanced
<1>4. Balanced(list, n)' <=>
        Books(There', createdAt', Ids(list), Len(list), n, old, Since', Went')
  BY DEF Balanced, Ids
<1>5. CASE Stays
  <2>1. Since' = Since /\ Went' = Went
    BY <1>5 DEF Stays, Since, Went
  <2> QED
    BY <1>3, <1>4, <1>5, <2>1 DEF Stays
<1>6. ASSUME NEW j \in Job, Comes(j)
      PROVE  /\ Balanced(list, n)'
             /\ before.there \subseteq created'
             /\ before.gone \subseteq created' \ There'
  <2>1. /\ j \notin created /\ created' = created \cup {j}
        /\ There' = There \cup {j}
        /\ createdAt' = [createdAt EXCEPT ![j] = Cardinality(created) + 1]
    BY <1>6 DEF Comes
  <2>2. /\ createdAt'[j] \in Nat
        /\ \A k \in There : createdAt'[k] = createdAt[k] /\ createdAt'[j] > createdAt[k]
    BY <1>1, <2>1
  <2>3. Went' = Went
    <3>1. (created' \ There') \ before.gone = went
      BY <1>1, <2>1
    <3> QED
      BY <3>1 DEF Went
  <2>4. Since' = Since + 1
    <3>1. created' \ (before.there \cup before.gone) = since \cup {j}
      BY <2>1
    <3>2. j \notin since
      BY <2>1
    <3> HIDE DEF since
    <3>3. Cardinality(since \cup {j}) = Cardinality(since) + 1
      BY <1>2, <3>2, FS_AddElement
    <3> QED
      BY <3>1, <3>3 DEF Since, since
  <2>5. j \notin There /\ j \notin Ids(list) /\ j \notin old
    BY <1>1, <2>1
  <2> HIDE DEF old
  <2>6. Books(There \cup {j}, createdAt', Ids(list), Len(list), n, old, Since + 1, Went)
    BY <1>1, <1>2, <1>3, <2>2, <2>5, BooksAfterCreate
  <2> QED
    BY <1>1, <1>4, <2>1, <2>3, <2>4, <2>6
<1>7. ASSUME NEW j \in Job, Goes(j)
      PROVE  /\ Balanced(list, n)'
             /\ before.there \subseteq created'
             /\ before.gone \subseteq created' \ There'
  <2>1. /\ j \in There /\ There' = There \ {j}
        /\ created' = created /\ createdAt' = createdAt
    BY <1>7 DEF Goes
  <2>2. Since' = Since
    BY <2>1 DEF Since
  <2>3. Went' = Went + 1
    <3>1. (created' \ There') \ before.gone = went \cup {j}
      BY <1>1, <2>1
    <3>2. j \notin went
      BY <2>1
    <3> HIDE DEF went
    <3>3. Cardinality(went \cup {j}) = Cardinality(went) + 1
      BY <1>2, <3>2, FS_AddElement
    <3> QED
      BY <3>1, <3>3 DEF Went, went
  <2> HIDE DEF old
  <2>4. Books(There \ {j}, createdAt, Ids(list), Len(list), n, old, Since, Went + 1)
    BY <1>1, <1>2, <1>3, <2>1, BooksAfterDelete
  <2> QED
    BY <1>4, <2>1, <2>2, <2>3, <2>4
<1> QED
  BY <1>5, <1>6, <1>7 DEF OneWay, Stays

\* Nothing is one way too: what follows needs no case of its own for a step of
\* the tab.
LEMMA RestIsOneWay ==
  ASSUME ServerInv, UNCHANGED server
  PROVE  ServerInv' /\ OneWay
<1>1. ServerInv' /\ There' = There
  BY ServerRests
<1>2. UNCHANGED <<jobs, files, created, createdAt, disk, starts, again, wiped>>
  BY DEF server
<1>3. \A k : Ready(k)' = Ready(k) /\ JobRead(k)' = JobRead(k)
  BY <1>2 DEF Ready, JobRead, FilesOf
<1> QED
  BY <1>1, <1>2, <1>3 DEF OneWay, Stays

LEMMA DialogStays ==
  ASSUME ServerInv, OneWay, DialogInv, UNCHANGED delete
  PROVE  DialogInv'
BY DEF OneWay, Stays, Comes, Goes, DialogInv, delete

LEMMA QueryStays ==
  ASSUME ServerInv, OneWay, QueryInv, UNCHANGED <<hook, page, query>>
  PROVE  QueryInv'
<1>1. UNCHANGED <<hook, page, shown, pages, reply, before>>
  BY DEF query
<1>2. AllGood(shown)' /\ AllGood(reply.jobs)'
  BY <1>1, AllGoodStays DEF QueryInv, AllGood
<1> QED
  BY <1>1, <1>2 DEF QueryInv, Ids

LEMMA HistoryStays ==
  ASSUME ServerInv, ServerInv', OneWay, QueryInv, HistoryInv,
         UNCHANGED <<hook, query>>
  PROVE  HistoryInv'
<1> SUFFICES ASSUME hook' = "history" PROVE HistoryInv'
  BY DEF HistoryInv
<1>1. UNCHANGED <<hook, shown, pages, reply, before>>
  BY DEF query
<1>2. /\ before.there \subseteq created /\ before.gone \subseteq created \ There
      /\ Balanced(shown, pages * PageSize)
      /\ reply.at = "flying" =>
           /\ reply.ok /\ Len(shown) = pages * PageSize
           /\ Balanced(shown \o reply.jobs, (pages + 1) * PageSize)
  BY <1>1 DEF HistoryInv
<1>3. /\ AllGood(shown) /\ AllGood(reply.jobs) /\ AllGood(shown \o reply.jobs)
      /\ pages \in Nat
  <2>1. AllGood(shown) /\ AllGood(reply.jobs) /\ pages \in Nat
    BY DEF QueryInv
  <2>2. \A i \in DOMAIN (shown \o reply.jobs) :
          \/ i \in DOMAIN shown /\ (shown \o reply.jobs)[i] = shown[i]
          \/ \E k \in DOMAIN reply.jobs : (shown \o reply.jobs)[i] = reply.jobs[k]
    BY <2>1 DEF AllGood
  <2>3. shown \o reply.jobs \in Seq(Read)
    BY <2>1 DEF AllGood
  <2> QED
    BY <2>1, <2>2, <2>3 DEF AllGood
<1>4. pages * PageSize \in Nat /\ (pages + 1) * PageSize \in Nat
  <2>1. PageSize \in Nat
    BY ServingAssumption
  <2> QED
    BY <1>3, <2>1
<1>5. /\ Balanced(shown, pages * PageSize)'
      /\ before'.there \subseteq created'
      /\ before'.gone \subseteq created' \ There'
  <2> DEFINE list == shown
             n    == pages * PageSize
  <2>1. list' = list /\ n' = n
    BY <1>1
  <2>2. Balanced(list, n) /\ AllGood(list) /\ n \in Nat
    BY <1>2, <1>3, <1>4
  <2> HIDE DEF list, n
  <2>3. /\ Balanced(list, n)'
        /\ before.there \subseteq created'
        /\ before.gone \subseteq created' \ There'
    BY <1>1, <1>2, <2>1, <2>2, BalancedStays
  <2> QED
    BY <1>1, <2>1, <2>3 DEF list, n
<1>6. ASSUME reply.at = "flying"
      PROVE  Balanced(shown \o reply.jobs, (pages + 1) * PageSize)'
  <2> DEFINE list == shown \o reply.jobs
             n    == (pages + 1) * PageSize
  <2>1. list' = list /\ n' = n
    BY <1>1
  <2>2. Balanced(list, n) /\ AllGood(list) /\ n \in Nat
    BY <1>2, <1>3, <1>4, <1>6
  <2> HIDE DEF list, n
  <2>3. Balanced(list, n)'
    BY <1>1, <1>2, <2>1, <2>2, BalancedStays
  <2> QED
    BY <2>1, <2>3 DEF list, n
<1> QED
  BY <1>1, <1>2, <1>5, <1>6 DEF HistoryInv

\* An output that leaves the disk excuses a preview.
LEMMA PreviewStays ==
  ASSUME ServerInv, ServerInv', OneWay, PreviewInv, UNCHANGED <<page, blob>>
  PROVE  PreviewInv'
<1>1. UNCHANGED <<page, preview, fetches>>
  BY DEF blob
<1>2. /\ created \subseteq created' /\ wiped \subseteq wiped'
      /\ page \in created => (page \in There' => page \in There)
  BY DEF OneWay, Stays, Comes, Goes
<1>3. Excused /\ page \in created => Excused'
  BY <1>1, <1>2 DEF Excused
<1>4. page \in There' /\ page \in created => Ready(page) \subseteq Ready(page)'
  BY <1>2 DEF OneWay
<1>5. preview.run # 0 => page \in created /\ JobOf[preview.file] = page
  BY DEF PreviewInv, FilesOf
<1>6. ASSUME NEW q \in fetches', q.run = preview'.run
      PROVE  \/ Excused'
             \/ q.ok /\ q.path \in disk' /\ q.path[1] = preview'.file
  <2>1. q \in fetches /\ q.run = preview.run /\ q.run # 0
    BY <1>1, <1>6 DEF PreviewInv
  <2>2. CASE Excused
    BY <1>3, <1>5, <2>1, <2>2
  <2>3. CASE q.ok /\ q.path \in disk /\ q.path[1] = preview.file
    <3>1. CASE q.path \in disk'
      BY <1>1, <2>3, <3>1
    <3>2. CASE q.path \notin disk'
      <4>1. JobOf[q.path[1]] \notin There' \/ q.path[1] \in wiped'
        BY <2>3, <3>2 DEF OneWay
      <4> QED
        BY <1>1, <1>5, <2>1, <2>3, <4>1 DEF Excused
    <3> QED
      BY <3>1, <3>2
  <2> QED
    BY <2>1, <2>2, <2>3 DEF PreviewInv
<1>7. FilesOf(page)' = FilesOf(page)
  BY <1>1 DEF FilesOf
<1>8. preview.isError =>
        preview.run # 0 /\ (Excused' \/ preview.run \in preview.lost)
  BY <1>3, <1>5 DEF PreviewInv
<1>9. preview.listed # {} => page \in created'
  BY <1>2 DEF PreviewInv
<1>10. page \in There' => preview.listed \subseteq Ready(page)'
  BY <1>2, <1>4 DEF PreviewInv
<1> QED
  BY <1>1, <1>6, <1>7, <1>8, <1>9, <1>10 DEF PreviewInv

(***************************************************************************)
(* The steps of the tab                                                    *)
(***************************************************************************)

\* What is read now is good now.
LEMMA ReadIsGood ==
  ASSUME ServerInv, NEW j \in There
  PROVE  StillGood(JobRead(j))
BY JobReadIsRead DEF StillGood

\* An empty reply says nothing wrong.
LEMMA NothingIsGood ==
  AllGood(<<>>) /\ Ids(<<>>) = {} /\ Len(<<>>) = 0 /\ <<>> \in Seq(Read)
BY DEF AllGood, Ids

\* A list that has just been read: good, and of jobs that are there.
LEMMA ListIsGood ==
  ASSUME ServerInv, NEW limit \in Nat, NEW offset \in Nat,
         NEW list, list = ListJobs(limit, offset)
  PROVE  /\ AllGood(list) /\ list \in Seq(Read) /\ Len(list) <= limit
         /\ Ids(list) \subseteq There
<1>1. list \in Seq(Read)
  BY ListIsPlaces
<1>2. Len(list) <= limit
  BY ListIsPlaces
<1>3. \A i \in DOMAIN list : list[i] \in {JobRead(j) : j \in There}
  BY ListIsPlaces
<1>4. Ids(list) = {j \in There : Place(There, createdAt, j)
                                   \in (offset + 1)..(offset + limit)}
  BY ListIsPlaces
<1>5. \A i \in DOMAIN list : StillGood(list[i])
  BY <1>3, ReadIsGood
<1> QED
  BY <1>1, <1>2, <1>4, <1>5 DEF AllGood

\* Outputs are of jobs that are there; what can be listed can be had.
LEMMA ReadyIsThere ==
  ASSUME ServerInv, NEW f \in File, files[f].output # 0
  PROVE  /\ FileExists(f) /\ JobOf[f] \in There
         /\ f \notin Tampered \cup wiped => Download(f) = 200
<1>1. FileExists(f)
  BY DEF ServerInv, OutputsHold
<1>2. JobOf[f] \in There
  BY <1>1, JobRowsAssumption DEF ServerInv, TablesInv, RowsTogether, There
<1>3. f \notin wiped => Path(f) \in disk
  BY DEF ServerInv, OutputsHold
<1> QED
  BY <1>1, <1>2, <1>3 DEF Download

\* What the tab's own steps leave of the invariant when they leave the server.
LEMMA TabRests ==
  ASSUME SvInv, UNCHANGED server
  PROVE  /\ ServerInv' /\ OneWay
         /\ UNCHANGED <<There, created, createdAt, disk, wiped, again>>
         /\ UNCHANGED delete => DialogInv'
         /\ UNCHANGED <<hook, page, query>> => QueryInv' /\ HistoryInv'
         /\ UNCHANGED <<page, blob>> => PreviewInv'
         /\ UNCHANGED <<hook, query, delete>> => GoneStaysGone'
<1>1. ServerInv' /\ OneWay
  BY RestIsOneWay DEF SvInv
<1>2. UNCHANGED <<There, created, createdAt, disk, wiped, again>>
  BY ServerRests DEF SvInv, server
<1>3. UNCHANGED delete => DialogInv'
  BY <1>1, DialogStays DEF SvInv
<1>4. UNCHANGED <<hook, page, query>> => QueryInv' /\ HistoryInv'
  BY <1>1, QueryStays, HistoryStays DEF SvInv
<1>5. UNCHANGED <<page, blob>> => PreviewInv'
  BY <1>1, PreviewStays DEF SvInv
<1>6. UNCHANGED <<hook, query, delete>> => GoneStaysGone'
  BY DEF SvInv, GoneStaysGone, query, delete, Ids
<1> QED
  BY <1>1, <1>2, <1>3, <1>4, <1>5, <1>6

\* A request is answered while nothing is shown yet of what it says: for the
\* hooks that poll, the reply is good, of this page, of a list not too long,
\* and of no job whose deletion the tab has handled.
LEMMA AskedAnew ==
  ASSUME SvInv, UNCHANGED <<server, hook, page, shown, pages, before, blob>>,
         hook \in {"job", "jobs"}, DialogInv',
         closing' # {} => closing # {},
         \/ hook = "jobs" /\ reply' = Answered(ListJobs(Limit, 0))
         \/ hook = "job" /\ JobExists(page) /\ reply' = Answered(<<JobRead(page)>>)
         \/ hook = "job" /\ reply' = NotFound
  PROVE  SvInv'
<1>1. /\ ServerInv' /\ OneWay /\ PreviewInv'
      /\ UNCHANGED <<There, created, createdAt, disk, wiped, again>>
  BY TabRests
<1>2. /\ reply'.jobs \in Seq(Read) /\ AllGood(reply'.jobs) /\ reply'.at = "flying"
      /\ Ids(reply'.jobs) \subseteq There
      /\ hook = "job" => Ids(reply'.jobs) \subseteq {page}
      /\ hook = "jobs" => Len(reply'.jobs) <= Limit
      /\ reply' \in [at : {"idle", "flying", "failed"}, ok : BOOLEAN,
                     jobs : Seq(Read)]
  <2>1. CASE hook = "jobs" /\ reply' = Answered(ListJobs(Limit, 0))
    <3> DEFINE list == ListJobs(Limit, 0)
    <3>1. reply' = [at |-> "flying", ok |-> TRUE, jobs |-> list]
      BY <2>1 DEF Answered
    <3>2. Limit \in Nat /\ 0 \in Nat /\ ServerInv
      BY ServingAssumption DEF SvInv
    <3>3. /\ AllGood(list) /\ list \in Seq(Read) /\ Len(list) <= Limit
          /\ Ids(list) \subseteq There
      BY <3>2, ListIsGood
    <3> HIDE DEF list
    <3>4. /\ reply'.jobs = list /\ reply'.at = "flying"
          /\ reply' \in [at : {"idle", "flying", "failed"}, ok : BOOLEAN,
                         jobs : Seq(Read)]
      BY <3>1, <3>3
    <3> QED
      BY <2>1, <3>3, <3>4
  <2>2. CASE hook = "job" /\ JobExists(page) /\ reply' = Answered(<<JobRead(page)>>)
    <3> DEFINE r == JobRead(page)
    <3>1. page \in There
      BY <2>2 DEF SvInv, HookInv, There
    <3>2. StillGood(r) /\ r \in Read /\ r.id = page
      BY <3>1, ReadIsGood, JobReadIsRead DEF SvInv
    <3>3. <<r>> \in Seq(Read) /\ DOMAIN <<r>> = {1} /\ <<r>>[1] = r
      BY <3>2
    <3>4. reply' = [at |-> "flying", ok |-> TRUE, jobs |-> <<r>>]
      BY <2>2 DEF Answered
    <3> HIDE DEF r
    <3>5. AllGood(<<r>>) /\ Ids(<<r>>) = {page}
      BY <3>2, <3>3 DEF AllGood, Ids
    <3>6. /\ reply'.jobs = <<r>> /\ reply'.at = "flying"
          /\ reply' \in [at : {"idle", "flying", "failed"}, ok : BOOLEAN,
                         jobs : Seq(Read)]
      BY <3>2, <3>3, <3>4
    <3> QED
      BY <2>2, <3>1, <3>3, <3>5, <3>6
  <2>3. CASE hook = "job" /\ reply' = NotFound
    BY <2>3, NothingIsGood DEF NotFound
  <2> QED
    BY <2>1, <2>2, <2>3
<1>3. AllGood(shown)' /\ AllGood(reply.jobs)'
  <2>1. AllGood(shown)'
    <3>1. AllGood(shown)
      BY DEF SvInv, QueryInv
    <3>2. \A list : AllGood(list) => AllGood(list)'
      BY <1>1, AllGoodStays DEF SvInv
    <3> QED
      BY <3>1, <3>2 DEF AllGood
  <2>2. AllGood(reply.jobs)'
    <3>1. \A list : AllGood(list) => AllGood(list)'
      BY <1>1, AllGoodStays DEF SvInv
    <3> QED
      BY <1>2, <3>1 DEF AllGood
  <2> QED
    BY <2>1, <2>2
<1>4. QueryInv'
  BY <1>2, <1>3 DEF SvInv, QueryInv, Ids
<1>5. HookInv'
  BY DEF SvInv, HookInv
<1>6. GoneStaysGone'
  BY <1>1, <1>2 DEF SvInv, GoneStaysGone, DialogInv, Ids
<1>7. HistoryInv'
  BY DEF HistoryInv
<1> QED
  BY <1>1, <1>4, <1>5, <1>6, <1>7 DEF SvInv

LEMMA PollKeeps ==
  ASSUME SvInv, Poll
  PROVE  SvInv'
<1>1. /\ UNCHANGED <<server, hook, page, shown, pages, before, blob, delete>>
      /\ hook \in {"job", "jobs"}
      /\ \/ hook = "jobs" /\ reply' = Answered(ListJobs(Limit, 0))
         \/ hook = "job" /\ JobExists(page) /\ reply' = Answered(<<JobRead(page)>>)
         \/ hook = "job" /\ reply' = NotFound
  BY DEF Poll
<1>2. DialogInv' /\ (closing' # {} => closing # {})
  BY <1>1, TabRests DEF delete
<1> QED
  BY <1>1, <1>2, AskedAnew

LEMMA DeletedKeeps ==
  ASSUME SvInv, Deleted
  PROVE  SvInv'
<1>1. /\ UNCHANGED <<server, hook, page, shown, pages, before, blob>>
      /\ closing # {} /\ closing' = {} /\ told' = told \cup closing
      /\ hook \in {"job", "jobs"}
      /\ \/ hook = "jobs" /\ reply' = Answered(ListJobs(Limit, 0))
         \/ hook = "job" /\ reply' = NotFound
  BY DEF Deleted, SvInv, HookInv
<1>2. DialogInv'
  BY <1>1, TabRests DEF SvInv, DialogInv
<1> QED
  BY <1>1, <1>2, AskedAnew

\* The dialog hears nothing: the deletion may be done all the same.
LEMMA DeleteLostKeeps ==
  ASSUME SvInv, DeleteLost
  PROVE  SvInv'
<1>1. UNCHANGED <<server, hook, page, query, told, blob>> /\ closing' = {}
  BY DEF DeleteLost
<1>2. ServerInv' /\ QueryInv' /\ HistoryInv' /\ PreviewInv'
  BY <1>1, TabRests
<1>3. DialogInv'
  BY <1>1, TabRests DEF SvInv, DialogInv
<1>4. HookInv' /\ GoneStaysGone'
  BY <1>1 DEF SvInv, HookInv, GoneStaysGone, query, Ids
<1> QED
  BY <1>2, <1>3, <1>4 DEF SvInv

\* The request is lost, or its reply.
LEMMA LostKeeps ==
  ASSUME SvInv, Lost
  PROVE  SvInv'
<1>1. /\ UNCHANGED <<server, hook, page, shown, pages, before, delete, blob>>
      /\ reply.at = "flying"
      /\ reply' = [at |-> "failed", ok |-> TRUE, jobs |-> <<>>]
  BY DEF Lost, Idle
<1>2. ServerInv' /\ OneWay /\ DialogInv' /\ PreviewInv'
  BY <1>1, TabRests
<1>3. HookInv'
  BY <1>1 DEF SvInv, HookInv, Idle, delete
<1>4. reply'.jobs = <<>> /\ reply'.at = "failed"
  BY <1>1
<1>5. AllGood(shown)' /\ AllGood(reply.jobs)'
  <2>1. \A list : AllGood(list) => AllGood(list)'
    BY <1>2, AllGoodStays DEF SvInv
  <2>2. AllGood(shown) /\ AllGood(<<>>)
    BY NothingIsGood DEF SvInv, QueryInv
  <2> QED
    BY <1>1, <1>4, <2>1, <2>2 DEF AllGood
<1>6. QueryInv'
  <2>1. Ids(reply.jobs)' = {} /\ Len(reply'.jobs) = 0
    BY <1>4, NothingIsGood DEF Ids
  <2>2. reply' \in [at : {"idle", "flying", "failed"}, ok : BOOLEAN,
                    jobs : Seq(Read)]
    BY <1>1, NothingIsGood
  <2>3. Limit \in Nat /\ PageSize \in Nat /\ 0 <= Limit /\ 0 <= PageSize
    BY ServingAssumption
  <2> QED
    BY <1>1, <1>5, <2>1, <2>2, <2>3 DEF SvInv, QueryInv, Ids
<1>7. GoneStaysGone'
  BY <1>1, <1>4, NothingIsGood DEF SvInv, GoneStaysGone, Ids, delete
<1>8. HistoryInv'
  <2> SUFFICES ASSUME hook' = "history" PROVE HistoryInv'
    BY DEF HistoryInv
  <2>1. hook = "history"
    BY <1>1
  <2>2. /\ before.there \subseteq created /\ before.gone \subseteq created \ There
        /\ Balanced(shown, pages * PageSize)
    BY <2>1 DEF SvInv, HistoryInv
  <2>3. AllGood(shown) /\ pages \in Nat /\ PageSize \in Nat
    BY ServingAssumption DEF SvInv, QueryInv
  <2>4. pages * PageSize \in Nat
    BY <2>3
  <2> DEFINE list == shown
             n    == pages * PageSize
  <2>5. list' = list /\ n' = n
    BY <1>1
  <2>6. Balanced(list, n) /\ AllGood(list) /\ n \in Nat
    BY <2>2, <2>3, <2>4
  <2> HIDE DEF list, n
  <2>7. /\ Balanced(list, n)'
        /\ before.there \subseteq created'
        /\ before.gone \subseteq created' \ There'
    BY <1>1, <1>2, <2>2, <2>5, <2>6, BalancedStays DEF SvInv
  <2> QED
    BY <1>1, <1>4, <2>5, <2>7 DEF HistoryInv, list, n
<1> QED
  BY <1>2, <1>3, <1>6, <1>7, <1>8 DEF SvInv

\* Someone confirms the deletion: the rows go at once, the tab hears later.
LEMMA ConfirmKeeps ==
  ASSUME SvInv, NEW j \in Job, Confirm(j)
  PROVE  SvInv'
<1>1. /\ hook \in {"job", "jobs"} /\ closing' = {j} /\ Delete(j)
      /\ UNCHANGED <<hook, page, query, told, blob>>
  BY DEF Confirm
<1>2. ServerInv' /\ OneWay /\ j \notin There' /\ j \in created'
  <2>1. j \in There
    BY <1>1 DEF Delete, RemoveJob, There
  <2>2. j \in created /\ created' = created
    BY <1>1, <2>1 DEF SvInv, ServerInv, Timeline, Delete, RemoveJob
  <2> QED
    BY <1>1, <2>2, DeleteMoves DEF SvInv
<1>3. QueryInv' /\ HistoryInv' /\ PreviewInv'
  BY <1>1, <1>2, QueryStays, HistoryStays, PreviewStays DEF SvInv
<1>4. DialogInv'
  BY <1>1, <1>2 DEF SvInv, DialogInv, OneWay, Stays, Comes, Goes
<1>5. HookInv' /\ GoneStaysGone'
  BY <1>1 DEF SvInv, HookInv, GoneStaysGone, query, Ids
<1> QED
  BY <1>2, <1>3, <1>4, <1>5 DEF SvInv

\* Reading on: the ids of what is shown and of what comes after it.
LEMMA IdsOfBoth ==
  ASSUME NEW s, NEW t, AllGood(s), AllGood(t)
  PROVE  /\ AllGood(s \o t) /\ Ids(s \o t) = Ids(s) \cup Ids(t)
         /\ Len(s \o t) = Len(s) + Len(t)
<1>1. s \in Seq(Read) /\ t \in Seq(Read)
  BY DEF AllGood
<1>2. /\ s \o t \in Seq(Read) /\ Len(s \o t) = Len(s) + Len(t)
      /\ DOMAIN (s \o t) = 1..(Len(s) + Len(t))
      /\ DOMAIN s = 1..Len(s) /\ DOMAIN t = 1..Len(t)
      /\ Len(s) \in Nat /\ Len(t) \in Nat
  BY <1>1
<1>3. /\ \A i \in DOMAIN s : i \in DOMAIN (s \o t) /\ (s \o t)[i] = s[i]
      /\ \A i \in DOMAIN t : /\ i + Len(s) \in DOMAIN (s \o t)
                             /\ (s \o t)[i + Len(s)] = t[i]
  BY <1>1, <1>2
<1>4. \A i \in DOMAIN (s \o t) :
        \/ i \in DOMAIN s /\ (s \o t)[i] = s[i]
        \/ \E k \in DOMAIN t : (s \o t)[i] = t[k]
  <2> SUFFICES ASSUME NEW i \in DOMAIN (s \o t), i \notin DOMAIN s
               PROVE  \E k \in DOMAIN t : (s \o t)[i] = t[k]
    BY <1>3
  <2>1. i - Len(s) \in DOMAIN t /\ (s \o t)[i] = t[i - Len(s)]
    BY <1>1, <1>2
  <2> QED
    BY <2>1
<1>5. AllGood(s \o t)
  BY <1>2, <1>4 DEF AllGood
<1>6. Ids(s \o t) = Ids(s) \cup Ids(t)
  BY <1>3, <1>4 DEF Ids
<1> QED
  BY <1>2, <1>5, <1>6

LEMMA LoadMoreKeeps ==
  ASSUME SvInv, LoadMore
  PROVE  SvInv'
<1> DEFINE n    == pages * PageSize
           list == ListJobs(PageSize, n)
           both == shown \o list
<1>1. /\ UNCHANGED <<server, hook, page, shown, pages, delete, blob>>
      /\ hook = "history" /\ reply.at # "flying"
      /\ pages = 0 \/ Len(shown) = n
      /\ reply' = Answered(list)
      /\ before' = IF pages = 0 THEN [there |-> There, gone |-> created \ There]
                                ELSE before
  BY DEF LoadMore, HasNextPage, NextOffset
<1>2. /\ ServerInv' /\ OneWay /\ DialogInv' /\ PreviewInv'
      /\ UNCHANGED <<There, created, createdAt>>
  BY <1>1, TabRests
<1>3. /\ pages \in Nat /\ PageSize \in Nat /\ n \in Nat
      /\ (pages + 1) * PageSize = n + PageSize
      /\ AllGood(shown) /\ Len(shown) <= n /\ shown \in Seq(Read)
  <2>1. pages \in Nat /\ PageSize \in Nat
    BY ServingAssumption DEF SvInv, QueryInv
  <2>2. n \in Nat /\ (pages + 1) * PageSize = n + PageSize
    BY <2>1
  <2> QED
    BY <1>1, <2>1, <2>2 DEF SvInv, QueryInv, AllGood
<1>4. Len(shown) = n
  <2> SUFFICES ASSUME pages = 0 PROVE Len(shown) = n
    BY <1>1
  <2>1. n = 0
    BY <1>3
  <2>2. Len(shown) \in Nat
    BY <1>3
  <2> HIDE DEF n
  <2> QED
    BY <1>3, <2>1, <2>2
<1> HIDE DEF n
<1>5. /\ AllGood(list) /\ list \in Seq(Read) /\ Len(list) <= PageSize
      /\ Len(list) \in Nat
  <2>1. ServerInv
    BY DEF SvInv
  <2>2. /\ AllGood(list) /\ list \in Seq(Read) /\ Len(list) <= PageSize
    BY <1>3, <2>1, ListIsGood
  <2> HIDE DEF list
  <2> QED
    BY <2>2
<1>6. /\ Ids(list) = {j \in There : Place(There, createdAt, j)
                                     \in (n + 1)..(n + PageSize)}
      /\ Cardinality(Ids(list)) = Len(list)
  <2>1. ServerInv
    BY DEF SvInv
  <2> QED
    BY <1>3, <2>1, ListIsPlaces
<1>7. Len(list) < PageSize => Cardinality(There) < n + PageSize
  <2>1. ServerInv
    BY DEF SvInv
  <2> QED
    BY <1>3, <2>1, ListIsPlaces
<1> HIDE DEF list
<1>8. /\ AllGood(both) /\ Ids(both) = Ids(shown) \cup Ids(list)
      /\ Len(both) = Len(shown) + Len(list)
  BY <1>3, <1>5, IdsOfBoth
<1>9. /\ reply'.at = "flying" /\ reply'.ok /\ reply'.jobs = list
      /\ reply' \in [at : {"idle", "flying", "failed"}, ok : BOOLEAN,
                     jobs : Seq(Read)]
  BY <1>1, <1>5 DEF Answered
<1>10. AllGood(shown)' /\ AllGood(reply.jobs)'
  <2>1. \A l : AllGood(l) => AllGood(l)'
    BY <1>2, AllGoodStays DEF SvInv
  <2> QED
    BY <1>1, <1>3, <1>5, <1>9, <2>1 DEF AllGood
<1>11. QueryInv'
  BY <1>1, <1>3, <1>5, <1>9, <1>10 DEF QueryInv, n
<1>12. HookInv' /\ GoneStaysGone'
  BY <1>1 DEF SvInv, HookInv, GoneStaysGone, delete
<1>13. /\ before'.there \subseteq created' /\ before'.gone \subseteq created' \ There'
  BY <1>1, <1>2 DEF SvInv, HistoryInv, ServerInv, Timeline
<1> DEFINE old   == before'.there
           since == Since'
           went  == Went'
<1>14. /\ since \in Nat /\ went \in Nat
       /\ Ordered(There, createdAt) /\ IsFiniteSet(Ids(shown))
  <2>1. since \in Nat /\ went \in Nat
    <3>1. /\ created' \ (before'.there \cup before'.gone) \in SUBSET created'
          /\ (created' \ There') \ before'.gone \in SUBSET created'
          /\ IsFiniteSet(created')
      BY <1>2 DEF ServerInv, Timeline
    <3> QED
      BY <3>1, FS_Subset, FS_CardinalityType DEF Since, Went
  <2>2. Ordered(There, createdAt) /\ IsFiniteSet(Ids(shown))
    BY <1>3, ThereIsOrdered, IdsOfGood DEF SvInv
  <2> QED
    BY <2>1, <2>2
<1>15. Books(There, createdAt, Ids(shown), n, n, old, since, went)
  <2>1. CASE pages = 0
    <3>1. n = 0
      BY <1>3, <2>1 DEF n
    <3>2. Ids(shown) = {}
      BY <1>3, <1>4, <3>1 DEF Ids
    <3> HIDE DEF old, since, went
    <3> QED
      BY <1>14, <3>1, <3>2, BooksOpen
  <2>2. CASE pages # 0
    <3>1. since = Since /\ went = Went /\ old = before.there
      BY <1>1, <1>2, <2>2 DEF Since, Went
    <3>2. Balanced(shown, n)
      BY <1>1 DEF SvInv, HistoryInv, n
    <3> QED
      BY <1>4, <3>1, <3>2 DEF Balanced
  <2> QED
    BY <2>1, <2>2
<1> HIDE DEF old, since, went
<1>16. Books(There, createdAt, Ids(shown) \cup Ids(list), n + Len(list),
             n + PageSize, old, since, went)
  BY <1>3, <1>5, <1>6, <1>7, <1>14, <1>15, BooksAfterRead
<1>17. Balanced(shown, pages * PageSize)'
  <2>1. pages' * PageSize = n /\ shown' = shown
    BY <1>1 DEF n
  <2> QED
    BY <1>2, <1>4, <1>15, <2>1 DEF Balanced, Ids, old, since, went
<1>18. Balanced(shown \o reply.jobs, (pages + 1) * PageSize)'
  <2>1. /\ (pages' + 1) * PageSize = n + PageSize
        /\ shown' \o reply'.jobs = both
    BY <1>1, <1>3, <1>9
  <2>2. Ids(both) = Ids(shown) \cup Ids(list) /\ Len(both) = n + Len(list)
    BY <1>4, <1>8
  <2> HIDE DEF both
  <2> QED
    BY <1>2, <1>16, <2>1, <2>2 DEF Balanced, Ids, old, since, went
<1>19. Len(shown') = pages' * PageSize
  BY <1>1, <1>4 DEF n
<1>20. HistoryInv'
  BY <1>9, <1>13, <1>17, <1>18, <1>19 DEF HistoryInv
<1> QED
  BY <1>2, <1>11, <1>12, <1>20 DEF SvInv

LEMMA ArriveKeeps ==
  ASSUME SvInv, Arrive
  PROVE  SvInv'
<1> DEFINE both == shown \o reply.jobs
<1>1. /\ UNCHANGED <<server, hook, page, before, delete, blob>>
      /\ reply.at = "flying"
      /\ IF reply.ok
           THEN /\ shown' = IF hook = "history" THEN both ELSE reply.jobs
                /\ pages' = IF hook = "history" THEN pages + 1 ELSE 1
           ELSE shown' = shown /\ pages' = pages
      /\ reply'.jobs = <<>> /\ reply'.at \in {"idle", "failed"}
      /\ reply'.at = "idle" => reply.ok
      /\ reply' \in [at : {"idle", "flying", "failed"}, ok : BOOLEAN,
                     jobs : Seq(Read)]
  <2>1. /\ UNCHANGED <<server, hook, page, before, delete, blob>>
        /\ reply.at = "flying"
        /\ IF reply.ok
             THEN /\ shown' = IF hook = "history" THEN both ELSE reply.jobs
                  /\ pages' = IF hook = "history" THEN pages + 1 ELSE 1
             ELSE shown' = shown /\ pages' = pages
    BY DEF Arrive
  <2>2. reply' \in {[at |-> "idle", ok |-> TRUE, jobs |-> <<>>],
                    [at |-> "failed", ok |-> TRUE, jobs |-> <<>>]}
        /\ (reply'.at = "idle" => reply.ok)
    BY DEF Arrive, Idle
  <2>3. /\ reply'.jobs = <<>> /\ reply'.at \in {"idle", "failed"}
        /\ reply'.at = "idle" => reply.ok
    BY <2>2
  <2>4. reply' \in [at : {"idle", "flying", "failed"}, ok : BOOLEAN,
                    jobs : Seq(Read)]
    <3>1. CASE reply' = [at |-> "idle", ok |-> TRUE, jobs |-> <<>>]
      BY <3>1, NothingIsGood
    <3>2. CASE reply' = [at |-> "failed", ok |-> TRUE, jobs |-> <<>>]
      BY <3>2, NothingIsGood
    <3> QED
      BY <2>2, <3>1, <3>2
  <2> HIDE DEF both
  <2> QED
    BY <2>1, <2>3, <2>4
<1>2. /\ ServerInv' /\ OneWay /\ DialogInv' /\ PreviewInv'
  BY <1>1, TabRests
<1>3. /\ AllGood(shown) /\ AllGood(reply.jobs) /\ pages \in Nat
      /\ PageSize \in Nat /\ Limit \in Nat /\ hook # "blob"
  BY <1>1, ServingAssumption DEF SvInv, QueryInv, HookInv, Idle
<1>4. /\ AllGood(both) /\ Ids(both) = Ids(shown) \cup Ids(reply.jobs)
      /\ Len(both) = Len(shown) + Len(reply.jobs)
  BY <1>3, IdsOfBoth
<1> HIDE DEF both
<1>5. HookInv'
  BY <1>1, <1>3 DEF SvInv, HookInv, delete
<1>6. AllGood(shown)' /\ AllGood(reply.jobs)'
  <2>1. \A l : AllGood(l) => AllGood(l)'
    BY <1>2, AllGoodStays DEF SvInv
  <2>2. AllGood(shown') /\ AllGood(reply'.jobs)
    BY <1>1, <1>3, <1>4, NothingIsGood
  <2> QED
    BY <2>1, <2>2 DEF AllGood
<1>7. Ids(reply'.jobs) = {} /\ Len(reply'.jobs) = 0
  BY <1>1, NothingIsGood
<1>8. /\ pages' \in Nat
      /\ hook = "job" => Ids(shown') \subseteq {page}
      /\ hook = "jobs" => Len(shown') <= Limit
      /\ hook = "history" => Len(shown') <= pages' * PageSize
  <2>1. CASE hook = "history" /\ reply.ok
    <3>1. Len(shown) <= pages * PageSize /\ Len(reply.jobs) <= PageSize
      BY <2>1 DEF SvInv, QueryInv
    <3>2. Len(shown) \in Nat /\ Len(reply.jobs) \in Nat
      BY <1>3 DEF AllGood
    <3>3. /\ (pages + 1) * PageSize = pages * PageSize + PageSize
          /\ pages * PageSize \in Nat
      BY <1>3
    <3> DEFINE a == Len(shown)
               b == Len(reply.jobs)
               m == pages * PageSize
    <3>4. a <= m /\ b <= PageSize /\ a \in Nat /\ b \in Nat /\ m \in Nat
      BY <3>1, <3>2, <3>3
    <3> HIDE DEF a, b, m
    <3>5. a + b <= m + PageSize
      BY <1>3, <3>4
    <3>6. Len(shown') <= pages' * PageSize
      BY <1>1, <1>4, <2>1, <3>3, <3>5 DEF a, b, m
    <3> QED
      BY <1>1, <1>3, <2>1, <3>6
  <2>2. CASE hook # "history" /\ reply.ok
    BY <1>1, <2>2 DEF SvInv, QueryInv
  <2>3. CASE ~reply.ok
    BY <1>1, <2>3 DEF SvInv, QueryInv
  <2> QED
    BY <2>1, <2>2, <2>3
<1>9. QueryInv'
  <2>1. Limit \in Nat /\ PageSize \in Nat /\ 0 <= Limit /\ 0 <= PageSize
    BY <1>3
  <2> QED
    BY <1>1, <1>3, <1>6, <1>7, <1>8, <2>1 DEF QueryInv, Ids
<1>10. GoneStaysGone'
  <2> SUFFICES ASSUME hook = "jobs"
               PROVE  told \cap Ids(shown') # {} => reply'.at # "idle"
    BY <1>1, <1>7 DEF GoneStaysGone, Ids, delete
  <2>1. reply'.at = "idle" => shown' = reply.jobs
    BY <1>1
  <2> QED
    BY <2>1 DEF SvInv, GoneStaysGone
<1>11. HistoryInv'
  <2> SUFFICES ASSUME hook = "history" PROVE HistoryInv'
    BY <1>1 DEF HistoryInv
  <2>1. /\ before.there \subseteq created /\ before.gone \subseteq created \ There
        /\ reply.ok /\ Balanced(both, (pages + 1) * PageSize)
    BY <1>1 DEF SvInv, HistoryInv, both
  <2>2. shown' = both /\ pages' = pages + 1
    BY <1>1, <2>1
  <2>3. (pages + 1) * PageSize \in Nat
    BY <1>3
  <2> DEFINE n == (pages + 1) * PageSize
             m == pages' * PageSize
  <2>4. n \in Nat /\ m = n /\ Balanced(both, n)
    BY <2>1, <2>2, <2>3
  <2> HIDE DEF n, m
  <2>5. \A l, k : /\ AllGood(l) /\ k \in Nat /\ Balanced(l, k)
                  => Balanced(l, k)'
    BY <1>1, <1>2, <2>1, BalancedStays DEF SvInv
  <2>6. Books(There', createdAt', Ids(shown'), Len(shown'), m, before'.there,
              Since', Went')
    BY <1>4, <2>2, <2>4, <2>5 DEF Balanced, Ids
  <2>7. Balanced(shown, pages * PageSize)'
    BY <2>6 DEF Balanced, Ids, m
  <2>8. created \subseteq created' /\ created \ There \subseteq created' \ There'
    BY <1>1, <1>2, TabRests
  <2> QED
    BY <1>1, <2>1, <2>7, <2>8 DEF HistoryInv
<1> QED
  BY <1>2, <1>5, <1>9, <1>10, <1>11 DEF SvInv

\* The steps of the preview leave all but its own part alone.
LEMMA BlobSteps ==
  ASSUME SvInv, UNCHANGED <<server, hook, page, query, delete>>, PreviewInv'
  PROVE  SvInv'
<1>1. /\ ServerInv' /\ DialogInv' /\ QueryInv' /\ HistoryInv' /\ GoneStaysGone'
  BY TabRests
<1>2. HookInv'
  BY DEF SvInv, HookInv, query, delete
<1> QED
  BY <1>1, <1>2 DEF SvInv

LEMMA UnmountKeeps ==
  ASSUME SvInv, Unmount
  PROVE  SvInv'
<1>1. /\ UNCHANGED <<server, hook, page, query, delete, fetches>>
      /\ preview' = [preview EXCEPT !.run = 0, !.file = "none", !.url = 0,
                                    !.live = @ \ {preview.run}, !.isError = FALSE]
  BY DEF Unmount
<1>2. PreviewInv /\ UNCHANGED <<There, created, disk>>
      /\ \A f \in File : UNCHANGED files[f]
  BY <1>1, TabRests DEF SvInv, server
<1>3. /\ preview' \in Preview /\ preview'.run = 0 /\ preview'.runs = preview.runs
      /\ preview'.url = 0 /\ preview'.live = {} /\ ~preview'.isError
      /\ preview'.listed = preview.listed
  BY <1>1, <1>2 DEF PreviewInv, Preview
<1>4. FilesOf(page)' = FilesOf(page) /\ Ready(page)' = Ready(page)
  BY <1>1, <1>2 DEF FilesOf, Ready
<1>5. preview.runs \in Nat
  BY <1>2 DEF PreviewInv, Preview
<1>6. PreviewInv'
  BY <1>1, <1>2, <1>3, <1>4, <1>5 DEF PreviewInv
<1> QED
  BY <1>1, <1>6, BlobSteps

LEMMA FetchedKeeps ==
  ASSUME SvInv, NEW q \in fetches, Fetched(q)
  PROVE  SvInv'
<1>1. /\ UNCHANGED <<server, hook, page, query, delete>>
      /\ fetches' = fetches \ {q}
      /\ preview' = IF q.run # preview.run THEN preview
                    ELSE IF q.ok /\ q.path \in disk
                      THEN [preview EXCEPT !.url = q.run, !.live = @ \cup {q.run}]
                      ELSE [preview EXCEPT !.isError = TRUE]
  BY DEF Fetched
<1>2. /\ PreviewInv /\ UNCHANGED <<There, created, disk, wiped>>
      /\ \A f \in File : UNCHANGED files[f]
  BY <1>1, TabRests DEF SvInv, server
<1>3. FilesOf(page)' = FilesOf(page) /\ Ready(page)' = Ready(page)
  BY <1>1, <1>2 DEF FilesOf, Ready
<1>4. preview \in Preview /\ q.run \in 1..preview.runs /\ preview.runs \in Nat
  BY <1>2 DEF PreviewInv, Preview
<1>5. /\ preview' \in Preview
      /\ preview'.run = preview.run /\ preview'.runs = preview.runs
      /\ preview'.file = preview.file /\ preview'.listed = preview.listed
  BY <1>1, <1>4 DEF Preview
<1>6. /\ preview'.live \subseteq {preview.run} \ {0}
      /\ preview'.url \in preview'.live \cup {0}
  BY <1>1, <1>2, <1>4 DEF PreviewInv, Preview
<1>7. /\ preview'.lost = preview.lost
      /\ preview'.isError =>
           preview.run # 0 /\ (Excused \/ preview.run \in preview.lost)
  BY <1>1, <1>2, <1>4 DEF PreviewInv, Preview
<1>8. Excused <=> Excused'
  BY <1>1, <1>2, <1>5 DEF Excused
<1>9. PreviewInv'
  BY <1>1, <1>2, <1>3, <1>5, <1>6, <1>7, <1>8 DEF PreviewInv
<1> QED
  BY <1>1, <1>9, BlobSteps

LEMMA FetchLostKeeps ==
  ASSUME SvInv, NEW q \in fetches, FetchLost(q)
  PROVE  SvInv'
<1>1. /\ UNCHANGED <<server, hook, page, query, delete>>
      /\ fetches' = fetches \ {q}
      /\ preview' = [preview EXCEPT
           !.lost = @ \cup {q.run},
           !.isError = IF q.run = preview.run THEN TRUE ELSE @]
  BY DEF FetchLost
<1>2. /\ PreviewInv /\ UNCHANGED <<There, created, disk, wiped>>
      /\ \A f \in File : UNCHANGED files[f]
  BY <1>1, TabRests DEF SvInv, server
<1>3. FilesOf(page)' = FilesOf(page) /\ Ready(page)' = Ready(page)
  BY <1>1, <1>2 DEF FilesOf, Ready
<1>4. preview \in Preview /\ q.run \in 1..preview.runs /\ preview.runs \in Nat
  BY <1>2 DEF PreviewInv, Preview
<1>5. /\ preview' \in Preview
      /\ preview'.run = preview.run /\ preview'.runs = preview.runs
      /\ preview'.file = preview.file /\ preview'.listed = preview.listed
      /\ preview'.url = preview.url /\ preview'.live = preview.live
      /\ preview'.lost = preview.lost \cup {q.run}
      /\ q.run # preview.run => preview'.isError = preview.isError
  <2>1. q.run \in Nat
    BY <1>4
  <2>2. CASE q.run = preview.run
    <3>1. preview' = [preview EXCEPT !.lost = @ \cup {q.run}, !.isError = TRUE]
      BY <1>1, <2>2
    <3> QED
      BY <1>4, <2>1, <2>2, <3>1 DEF Preview
  <2>3. CASE q.run # preview.run
    <3>1. preview' = [preview EXCEPT !.lost = @ \cup {q.run},
                                    !.isError = preview.isError]
      BY <1>1, <2>3
    <3> QED
      BY <1>4, <2>1, <2>3, <3>1 DEF Preview
  <2> QED
    BY <2>2, <2>3
<1>6. preview'.isError =>
        preview'.run # 0 /\ (Excused' \/ preview'.run \in preview'.lost)
  BY <1>1, <1>2, <1>4, <1>5 DEF PreviewInv, Excused
<1>7. Excused <=> Excused'
  BY <1>1, <1>2, <1>5 DEF Excused
<1>8. PreviewInv'
  BY <1>1, <1>2, <1>3, <1>5, <1>6, <1>7 DEF PreviewInv
<1> QED
  BY <1>1, <1>8, BlobSteps

LEMMA SelectKeeps ==
  ASSUME SvInv, NEW f \in File, Select(f)
  PROVE  SvInv'
<1> DEFINE n == preview.runs + 1
           q == [run |-> n, ok |-> Download(f) = 200, path |-> Path(f)]
<1>1. /\ UNCHANGED <<server, hook, page, query, delete>>
      /\ hook = "blob" /\ f \in Ready(page) \cup preview.listed
      /\ preview' = [preview EXCEPT
           !.run = n, !.runs = n, !.file = f, !.url = 0,
           !.live = @ \ {preview.run}, !.isError = FALSE,
           !.listed = @ \cup Ready(page)]
      /\ fetches' = fetches \cup {q}
  BY DEF Select
<1>2. /\ PreviewInv /\ UNCHANGED <<There, created, disk, wiped>> /\ ServerInv
      /\ \A g \in File : UNCHANGED files[g]
      /\ There \subseteq created
  BY <1>1, TabRests DEF SvInv, server, ServerInv, Timeline
<1>3. /\ FilesOf(page)' = FilesOf(page) /\ Ready(page)' = Ready(page)
      /\ Ready(page) \subseteq FilesOf(page)
  BY <1>1, <1>2 DEF FilesOf, Ready
<1>4. Ready(page) # {} => page \in There
  BY <1>2, ReadyIsThere DEF Ready, FilesOf
<1>5. preview.runs \in Nat /\ n \in Nat /\ n # 0 /\ preview \in Preview
  BY <1>2 DEF PreviewInv, Preview
<1>6. /\ preview' \in Preview
      /\ preview'.run = n /\ preview'.runs = n /\ preview'.file = f
      /\ preview'.url = 0 /\ preview'.live = {} /\ ~preview'.isError
      /\ preview'.listed = preview.listed \cup Ready(page)
  <2> HIDE DEF n, q
  <2>1. preview.live \ {preview.run} = {}
    BY <1>2 DEF PreviewInv
  <2>2. preview.listed \cup Ready(page) \in SUBSET File
    BY <1>2, <1>5 DEF Preview, Ready, FilesOf
  <2> QED
    BY <1>1, <1>5, <2>1, <2>2 DEF Preview
<1>7. \/ Excused'
      \/ q.ok /\ q.path \in disk' /\ q.path[1] = f
  <2> SUFFICES ASSUME page \in There, f \notin Tampered \cup wiped
               PROVE  q.ok /\ q.path \in disk' /\ q.path[1] = f
    BY <1>1, <1>2, <1>6 DEF Excused
  <2>1. f \in Ready(page)
    BY <1>1, <1>2 DEF PreviewInv
  <2>2. files[f].output # 0
    BY <2>1 DEF Ready
  <2>3. Download(f) = 200
    BY <1>2, <2>2, ReadyIsThere
  <2>4. Path(f) \in disk
    BY <1>2, <2>2 DEF ServerInv, OutputsHold
  <2> QED
    BY <1>2, <2>3, <2>4 DEF Path
<1>8. ASSUME NEW r \in fetches
      PROVE  r.run \in 1..n /\ r.run # n
  <2>1. r.run \in 1..preview.runs
    BY <1>2 DEF PreviewInv
  <2> QED
    BY <1>5, <2>1
<1>9. q.run = n /\ n \in 1..n
  BY <1>5
<1> HIDE DEF n, q
<1>10. PreviewInv'
  BY <1>1, <1>2, <1>3, <1>4, <1>5, <1>6, <1>7, <1>8, <1>9 DEF PreviewInv
<1> QED
  BY <1>1, <1>10, BlobSteps

(***************************************************************************)
(* The invariant                                                           *)
(***************************************************************************)
LEMMA ServerNextKeeps ==
  ASSUME SvInv, ServerNext
  PROVE  SvInv'
<1>1. /\ ServerInv' /\ OneWay
      /\ UNCHANGED <<hook, page, query, delete, blob>>
  BY ServerSteps DEF ServerNext, Tab, SvInv
<1>2. QueryInv' /\ HistoryInv' /\ DialogInv' /\ PreviewInv'
  BY <1>1, QueryStays, HistoryStays, DialogStays, PreviewStays DEF SvInv
<1>3. HookInv' /\ GoneStaysGone'
  BY <1>1 DEF SvInv, HookInv, GoneStaysGone, query, delete, Ids
<1> QED
  BY <1>1, <1>2, <1>3 DEF SvInv

LEMMA SvInvStarts == Init => SvInv
<1> SUFFICES ASSUME Init PROVE SvInv
  OBVIOUS
<1>1. ServerInv
  BY ServerStarts
<1>2. /\ shown = <<>> /\ pages = 0 /\ closing = {} /\ told = {} /\ fetches = {}
      /\ reply = [at |-> "idle", ok |-> TRUE, jobs |-> <<>>]
      /\ before = [there |-> {}, gone |-> {}]
      /\ preview = [run |-> 0, runs |-> 0, file |-> "none", url |-> 0,
                    live |-> {}, isError |-> FALSE, lost |-> {},
                    listed |-> {}]
  BY DEF Init, Idle, NoPreview
<1>3. HookInv
  BY <1>2, ServingAssumption DEF Init, HookInv, Hook
<1>4. QueryInv
  <2>1. reply \in [at : {"idle", "flying", "failed"}, ok : BOOLEAN,
                   jobs : Seq(Read)]
    BY <1>2, NothingIsGood
  <2>2. /\ Limit \in Nat /\ PageSize \in Nat /\ 0 <= Limit /\ 0 <= PageSize
        /\ 0 <= 0 * PageSize
    BY ServingAssumption
  <2>3. AllGood(shown) /\ Ids(shown) = {} /\ Len(shown) = 0
    BY <1>2, NothingIsGood
  <2>4. AllGood(reply.jobs) /\ Ids(reply.jobs) = {} /\ Len(reply.jobs) = 0
    BY <1>2, NothingIsGood
  <2> QED
    BY <1>2, <2>1, <2>2, <2>3, <2>4 DEF QueryInv
<1>5. DialogInv /\ GoneStaysGone
  BY <1>2 DEF DialogInv, GoneStaysGone
<1>6. HistoryInv
  <2>1. Since \in Nat /\ Went \in Nat /\ Ordered(There, createdAt)
    BY <1>1, SinceAndWent, ThereIsOrdered
  <2>2. Books(There, createdAt, {}, 0, 0, before.there, Since, Went)
    BY <2>1, BooksOpen
  <2>3. Ids(shown) = {} /\ Len(shown) = 0 /\ pages * PageSize = 0
    BY <1>2, NothingIsGood, ServingAssumption
  <2>4. Balanced(shown, pages * PageSize)
    BY <2>2, <2>3 DEF Balanced
  <2> QED
    BY <1>2, <2>4 DEF HistoryInv
<1>7. PreviewInv
  BY <1>2 DEF PreviewInv, Preview
<1> QED
  BY <1>1, <1>3, <1>4, <1>5, <1>6, <1>7 DEF SvInv

\* Whoever moves, the server's part holds, what the tab has read stays good,
\* and its books balance.
THEOREM TabAgreesWithServer == Spec => []SvInv
<1>1. Init => SvInv
  BY SvInvStarts
<1>2. SvInv /\ [Next]_svars => SvInv'
  <2> SUFFICES ASSUME SvInv, [Next]_svars PROVE SvInv'
    OBVIOUS
  <2>1. CASE ServerNext
    BY <2>1, ServerNextKeeps
  <2>2. CASE TabNext
    BY <2>2, PollKeeps, LoadMoreKeeps, ArriveKeeps, LostKeeps, ConfirmKeeps,
       DeletedKeeps, DeleteLostKeeps, SelectKeeps, UnmountKeeps, FetchedKeeps,
       FetchLostKeeps DEF TabNext
  <2>3. CASE UNCHANGED svars
    <3>1. UNCHANGED <<server, hook, page, query, delete, blob>>
      BY <2>3 DEF svars
    <3>2. PreviewInv'
      BY <3>1, TabRests
    <3> QED
      BY <3>1, <3>2, BlobSteps
  <2> QED
    BY <2>1, <2>2, <2>3 DEF Next
<1> QED
  BY <1>1, <1>2, PTL DEF Spec

\* What a tab looks at is the server of JobRows: each step is a transaction of
\* services/jobs.py or leaves the tables alone, so all that is proved of these
\* holds here (create_job to delete_job, services/jobs.py 47-238).
THEOREM TablesMoveByTransactions == Spec => RowsSpec
<1>1. Init => RowsInit
  BY DEF Init
<1>2. SvInv /\ [Next]_svars => [RowsNext]_rows
  <2> SUFFICES ASSUME SvInv, [Next]_svars PROVE [RowsNext]_rows
    OBVIOUS
  <2>1. ASSUME NEW j \in Job, Create(j) \/ Delete(j)
        PROVE  RowsNext
    BY <2>1 DEF Create, Delete, RowsNext
  <2>2. ASSUME NEW f \in File, Start(f) \/ Fail(f)
        PROVE  RowsNext
    BY <2>2 DEF Start, Fail, RowsNext
  <2>3. ASSUME NEW f \in File, Finish(f)
        PROVE  RowsNext
    <3> DEFINE n == files[f].output + 1
    <3>1. files[f] \in FileRow /\ files \in [File -> FileRow]
      BY DEF SvInv, ServerInv, TablesInv, RowsTypeOK
    <3>2. n \in Nat
      BY <3>1 DEF FileRow
    <3>3. /\ FileExists(f) /\ CompleteFile(f, n)
          /\ UNCHANGED created
      BY <2>3 DEF Finish
    <3> HIDE DEF n
    <3>4. files'[f].output = n
      BY <3>1, <3>3 DEF CompleteFile, FileSettled, FileRow
    <3> QED
      BY <3>2, <3>3, <3>4 DEF RowsNext
  <2>4. ASSUME NEW f \in File, Wipe(f)
        PROVE  UNCHANGED rows
    BY <2>4 DEF Wipe, rows
  <2>5. CASE ServerNext
    BY <2>1, <2>2, <2>3, <2>4, <2>5 DEF ServerNext
  <2>6. ASSUME NEW j \in Job, Confirm(j)
        PROVE  RowsNext
    BY <2>6 DEF Confirm, Delete, RowsNext
  <2>7. ASSUME \/ Poll \/ LoadMore \/ Arrive \/ Lost \/ Deleted \/ DeleteLost
               \/ Unmount \/ UNCHANGED svars
               \/ \E f \in File : Select(f)
               \/ \E q \in fetches : Fetched(q) \/ FetchLost(q)
        PROVE  UNCHANGED rows
    BY <2>7 DEF Poll, LoadMore, Arrive, Lost, Deleted, DeleteLost, Select,
       Unmount, Fetched, FetchLost, svars, server, rows
  <2> QED
    BY <2>5, <2>6, <2>7 DEF Next, TabNext
<1> QED
  BY <1>1, <1>2, TabAgreesWithServer, PTL DEF Spec, RowsSpec

\* Every variable has its type, no two jobs were created at one time, and a
\* reply is never longer than was asked for (list_jobs with its limit).
THEOREM ServingIsTyped == Spec => []SvTypeOK
<1>1. SvInv => SvTypeOK
  <2> SUFFICES ASSUME SvInv PROVE SvTypeOK
    OBVIOUS
  <2>1. /\ RowsTypeOK /\ createdAt \in [Job -> Nat]
        /\ \A j, k \in created : createdAt[j] = createdAt[k] => j = k
    BY DEF SvInv, ServerInv, TablesInv, Timeline
  <2>2. /\ disk \subseteq File \X (1..Starts)
        /\ starts \in 0..Starts /\ again \subseteq Job /\ wiped \subseteq File
    BY DEF SvInv, ServerInv, OutputsHold
  <2>3. /\ hook \in Hook /\ page \in Job \cup {"none"}
        /\ shown \in Seq(Read) /\ reply.jobs \in Seq(Read)
        /\ pages \in Nat /\ reply.at \in {"idle", "flying", "failed"}
        /\ closing \cup told \subseteq created
    BY DEF SvInv, HookInv, QueryInv, AllGood, DialogInv
  <2>4. CASE hook = "job"
    BY <2>1, <2>2, <2>3, <2>4 DEF SvInv, QueryInv, SvTypeOK
  <2>5. CASE hook = "jobs"
    BY <2>1, <2>2, <2>3, <2>5 DEF SvInv, QueryInv, SvTypeOK
  <2>6. CASE hook = "history"
    BY <2>1, <2>2, <2>3, <2>6 DEF SvInv, QueryInv, SvTypeOK
  <2>7. CASE hook = "blob"
    BY <2>1, <2>2, <2>3, <2>7 DEF SvInv, QueryInv, SvTypeOK
  <2> QED
    BY <2>3, <2>4, <2>5, <2>6, <2>7 DEF Hook
<1> QED
  BY <1>1, TabAgreesWithServer, PTL

\* What is on screen is of a job that was there, and lists what can be had.
LEMMA ShownIsGood ==
  ASSUME SvInv, NEW i \in DOMAIN shown
  PROVE  /\ StillGood(shown[i])
         /\ JobExists(shown[i].id) => shown[i].id \in There
<1>1. StillGood(shown[i])
  BY DEF SvInv, QueryInv, AllGood
<1>2. shown[i].id \in Job
  BY <1>1 DEF StillGood, SvInv, ServerInv, Timeline
<1> QED
  BY <1>1, <1>2 DEF There

\* A file a tab shows as converted can be downloaded for as long as its job
\* exists, and previewed if its job is not an export, however old the reply:
\* start_file and fail_file leave output_path alone, and every run has an
\* output of its own.
THEOREM SeenStaysServable == Spec => []SeenIsServable
<1>1. SvInv => SeenIsServable
  <2> SUFFICES ASSUME SvInv, NEW i \in DOMAIN shown, JobExists(shown[i].id),
                      NEW f \in shown[i].ready \ (Tampered \cup wiped)
               PROVE  /\ Download(f) = 200
                      /\ JobOf[f] \notin ExportJob => Content(f) = 200
    BY DEF SeenIsServable
  <2>1. f \in Ready(shown[i].id)
    BY ShownIsGood DEF StillGood
  <2>2. f \in File /\ files[f].output # 0
    BY <2>1 DEF Ready, FilesOf
  <2>3. Download(f) = 200
    BY <2>2, ReadyIsThere DEF SvInv
  <2> QED
    BY <2>3 DEF Content
<1> QED
  BY <1>1, TabAgreesWithServer, PTL

\* Where polling has stopped at a terminal status, the tab shows what the
\* tables hold of the job, unless it is gone or was delivered again.
THEOREM FinalViewIsTrue == Spec => []FinalViewHolds
<1>1. SvInv => FinalViewHolds
  BY ShownIsGood DEF FinalViewHolds, StillGood
<1> QED
  BY <1>1, TabAgreesWithServer, PTL

\* No reply to an older request brings the card of a deleted job back.
THEOREM GoneIsGone == Spec => []GoneStaysGone
<1>1. SvInv => GoneStaysGone
  BY DEF SvInv
<1> QED
  BY <1>1, TabAgreesWithServer, PTL

\* A history read to its end misses at most as many jobs as were deleted while
\* it was read, and repeats at most as many as were added.
THEOREM HistoryBooksBalance == Spec => []HistoryErrsByWhatMoved
<1>1. SvInv => HistoryErrsByWhatMoved
  <2> SUFFICES ASSUME SvInv, hook = "history", pages > 0
               PROVE  /\ Len(shown) - Cardinality(Ids(shown)) <= Since
                      /\ ~HasNextPage =>
                           Cardinality((before.there \cap There) \ Ids(shown))
                             <= Went
    BY DEF HistoryErrsByWhatMoved, Since, Went
  <2> DEFINE n == pages * PageSize
             back == Cardinality(Returning(There, createdAt, Ids(shown), n))
  <2>1. Books(There, createdAt, Ids(shown), Len(shown), n, before.there, Since, Went)
    BY DEF SvInv, HistoryInv, Balanced
  <2>2. /\ Since \in Nat /\ Len(shown) \in Nat /\ Cardinality(Ids(shown)) \in Nat
        /\ back \in Nat
    <3>1. Since \in Nat /\ IsFiniteSet(There)
      BY SinceAndWent, ThereIsOrdered DEF SvInv
    <3>2. Len(shown) \in Nat /\ IsFiniteSet(Ids(shown))
      BY IdsOfGood DEF SvInv, QueryInv
    <3> QED
      BY <3>1, <3>2, BooksAreFinite, FS_CardinalityType
  <2>3. Len(shown) - Cardinality(Ids(shown)) + back <= Since
    BY <2>1 DEF Books
  <2>4. ~HasNextPage => Len(shown) # n
    BY DEF HasNextPage
  <2> HIDE DEF n
  <2>5. Len(shown) - Cardinality(Ids(shown)) <= Since
    <3> HIDE DEF back
    <3> QED
      BY <2>2, <2>3
  <2> QED
    BY <2>1, <2>4, <2>5 DEF Books
<1> QED
  BY <1>1, TabAgreesWithServer, PTL

\* The embedded PDF is the selected file's, no object URL outlives its run of
\* the effect, and an error is shown only if that file cannot be had or the
\* fetch of this very run was lost.
THEOREM PreviewIsTheSelected == Spec => []PreviewIsSelected
<1>1. SvInv => PreviewIsSelected
  <2> SUFFICES ASSUME SvInv PROVE PreviewIsSelected
    OBVIOUS
  <2>1. PreviewInv
    BY DEF SvInv
  <2>2. preview.isError => page \in Job
    BY <2>1 DEF PreviewInv, SvInv, ServerInv, Timeline
  <2> QED
    BY <2>1, <2>2 DEF PreviewInv, PreviewIsSelected, Excused, There
<1> QED
  BY <1>1, TabAgreesWithServer, PTL

(***************************************************************************)
(* The archive of a job: induction over the entries by a least             *)
(* counterexample                                                          *)
(***************************************************************************)
\* A set of numbers that is not empty has a least one.
LEMMA LeastNumber ==
  ASSUME NEW T \in SUBSET Nat, T # {}
  PROVE  \E n \in T : \A m \in T : n <= m
<1> DEFINE less == OpToRel(<, Nat)
<1>1. IsWellFoundedOn(less, Nat)
  BY NatLessThanWellFounded
<1>2. \A m, n \in Nat : m < n => <<m, n>> \in less
  BY DEF OpToRel
<1> HIDE DEF less
<1>3. PICK n \in T : \A m \in T : ~(<<m, n>> \in less)
  BY <1>1, WFMin
<1>4. \A m \in T : ~(m < n) /\ m \in Nat /\ n \in Nat
  BY <1>2, <1>3
<1>5. \A m \in T : n <= m
  BY <1>4
<1> QED
  BY <1>3, <1>5

\* The names of the entries, one by one.
LEMMA NamesOneByOne ==
  ASSUME NEW order \in Seq(File)
  PROVE  \E g : /\ g = [k \in 0..Len(order) |->
                          IF k = 0 THEN <<>> ELSE Named(g[k - 1], order[k])]
                /\ EntryNames(order) = g[Len(order)]
<1> DEFINE Solves(g, n) == g = [k \in 0..n |->
                IF k = 0 THEN <<>> ELSE Named(g[k - 1], order[k])]
           names[k \in 0..Len(order)] ==
             IF k = 0 THEN <<>> ELSE Named(names[k - 1], order[k])
<1>1. \A n \in Nat : \E g : Solves(g, n)
  <2> DEFINE P(n) == \E g : Solves(g, n)
             T    == {n \in Nat : ~P(n)}
  <2> SUFFICES ASSUME T # {} PROVE FALSE
    OBVIOUS
  <2>1. PICK n \in T : \A m \in T : n <= m
    BY LeastNumber
  <2>2. P(0)
    <3>1. Solves([k \in 0..0 |-> <<>>], 0)
      OBVIOUS
    <3> QED
      BY <3>1
  <2> HIDE DEF P
  <2>3. n # 0 /\ n \in Nat /\ n - 1 \in Nat
    BY <2>1, <2>2
  <2>4. P(n - 1)
    BY <2>1, <2>3
  <2>5. PICK g : Solves(g, n - 1)
    BY <2>4 DEF P
  <2> DEFINE h == [k \in 0..n |->
                IF k = 0 THEN <<>> ELSE Named(g[k - 1], order[k])]
  <2>6. \A k \in 0..(n - 1) : h[k] = g[k]
    BY <2>3, <2>5
  <2>7. \A k \in 0..n : k # 0 => k - 1 \in 0..(n - 1)
    BY <2>3
  <2>8. Solves(h, n)
    BY <2>6, <2>7
  <2> QED
    BY <2>1, <2>8 DEF P
<1>2. \E g : g = [k \in 0..Len(order) |->
                IF k = 0 THEN <<>> ELSE Named(g[k - 1], order[k])]
  BY <1>1
<1>3. names = [k \in 0..Len(order) |->
                IF k = 0 THEN <<>> ELSE Named(names[k - 1], order[k])]
  BY <1>2
<1>4. EntryNames(order) = names[Len(order)]
  BY DEF EntryNames
<1> HIDE DEF names
<1> QED
  BY <1>3, <1>4

\* The candidates for the name of an entry differ from each other.
LEMMA CandidatesDiffer ==
  ASSUME NEW stem \in Seq(Nat), NEW m \in Nat, NEW n \in Nat, m # 0, n # 0,
         EntryName(stem, m) = EntryName(stem, n)
  PROVE  m = n
<1>1. \A k \in Nat : /\ Len(Append(stem, k)) = Len(stem) + 1
                     /\ Append(stem, k)[Len(stem) + 1] = k
                     /\ Append(stem, k) \in Seq(Nat)
  BY AppendProperties
<1>2. Len(stem) \in Nat /\ Len(stem) # Len(stem) + 1
  OBVIOUS
<1>3. CASE m = 1 /\ n = 1
  BY <1>3
<1>4. CASE m = 1 /\ n # 1
  BY <1>1, <1>2, <1>4 DEF EntryName
<1>5. CASE m # 1 /\ n = 1
  BY <1>1, <1>2, <1>5 DEF EntryName
<1>6. CASE m # 1 /\ n # 1
  BY <1>1, <1>6 DEF EntryName
<1> QED
  BY <1>3, <1>4, <1>5, <1>6

\* One of the first candidates is free; the entry takes the first of them.
LEMMA NamedApart ==
  ASSUME NEW names \in Seq(Seq(Nat)), NEW f \in File,
         \A a, b \in DOMAIN names : names[a] = names[b] => a = b
  PROVE  LET more == Named(names, f)
         IN  /\ more \in Seq(Seq(Nat)) /\ Len(more) = Len(names) + 1
             /\ \A a, b \in DOMAIN more : more[a] = more[b] => a = b
<1> DEFINE stem == Stem[f]
           len  == Len(names)
           Free(n) == EntryName(stem, n) \notin ToSet(names)
           first == CHOOSE n \in 1..(len + 1) :
                      Free(n) /\ \A m \in 1..(n - 1) : ~Free(m)
           name == EntryName(stem, first)
<1>1. stem \in Seq(Nat) /\ len \in Nat
  BY ServingAssumption
<1>2. ToSet(names) = {names[i] : i \in 1..len}
  BY DEF ToSet
<1> HIDE DEF stem, len
<1>3. \E n \in 1..(len + 1) : Free(n)
  <2> SUFFICES ASSUME \A n \in 1..(len + 1) : ~Free(n) PROVE FALSE
    OBVIOUS
  <2> DEFINE at(n) == CHOOSE i \in 1..len : names[i] = EntryName(stem, n)
             g == [n \in 1..(len + 1) |-> at(n)]
  <2>1. \A n \in 1..(len + 1) : \E i \in 1..len : names[i] = EntryName(stem, n)
    BY <1>2
  <2>2. \A n \in 1..(len + 1) : at(n) \in 1..len /\ names[at(n)] = EntryName(stem, n)
    BY <2>1
  <2> HIDE DEF at
  <2>3. g \in [1..(len + 1) -> 1..len]
    BY <2>2
  <2>4. /\ IsFiniteSet(1..(len + 1)) /\ IsFiniteSet(1..len)
        /\ Cardinality(1..(len + 1)) = len + 1 /\ Cardinality(1..len) = len
    <3> DEFINE up == len + 1
    <3>1. up \in Nat
      BY <1>1
    <3> HIDE DEF up
    <3>2. /\ IsFiniteSet(1..up) /\ IsFiniteSet(1..len)
          /\ Cardinality(1..up) = up /\ Cardinality(1..len) = len
      BY <1>1, <3>1, FS_Interval
    <3> QED
      BY <3>2 DEF up
  <2>5. PICK m, n \in 1..(len + 1) : m # n /\ g[m] = g[n]
    <3> DEFINE S == 1..(len + 1)
               R == 1..len
    <3>1. /\ Cardinality(R) < Cardinality(S) /\ IsFiniteSet(S) /\ IsFiniteSet(R)
          /\ g \in [S -> R]
      BY <1>1, <2>3, <2>4
    <3> HIDE DEF g, S, R
    <3>2. \E m, n \in S : m # n /\ g[m] = g[n]
      BY <3>1, FS_PigeonHole
    <3> QED
      BY <3>2 DEF S
  <2>6. EntryName(stem, m) = EntryName(stem, n)
    BY <2>2, <2>5
  <2> QED
    BY <1>1, <2>5, <2>6, CandidatesDiffer
<1>4. \E n \in 1..(len + 1) : Free(n) /\ \A m \in 1..(n - 1) : ~Free(m)
  <2> DEFINE T == {n \in 1..(len + 1) : Free(n)}
  <2>1. T \in SUBSET Nat /\ T # {}
    BY <1>1, <1>3
  <2>2. PICK n \in T : \A m \in T : n <= m
    <3> HIDE DEF T
    <3> QED
      BY <2>1, LeastNumber
  <2>3. \A m \in 1..(n - 1) : m \notin T /\ m \in 1..(len + 1)
    BY <1>1, <2>2
  <2> QED
    BY <2>2, <2>3
<1>5. first \in 1..(len + 1) /\ Free(first)
  BY <1>4
<1>6. Named(names, f) = Append(names, name)
  BY DEF Named, stem, len
<1> HIDE DEF first
<1>7. name \in Seq(Nat)
  <2>1. first \in Nat
    BY <1>1, <1>5
  <2> QED
    BY <1>1, <2>1, AppendProperties DEF EntryName
<1>8. \A i \in 1..len : names[i] # name
  BY <1>2, <1>5
<1> HIDE DEF name
<1> DEFINE more == Append(names, name)
<1>9. /\ more \in Seq(Seq(Nat)) /\ Len(more) = len + 1
      /\ \A i \in 1..len : more[i] = names[i]
      /\ more[len + 1] = name
  BY <1>7, AppendProperties DEF len
<1> HIDE DEF more
<1>10. DOMAIN more = 1..(len + 1) /\ DOMAIN names = 1..len
  BY <1>9 DEF len
<1>11. \A a, b \in DOMAIN more : more[a] = more[b] => a = b
  <2> SUFFICES ASSUME NEW a \in 1..(len + 1), NEW b \in 1..(len + 1),
                      more[a] = more[b]
               PROVE  a = b
    BY <1>10
  <2>1. a \in 1..len \/ a = len + 1
    BY <1>1
  <2>2. b \in 1..len \/ b = len + 1
    BY <1>1
  <2> QED
    BY <1>8, <1>9, <1>10, <2>1, <2>2
<1> QED
  BY <1>6, <1>9, <1>11 DEF more, len

\* Whatever the files are called, no two entries have one name.
LEMMA EntriesApart ==
  ASSUME NEW order \in Seq(File)
  PROVE  IsInjective(EntryNames(order))
<1>1. PICK g : /\ g = [k \in 0..Len(order) |->
                         IF k = 0 THEN <<>> ELSE Named(g[k - 1], order[k])]
               /\ EntryNames(order) = g[Len(order)]
  BY NamesOneByOne
<1> DEFINE len == Len(order)
           Apart(s) == /\ s \in Seq(Seq(Nat))
                       /\ \A a, b \in DOMAIN s : s[a] = s[b] => a = b
           T == {k \in 0..len : ~Apart(g[k])}
<1>2. len \in Nat /\ \A k \in 1..len : order[k] \in File
  OBVIOUS
<1>3. /\ g[0] = <<>>
      /\ \A k \in 1..len : g[k] = Named(g[k - 1], order[k])
  BY <1>1, <1>2
<1>4. Apart(g[0])
  BY <1>3
<1>5. \A s : \A f \in File : Apart(s) => Apart(Named(s, f))
  BY NamedApart
<1> HIDE DEF Apart, len
<1>6. T = {}
  <2> SUFFICES ASSUME T # {} PROVE FALSE
    OBVIOUS
  <2>1. T \in SUBSET Nat
    BY <1>2
  <2>2. PICK k \in T : \A m \in T : k <= m
    <3> HIDE DEF T
    <3> QED
      BY <2>1, LeastNumber
  <2>3. k \in 1..len /\ k - 1 \in 0..len /\ k - 1 \notin T
    BY <1>2, <1>4, <2>2
  <2>4. Apart(g[k - 1])
    BY <2>3
  <2> QED
    BY <1>2, <1>3, <1>5, <2>2, <2>3, <2>4
<1>7. Apart(g[len])
  BY <1>2, <1>6
<1> QED
  BY <1>1, <1>7 DEF IsInjective, Apart, len

LEMMA EntriesAlwaysDiffer == EntriesDiffer
<1> SUFFICES ASSUME NEW j \in Job, NEW order \in SetToSeqs(FilesOf(j))
             PROVE  IsInjective(EntryNames(order))
  BY DEF EntriesDiffer
<1>1. FilesOf(j) \in SUBSET File /\ IsFiniteSet(File)
  BY JobRowsAssumption DEF FilesOf
<1>2. Cardinality(FilesOf(j)) \in Nat
  BY <1>1, FS_Subset, FS_CardinalityType
<1>3. order \in [1..Cardinality(FilesOf(j)) -> FilesOf(j)]
  BY DEF SetToSeqs
<1>4. order \in Seq(FilesOf(j))
  BY <1>2, <1>3
<1>5. order \in Seq(File)
  BY <1>1, <1>4
<1> QED
  BY <1>5, EntriesApart

\* No two entries of an archive have one name, and a tab that shows a converted
\* file can have the archive of its job (jobs.py 313-331).
THEOREM ArchiveHoldsAll == Spec => []ArchiveIsWhole
<1>1. SvInv => ArchiveIsWhole
  <2> SUFFICES ASSUME SvInv, NEW i \in DOMAIN shown, JobExists(shown[i].id),
                      ~(shown[i].ready \subseteq Tampered \cup wiped)
               PROVE  ZipStatus(shown[i].id) = 200
    BY EntriesAlwaysDiffer DEF ArchiveIsWhole
  <2>1. PICK f \in shown[i].ready : f \notin Tampered \cup wiped
    OBVIOUS
  <2>2. f \in Ready(shown[i].id)
    BY <2>1, ShownIsGood DEF StillGood
  <2>3. f \in File /\ files[f].output # 0
    BY <2>2 DEF Ready, FilesOf
  <2>4. Download(f) = 200
    BY <2>1, <2>3, ReadyIsThere DEF SvInv
  <2>5. f \in Packed(shown[i].id)
    BY <2>2, <2>4 DEF Packed
  <2> QED
    BY <2>2, <2>5 DEF ZipStatus
<1> QED
  BY <1>1, TabAgreesWithServer, PTL

=============================================================================
