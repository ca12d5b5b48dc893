--------------------------- MODULE EnvSchedProofs ---------------------------
(***************************************************************************)
(* Proofs about EnvSched, for every number of slots, every sequence of boot*)
(* environments and every identifier width, in three stages:               *)
(*   AnyInv   what no system call can break;                               *)
(*   SlotInv  slots and wake-ups, without sys_set_env_status outside fork();*)
(*   LibInv   the scheduler, for programs that moreover destroy only       *)
(*            environments that are runnable.                              *)
(* The lemmas on lists come first: what the pointer operations do to a list*)
(* whose links are right.                                                  *)
(***************************************************************************)
EXTENDS EnvSched, FiniteSetTheorems, TLAPS

-----------------------------------------------------------------------------
(* Linked lists: what LIST_INSERT_HEAD and LIST_REMOVE do to a list whose  *)
(* links are right                                                         *)

ListType == [first : Env \cup {NULL}, next : [Env -> Env \cup {NULL}],
             prev : [Env -> Env \cup {NULL, HEAD}]]

\* s is the list L, link by link; n is its length.
Linked(L, s, n) ==
    /\ \A i, j \in 1 .. n : s[i] = s[j] => i = j
    /\ L.first = IF n = 0 THEN NULL ELSE s[1]
    /\ \A i \in 1 .. n :
         /\ L.next[s[i]] = IF i = n THEN NULL ELSE s[i + 1]
         /\ L.prev[s[i]] = IF i = 1 THEN HEAD ELSE s[i - 1]

\* The list L holds exactly the elements of S.
Holds(L, S) ==
    \E n \in Nat : \E s \in [1 .. n -> S] :
        /\ \A x \in S : \E i \in 1 .. n : s[i] = x
        /\ Linked(L, s, n)

\* No slot has the address of a null pointer or of the head of the list.
LEMMA Addresses == NULL \notin Env /\ HEAD \notin Env /\ HEAD # NULL
BY EnvSchedAssumption

\* Represents in terms of positions.
LEMMA RepresentsLinked ==
  ASSUME NEW L, NEW S, NEW n \in Nat, NEW s \in [1 .. n -> S]
  PROVE  List!Represents(L, s) <=> Linked(L, s, n)
<1>1. s \in Seq(S) /\ Len(s) = n /\ DOMAIN s = 1 .. n /\ (s = <<>> <=> n = 0)
  OBVIOUS
<1> QED
  BY <1>1 DEF List!Represents, Linked

\* RunListExact says that the list holds exactly the runnable environments.
LEMMA ExactHolds == RunListExact <=> Holds(sched, Runnable)
<1> DEFINE card == Cardinality(Runnable)
<1>1. IsFiniteSet(Runnable) /\ card \in Nat
  <2>1. IsFiniteSet(Env)
    BY EnvSchedAssumption, FS_Interval DEF Env
  <2> QED
    BY <2>1, FS_Subset, FS_CardinalityType DEF Runnable
<1>2. ASSUME RunListExact
      PROVE  Holds(sched, Runnable)
  <2>1. PICK s \in [1 .. card -> Runnable] : List!Represents(sched, s)
    BY <1>2 DEF RunListExact
  <2>2. Linked(sched, s, card)
    BY <1>1, <2>1, RepresentsLinked
  <2>3. ASSUME NEW x \in Runnable, \A i \in 1 .. card : s[i] # x
        PROVE  FALSE
    <3>1. s \in Injection(1 .. card, Runnable \ {x})
      BY <2>2, <2>3 DEF Linked, Injection, IsInjective
    <3>2. IsFiniteSet(Runnable \ {x}) /\ Cardinality(Runnable \ {x}) = card - 1
      BY <1>1, FS_RemoveElement
    <3>3. Cardinality(1 .. card) <= Cardinality(Runnable \ {x})
      BY <3>1, <3>2, FS_Injection
    <3>4. Cardinality(1 .. card) = card
      BY <1>1, FS_Interval
    <3> QED
      BY <1>1, <3>2, <3>3, <3>4
  <2> QED
    BY <1>1, <2>2, <2>3 DEF Holds
<1>3. ASSUME Holds(sched, Runnable)
      PROVE  RunListExact
  <2>1. PICK n \in Nat : \E s \in [1 .. n -> Runnable] :
           (\A x \in Runnable : \E i \in 1 .. n : s[i] = x) /\ Linked(sched, s, n)
    BY <1>3 DEF Holds
  <2> PICK s \in [1 .. n -> Runnable] :
           (\A x \in Runnable : \E i \in 1 .. n : s[i] = x) /\ Linked(sched, s, n)
    BY <2>1
  <2>2. s \in Bijection(1 .. n, Runnable)
    BY <2>1 DEF Linked, Bijection, Injection, Surjection, IsInjective
  <2>3. card = n
    BY <2>2, FS_CountingElements DEF ExistsBijection
  <2>4. List!Represents(sched, s)
    BY <2>1, RepresentsLinked
  <2> QED
    BY <2>3, <2>4 DEF RunListExact
<1> QED
  BY <1>2, <1>3

USE Addresses

\* A list with no first element is empty, and the first element is on it.
LEMMA FirstHolds ==
  ASSUME NEW L, NEW S, Holds(L, S), NULL \notin S
  PROVE  /\ L.first = NULL <=> S = {}
         /\ L.first # NULL => L.first \in S
BY DEF Holds, Linked

\* The successor of an element is the end of the list or another element, and
\* so is its predecessor.
LEMMA NextHolds ==
  ASSUME NEW L, NEW S, Holds(L, S), NEW e \in S
  PROVE  L.next[e] \in (S \ {e}) \cup {NULL}
BY DEF Holds, Linked

\* ... and so is what points at it: another element, or the head.
LEMMA PrevHolds ==
  ASSUME NEW L, NEW S, Holds(L, S), NEW e \in S
  PROVE  L.prev[e] \in (S \ {e}) \cup {HEAD}
BY DEF Holds, Linked

\* M is the list L over S with e before its first element.
PutFirst(L, M, S, e) ==
    /\ M.first = e
    /\ M.next[e] = L.first /\ \A x \in S : M.next[x] = L.next[x]
    /\ M.prev[e] = HEAD
    /\ \A x \in S : M.prev[x] = IF x = L.first THEN e ELSE L.prev[x]

\* t is e followed by the n elements of s.
Prefixed(t, e, s, n) == t[1] = e /\ \A i \in 1 .. n : t[i + 1] = s[i]

\* What is inserted becomes the first link, and the other links stay.
LEMMA InsertLinked ==
  ASSUME NEW S, NULL \notin S, NEW n \in Nat, NEW s \in [1 .. n -> S],
         NEW L, Linked(L, s, n), NEW e, e \notin S,
         NEW M, PutFirst(L, M, S, e), NEW t, Prefixed(t, e, s, n)
  PROVE  Linked(M, t, n + 1)
<1> USE DEF PutFirst, Prefixed
<1>1. \A i \in 2 .. n + 1 : i - 1 \in 1 .. n /\ t[i] = s[i - 1]
  <2> TAKE i \in 2 .. n + 1
  <2>1. i - 1 \in 1 .. n /\ i = (i - 1) + 1
    OBVIOUS
  <2> QED
    BY <2>1
<1>2. \A i, j \in 1 .. n + 1 : t[i] = t[j] => i = j
  <2> TAKE i, j \in 1 .. n + 1
  <2>1. CASE i = 1 \/ j = 1
    BY <1>1, <2>1
  <2>2. CASE i # 1 /\ j # 1
    BY <1>1, <2>2 DEF Linked
  <2> QED
    BY <2>1, <2>2
<1>3. \A i \in 1 .. n + 1 : M.next[t[i]] = IF i = n + 1 THEN NULL ELSE t[i + 1]
  <2> TAKE i \in 1 .. n + 1
  <2>1. CASE i = 1
    BY <1>1, <2>1 DEF Linked
  <2>2. CASE i # 1
    <3> DEFINE k == i - 1
    <3>1. k \in 1 .. n /\ t[i] = s[k] /\ s[k] \in S
      BY <1>1, <2>2
    <3>2. M.next[t[i]] = IF k = n THEN NULL ELSE s[k + 1]
      BY <3>1 DEF Linked
    <3>3. k = n <=> i = n + 1
      OBVIOUS
    <3>4. k # n => t[i + 1] = s[k + 1]
      BY <1>1, <3>1
    <3> HIDE DEF k
    <3> QED
      BY <3>2, <3>3, <3>4
  <2> QED
    BY <2>1, <2>2
<1>4. \A i \in 1 .. n + 1 : M.prev[t[i]] = IF i = 1 THEN HEAD ELSE t[i - 1]
  <2> TAKE i \in 1 .. n + 1
  <2>1. CASE i = 1
    BY <2>1
  <2>2. CASE i # 1
    <3> DEFINE k == i - 1
    <3>1. k \in 1 .. n /\ t[i] = s[k] /\ s[k] \in S
      BY <1>1, <2>2
    <3>2. s[k] = L.first <=> k = 1
      BY <3>1 DEF Linked
    <3>3. M.prev[t[i]] = IF k = 1 THEN e ELSE s[k - 1]
      <4> HIDE DEF k
      <4>1. L.prev[s[k]] = IF k = 1 THEN HEAD ELSE s[k - 1]
        BY <3>1 DEF Linked
      <4> QED
        BY <3>1, <3>2, <4>1
    <3>4. t[k] = IF k = 1 THEN e ELSE s[k - 1]
      BY <1>1, <3>1
    <3> QED
      BY <2>2, <3>3, <3>4
  <2> QED
    BY <2>1, <2>2
<1> QED
  BY <1>2, <1>3, <1>4 DEF Linked

\* LIST_INSERT_HEAD of an element that is not on the list adds it.
LEMMA InsertHolds ==
  ASSUME NEW L \in ListType, NEW S \in SUBSET Env, Holds(L, S),
         NEW e \in Env, e \notin S
  PROVE  /\ List!InsertHead(L, e) \in ListType
         /\ Holds(List!InsertHead(L, e), S \cup {e})
<1> DEFINE M == List!InsertHead(L, e)
<1>1. /\ M \in ListType
      /\ PutFirst(L, M, S, e)
  BY DEF List!InsertHead, ListType, PutFirst
<1> HIDE DEF M
<1> PICK n \in Nat : \E s \in [1 .. n -> S] :
         (\A x \in S : \E i \in 1 .. n : s[i] = x) /\ Linked(L, s, n)
  BY DEF Holds
<1>2. PICK s \in [1 .. n -> S] :
         (\A x \in S : \E i \in 1 .. n : s[i] = x) /\ Linked(L, s, n)
  OBVIOUS
<1> DEFINE t == [i \in 1 .. n + 1 |-> IF i = 1 THEN e ELSE s[i - 1]]
<1>3. t \in [1 .. n + 1 -> S \cup {e}]
  OBVIOUS
<1>4. Prefixed(t, e, s, n)
  BY DEF Prefixed
<1> HIDE DEF t
<1>5. \A x \in S \cup {e} : \E i \in 1 .. n + 1 : t[i] = x
  <2>1. \A i \in 1 .. n : i + 1 \in 1 .. n + 1
    OBVIOUS
  <2>2. 1 \in 1 .. n + 1
    OBVIOUS
  <2> QED
    BY <1>2, <1>4, <2>1, <2>2 DEF Prefixed
<1>6. Linked(M, t, n + 1)
  <2>1. NULL \notin S
    OBVIOUS
  <2> QED
    BY <1>1, <1>2, <1>4, <2>1, InsertLinked
<1>7. n + 1 \in Nat
  OBVIOUS
<1>8. Holds(M, S \cup {e})
  BY <1>3, <1>5, <1>6, <1>7 DEF Holds
<1> QED
  BY <1>1, <1>8 DEF M

\* M is the list L over S with the links around e joined.
Joined(L, M, S, e) ==
    /\ M.first = IF L.prev[e] = HEAD THEN L.next[e] ELSE L.first
    /\ \A x \in S : M.next[x] = IF x = L.prev[e] THEN L.next[e] ELSE L.next[x]
    /\ \A x \in S : M.prev[x] = IF x = L.next[e] THEN L.prev[e] ELSE L.prev[x]

\* t is s without its element number k.
Without(t, s, k, n) ==
    \A i \in 1 .. n - 1 : t[i] = IF i < k THEN s[i] ELSE s[i + 1]

\* The links around the removed element e = s[k] are joined, and the others
\* stay.
LEMMA RemoveLinked ==
  ASSUME NEW S, NULL \notin S, HEAD \notin S,
         NEW n \in Nat, NEW s \in [1 .. n -> S], NEW k \in 1 .. n,
         NEW L, Linked(L, s, n), NEW M, Joined(L, M, S, s[k]),
         NEW t, Without(t, s, k, n)
  PROVE  Linked(M, t, n - 1)
<1> USE DEF Without
<1>1. /\ \A i, j \in 1 .. n : s[i] = s[j] => i = j
      /\ \A i \in 1 .. n : /\ s[i] \in S
                           /\ L.next[s[i]] = IF i = n THEN NULL ELSE s[i + 1]
                           /\ L.prev[s[i]] = IF i = 1 THEN HEAD ELSE s[i - 1]
  BY DEF Linked
<1>2. \A i \in 1 .. n : s[i] = L.prev[s[k]] <=> i = k - 1
  <2>1. CASE k = 1
    BY <1>1, <2>1
  <2>2. CASE k # 1
    <3>1. k - 1 \in 1 .. n /\ L.prev[s[k]] = s[k - 1]
      BY <1>1, <2>2
    <3> QED
      BY <1>1, <3>1
  <2> QED
    BY <2>1, <2>2
<1>3. \A i \in 1 .. n : s[i] = L.next[s[k]] <=> i = k + 1
  BY <1>1
<1>4. \A i \in 1 .. n : M.next[s[i]] = IF i = k - 1 THEN L.next[s[k]]
                                       ELSE IF i = n THEN NULL ELSE s[i + 1]
  BY <1>1, <1>2 DEF Joined
<1>5. \A i \in 1 .. n : M.prev[s[i]] = IF i = k + 1 THEN L.prev[s[k]]
                                       ELSE IF i = 1 THEN HEAD ELSE s[i - 1]
  <2> TAKE i \in 1 .. n
  <2>1. s[i] \in S /\ L.prev[s[i]] = IF i = 1 THEN HEAD ELSE s[i - 1]
    BY <1>1
  <2> QED
    BY <1>3, <2>1 DEF Joined
<1>6. \A i, j \in 1 .. n - 1 : t[i] = t[j] => i = j
  <2> TAKE i, j \in 1 .. n - 1
  <2> DEFINE a == IF i < k THEN i ELSE i + 1
             b == IF j < k THEN j ELSE j + 1
  <2>1. a \in 1 .. n /\ t[i] = s[a] /\ b \in 1 .. n /\ t[j] = s[b]
    OBVIOUS
  <2>2. a = b => i = j
    OBVIOUS
  <2> HIDE DEF a, b
  <2>3. s[a] = s[b] => a = b
    BY <1>1, <2>1
  <2> QED
    BY <2>1, <2>2, <2>3
<1>7. M.first = IF n - 1 = 0 THEN NULL ELSE t[1]
  <2>1. L.first = s[1] /\ M.first = IF k = 1 THEN L.next[s[1]] ELSE L.first
    <3>1. L.prev[s[k]] = HEAD <=> k = 1
      BY <1>1
    <3> QED
      BY <3>1 DEF Linked, Joined
  <2>2. 1 \in 1 .. n
    OBVIOUS
  <2>3. CASE k = 1
    BY <1>1, <2>1, <2>2, <2>3
  <2>4. CASE k # 1
    BY <2>1, <2>4
  <2> QED
    BY <2>3, <2>4
<1>8. \A i \in 1 .. n - 1 : M.next[t[i]] = IF i = n - 1 THEN NULL ELSE t[i + 1]
  <2> TAKE i \in 1 .. n - 1
  <2>1. CASE i < k - 1
    <3>1. i \in 1 .. n /\ i # k - 1 /\ i # n /\ t[i] = s[i] /\ t[i + 1] = s[i + 1] /\ i # n - 1
      BY <2>1
    <3> QED
      BY <1>4, <3>1
  <2>2. CASE i = k - 1
    <3>1. i \in 1 .. n /\ t[i] = s[i]
      BY <2>2
    <3>2. M.next[t[i]] = IF k = n THEN NULL ELSE s[k + 1]
      BY <1>1, <1>4, <2>2, <3>1
    <3>3. k # n => t[k] = s[k + 1]
      OBVIOUS
    <3> QED
      BY <2>2, <3>2, <3>3
  <2>3. CASE i >= k
    <3>1. i + 1 \in 1 .. n /\ i + 1 # k - 1 /\ t[i] = s[i + 1]
      BY <2>3
    <3>2. M.next[t[i]] = IF i + 1 = n THEN NULL ELSE s[(i + 1) + 1]
      BY <1>4, <3>1
    <3>3. i # n - 1 => t[i + 1] = s[(i + 1) + 1]
      BY <2>3
    <3> QED
      BY <3>2, <3>3
  <2> QED
    BY <2>1, <2>2, <2>3
<1>9. \A i \in 1 .. n - 1 : M.prev[t[i]] = IF i = 1 THEN HEAD ELSE t[i - 1]
  <2> TAKE i \in 1 .. n - 1
  <2>1. CASE i < k
    <3>1. i \in 1 .. n /\ i # k + 1 /\ t[i] = s[i] /\ (i # 1 => t[i - 1] = s[i - 1])
      BY <2>1
    <3> QED
      BY <1>5, <3>1
  <2>2. CASE i = k
    <3>1. i + 1 \in 1 .. n /\ t[i] = s[i + 1] /\ (i # 1 => t[i - 1] = s[i - 1])
      BY <2>2
    <3>2. M.prev[t[i]] = IF k = 1 THEN HEAD ELSE s[k - 1]
      BY <1>1, <1>5, <2>2, <3>1
    <3> QED
      BY <2>2, <3>1, <3>2
  <2>3. CASE i > k
    <3>1. /\ i + 1 \in 1 .. n /\ i + 1 # k + 1 /\ i + 1 # 1 /\ i # 1
          /\ t[i] = s[i + 1] /\ t[i - 1] = s[(i + 1) - 1]
      BY <2>3
    <3> QED
      BY <1>5, <3>1
  <2> QED
    BY <2>1, <2>2, <2>3
<1> QED
  BY <1>6, <1>7, <1>8, <1>9 DEF Linked

\* LIST_REMOVE of an element of the list does not fault and takes it off.
LEMMA RemoveHolds ==
  ASSUME NEW L \in ListType, NEW S \in SUBSET Env, Holds(L, S), NEW e \in S
  PROVE  /\ ~ List!RemoveFaults(L, e)
         /\ Holds(List!Remove(L, e), S \ {e})
<1> PICK n \in Nat : \E s \in [1 .. n -> S] :
         (\A x \in S : \E i \in 1 .. n : s[i] = x) /\ Linked(L, s, n)
  BY DEF Holds
<1>1. PICK s \in [1 .. n -> S] :
         (\A x \in S : \E i \in 1 .. n : s[i] = x) /\ Linked(L, s, n)
  OBVIOUS
<1>2. PICK k \in 1 .. n : s[k] = e
  BY <1>1
<1>3. /\ L.prev[e] = IF k = 1 THEN HEAD ELSE s[k - 1]
      /\ L.next[e] = IF k = n THEN NULL ELSE s[k + 1]
  BY <1>1, <1>2 DEF Linked
<1>4. /\ k = 1 => L.prev[e] = HEAD
      /\ k # 1 => L.prev[e] \in Env
      /\ L.next[e] \in Env \cup {NULL}
  BY <1>3 DEF ListType
<1> DEFINE M == List!Remove(L, e)
<1>5. Joined(L, M, S, e)
  <2>1. CASE k = 1
    BY <1>4, <2>1 DEF List!Remove, List!Store, ListType, Joined
  <2>2. CASE k # 1
    BY <1>4, <2>2 DEF List!Remove, List!Store, ListType, Joined
  <2> QED
    BY <2>1, <2>2
<1> HIDE DEF M
<1> DEFINE t == [i \in 1 .. n - 1 |-> IF i < k THEN s[i] ELSE s[i + 1]]
<1>6. Without(t, s, k, n)
  BY DEF Without
<1>7. t \in [1 .. n - 1 -> S \ {e}]
  <2> SUFFICES ASSUME NEW i \in 1 .. n - 1
               PROVE  (IF i < k THEN s[i] ELSE s[i + 1]) \in S \ {e}
    OBVIOUS
  <2>1. CASE i < k
    <3>1. i \in 1 .. n /\ i # k
      BY <2>1
    <3> QED
      BY <1>1, <1>2, <2>1, <3>1 DEF Linked
  <2>2. CASE ~ (i < k)
    <3>1. i + 1 \in 1 .. n /\ i + 1 # k
      BY <2>2
    <3>2. s[i + 1] \in S
      BY <3>1
    <3>3. s[i + 1] # e
      BY <1>1, <1>2, <3>1 DEF Linked
    <3> QED
      BY <2>2, <3>2, <3>3
  <2> QED
    BY <2>1, <2>2
<1> HIDE DEF t
<1>8. \A x \in S \ {e} : \E i \in 1 .. n - 1 : t[i] = x
  <2> TAKE x \in S \ {e}
  <2>1. PICK i \in 1 .. n : s[i] = x
    BY <1>1
  <2>2. CASE i < k
    <3>1. i \in 1 .. n - 1 /\ t[i] = x
      BY <1>6, <2>1, <2>2 DEF Without
    <3> QED
      BY <3>1
  <2>3. CASE i > k
    <3>1. i - 1 \in 1 .. n - 1 /\ ~ (i - 1 < k) /\ (i - 1) + 1 = i
      BY <2>3
    <3> QED
      BY <1>6, <2>1, <3>1 DEF Without
  <2>4. i # k
    BY <1>2, <2>1
  <2> QED
    BY <2>2, <2>3, <2>4
<1>9. Linked(M, t, n - 1)
  <2>1. NULL \notin S /\ HEAD \notin S
    OBVIOUS
  <2> QED
    BY <1>1, <1>2, <1>5, <1>6, <2>1, RemoveLinked
<1>10. n - 1 \in Nat
  BY <1>2
<1>11. Holds(M, S \ {e})
  BY <1>7, <1>8, <1>9, <1>10 DEF Holds
<1> QED
  BY <1>3, <1>4, <1>11 DEF List!RemoveFaults, M

\* The element that has been removed still points to its former successor.
LEMMA RemovedNext ==
  ASSUME NEW L \in ListType, NEW S \in SUBSET Env, Holds(L, S), NEW e \in S
  PROVE  List!Remove(L, e).next[e] \in (S \ {e}) \cup {NULL}
<1>1. L.prev[e] # e /\ L.prev[e] # NULL
  BY PrevHolds
<1>2. L.prev[e] \in Env \cup {HEAD} /\ L.next[e] \in Env \cup {NULL}
  BY <1>1 DEF ListType
<1>3. List!Remove(L, e).next[e] = L.next[e]
  <2>1. CASE L.prev[e] = HEAD
    BY <1>2, <2>1 DEF List!Remove, List!Store, ListType
  <2>2. CASE L.prev[e] # HEAD
    BY <1>1, <1>2, <2>2 DEF List!Remove, List!Store, ListType
  <2> QED
    BY <2>1, <2>2
<1> QED
  BY <1>3, NextHolds

\* The stores of LIST_REMOVE, stale as its pointers may be, hit pointers.
LEMMA RemoveType ==
  ASSUME NEW L \in ListType, NEW e \in Env, ~ List!RemoveFaults(L, e)
  PROVE  List!Remove(L, e) \in ListType
<1>1. L.prev[e] \in Env \cup {HEAD} /\ L.next[e] \in Env \cup {NULL}
  BY DEF ListType, List!RemoveFaults
<1>2. CASE L.prev[e] = HEAD
  BY <1>1, <1>2 DEF List!Remove, List!Store, ListType
<1>3. CASE L.prev[e] # HEAD
  BY <1>1, <1>3 DEF List!Remove, List!Store, ListType
<1> QED
  BY <1>2, <1>3
-----------------------------------------------------------------------------
(* Identifiers                                                             *)

IdRange == 0 .. NENV * IdMod - 1

\* 0 is an identifier, and NULL is none.
LEMMA IdRangeType == 0 \in IdRange /\ NULL \notin IdRange /\ IdRange \subseteq Nat
<1>1. NENV \in Nat \ {0} /\ IdMod \in Nat \ {0}
  BY EnvSchedAssumption
<1>2. NENV * IdMod \in Nat \ {0}
  BY <1>1, Z3
<1> QED
  BY <1>2, EnvSchedAssumption DEF IdRange

\* ENVX of an identifier is a slot.
LEMMA EnvxSlot ==
  ASSUME NEW id \in IdRange
  PROVE  ENVX(id) \in Env
<1> DEFINE q == id \div IdMod
           r == id % IdMod
<1>1. NENV \in Nat \ {0} /\ IdMod \in Nat \ {0} /\ id \in Nat
  BY EnvSchedAssumption DEF IdRange
<1>2. q \in Nat /\ r \in 0 .. IdMod - 1 /\ id = q * IdMod + r
  BY <1>1, Z3
<1>3. q * IdMod < NENV * IdMod
  BY <1>1, <1>2 DEF IdRange
<1> HIDE DEF q
<1>4. q < NENV
  BY <1>1, <1>2, <1>3, Z3
<1> QED
  BY <1>1, <1>2, <1>4 DEF ENVX, Env, q

\* ENVX takes the slot back out of what mkenvid puts it into.
LEMMA MkEnvIdSlot ==
  ASSUME NEW e \in Env, NEW n \in 0 .. IdMod - 1
  PROVE  MkEnvId(e, n) \in IdRange /\ ENVX(MkEnvId(e, n)) = e
<1>1. NENV \in Nat \ {0} /\ IdMod \in Nat \ {0} /\ e \in Nat /\ e < NENV
  BY EnvSchedAssumption DEF Env
<1>2. (e * IdMod + n) \div IdMod = e
  BY <1>1, Z3
<1>3. e * IdMod + n \in Nat /\ e * IdMod + n < NENV * IdMod
  BY <1>1, Z3
<1> QED
  BY <1>1, <1>2, <1>3 DEF IdRange, ENVX, MkEnvId
-----------------------------------------------------------------------------
(* What holds of every sequence of system calls                            *)

Status == {"free", "runnable", "not_runnable"}

\* The current environment never is on the free list: not even when it has
\* given itself the status ENV_FREE.
CurrentInUse ==
    cpu = "user" => /\ curenv \in Env
                    /\ \A i \in DOMAIN env_free_list : env_free_list[i] # curenv

\* The inductive invariant for every value of Calls.
AnyInv == TypeOK /\ FreeListSound /\ CurrentInUse

\* An identifier some program knows leads to a slot.
LEMMA SlotType ==
  ASSUME TypeOK, NEW id \in Ids
  PROVE  /\ id \in IdRange
         /\ id # 0 => Slot(id) \in Env
         /\ curenv \in Env => Slot(id) \in Env
<1>1. IdRange \subseteq Int /\ 0 \in IdRange
  BY IdRangeType DEF IdRange
<1>2. id \in IdRange
  BY <1>1 DEF Ids, TypeOK, IdRange
<1> QED
  BY <1>2, EnvxSlot DEF Slot

\* What sched_yield leaves behind.
Yielded(status) ==
    /\ cpu' \in {"user", "idle", "spin"}
    /\ curenv' \in Env \cup {NULL} /\ iter' \in Env \cup {NULL} /\ ts' \in Int
    /\ cpu' = "user" => /\ curenv' \in Env /\ iter' = curenv'
                        /\ status[curenv'] = "runnable"

\* sched_yield runs an environment that is runnable and counts its slices.
LEMMA YieldRuns ==
  ASSUME TypeOK, NEW cur \in Env \cup {NULL}, NEW status \in [Env -> Status],
         NEW L, SchedYield(cur, status, L)
  PROVE  Yielded(status)
<1>1. CASE L.first # NULL /\ Stays(status) /\ EnvRun(iter, ts - 1)
  BY <1>1 DEF Stays, EnvRun, TypeOK, Yielded
<1>2. ASSUME NEW e \in Env, status[e] = "runnable", EnvRun(e, env_pri[e] - 1)
      PROVE  Yielded(status)
  BY <1>2 DEF EnvRun, TypeOK, Yielded
<1> QED
  BY <1>1, <1>2 DEF SchedYield, TypeOK, Yielded

\* What env_alloc leaves behind.
Allocated(e, status) ==
    /\ e \in Env /\ env_status[e] = "free"
    /\ cpu = "user" => e # curenv
    /\ next_env_id' \in 0 .. IdMod - 1
    /\ env_id' = [env_id EXCEPT ![e] = env_id'[e]]
    /\ env_id'[e] \in IdRange /\ ENVX(env_id'[e]) = e
    /\ env_parent_id' \in [Env -> IdRange]
    /\ env_status' = [env_status EXCEPT ![e] = status]
    /\ env_free_list' \in Seq(Env)
    /\ \A x : (\E i \in DOMAIN env_free_list' : env_free_list'[i] = x) <=>
                /\ x # e
                /\ \E i \in DOMAIN env_free_list : env_free_list[i] = x
    /\ FreeListSound'

\* env_alloc takes the first free slot off the list and gives it an identifier
\* that leads back to it.
LEMMA AllocTakes ==
  ASSUME AnyInv, NEW e, NEW parent \in IdRange, NEW status \in Status \ {"free"},
         EnvAlloc(e, parent, status)
  PROVE  Allocated(e, status)
<1> DEFINE n == (next_env_id + 1) % IdMod
<1>1. n \in 0 .. IdMod - 1
  <2>1. IdMod \in Nat \ {0} /\ next_env_id \in 0 .. IdMod - 1
    BY EnvSchedAssumption DEF AnyInv, TypeOK
  <2> QED
    BY <2>1, Z3
<1>2. /\ env_free_list \in Seq(Env) /\ env_free_list # <<>>
      /\ e = env_free_list[1] /\ e \in Env
      /\ env_free_list' = Tail(env_free_list)
  BY DEF AnyInv, TypeOK, EnvAlloc
<1>3. /\ env_free_list' \in Seq(Env)
      /\ DOMAIN env_free_list = 1 .. Len(env_free_list)
      /\ DOMAIN env_free_list' = 1 .. Len(env_free_list) - 1
      /\ Len(env_free_list) \in Nat \ {0}
      /\ \A i \in DOMAIN env_free_list' : env_free_list'[i] = env_free_list[i + 1]
  BY <1>2
<1>4. /\ \A i \in DOMAIN env_free_list : env_status[env_free_list[i]] = "free"
      /\ \A i, j \in DOMAIN env_free_list :
            env_free_list[i] = env_free_list[j] => i = j
  BY DEF AnyInv, FreeListSound
<1>5. env_status[e] = "free"
  BY <1>2, <1>3, <1>4
<1>6. cpu = "user" => e # curenv
  BY <1>2, <1>3 DEF AnyInv, CurrentInUse
<1>7. ASSUME NEW x
      PROVE  (\E i \in DOMAIN env_free_list' : env_free_list'[i] = x) <=>
                 x # e /\ \E i \in DOMAIN env_free_list : env_free_list[i] = x
  <2>1. ASSUME NEW i \in DOMAIN env_free_list', env_free_list'[i] = x
        PROVE  x # e /\ \E j \in DOMAIN env_free_list : env_free_list[j] = x
    <3>1. i + 1 \in DOMAIN env_free_list /\ i + 1 # 1 /\ 1 \in DOMAIN env_free_list
      BY <1>3
    <3>2. env_free_list[i + 1] = x
      BY <1>3, <2>1
    <3> QED
      BY <1>2, <1>4, <3>1, <3>2
  <2>2. ASSUME x # e, NEW i \in DOMAIN env_free_list, env_free_list[i] = x
        PROVE  \E j \in DOMAIN env_free_list' : env_free_list'[j] = x
    <3>1. i # 1
      BY <1>2, <2>2
    <3>2. i - 1 \in DOMAIN env_free_list' /\ (i - 1) + 1 = i
      BY <1>3, <3>1
    <3>3. env_free_list'[i - 1] = x
      BY <1>3, <2>2, <3>2
    <3> QED
      BY <3>2, <3>3
  <2> QED
    BY <2>1, <2>2
<1>8. MkEnvId(e, n) \in IdRange /\ ENVX(MkEnvId(e, n)) = e
  BY <1>1, <1>2, MkEnvIdSlot
<1>9. /\ next_env_id' = n
      /\ env_id' = [env_id EXCEPT ![e] = MkEnvId(e, n)]
      /\ env_id'[e] = MkEnvId(e, n)
      /\ env_parent_id' \in [Env -> IdRange]
      /\ env_status' = [env_status EXCEPT ![e] = status]
  BY <1>2 DEF EnvAlloc, AnyInv, TypeOK, IdRange
<1>10. FreeListSound'
  <2>1. \A i \in DOMAIN env_free_list' :
           env_free_list'[i] # e /\ env_status[env_free_list'[i]] = "free"
    BY <1>4, <1>7
  <2>2. \A i \in DOMAIN env_free_list' : env_free_list'[i] \in Env
    BY <1>3
  <2>3. \A i \in DOMAIN env_free_list' : env_status'[env_free_list'[i]] = "free"
    BY <1>9, <2>1, <2>2 DEF AnyInv, TypeOK
  <2>4. ASSUME NEW i \in DOMAIN env_free_list', NEW j \in DOMAIN env_free_list',
               env_free_list'[i] = env_free_list'[j]
        PROVE  i = j
    <3>1. i + 1 \in DOMAIN env_free_list /\ j + 1 \in DOMAIN env_free_list
      BY <1>3
    <3>2. i + 1 = j + 1
      BY <1>3, <1>4, <2>4, <3>1
    <3> QED
      BY <1>3, <3>2
  <2> QED
    BY <2>3, <2>4 DEF FreeListSound
<1> HIDE DEF n
<1> QED
  BY <1>1, <1>2, <1>3, <1>5, <1>6, <1>7, <1>8, <1>9, <1>10 DEF Allocated

\* What env_free leaves behind.
Freed(t) ==
    /\ env_status' = [env_status EXCEPT ![t] = "free"]
    /\ sched' \in ListType
    /\ forking' = [forking EXCEPT ![t] = NULL]
    /\ lost' \subseteq Env
    /\ env_free_list' \in Seq(Env)
    /\ \A x : (\E i \in DOMAIN env_free_list' : env_free_list'[i] = x) <=>
                \/ x = t
                \/ \E i \in DOMAIN env_free_list : env_free_list[i] = x
    /\ FreeListSound'

\* env_free puts the slot in front of the free list.
LEMMA FreePuts ==
  ASSUME AnyInv, NEW t \in Env, env_status[t] # "free",
         ~ List!RemoveFaults(sched, t), EnvFree(t)
  PROVE  Freed(t)
<1>1. /\ env_free_list \in Seq(Env)
      /\ env_free_list' = <<t>> \o env_free_list
  BY DEF AnyInv, TypeOK, EnvFree
<1>2. /\ env_free_list' \in Seq(Env)
      /\ DOMAIN env_free_list = 1 .. Len(env_free_list)
      /\ DOMAIN env_free_list' = 1 .. Len(env_free_list) + 1
      /\ Len(env_free_list) \in Nat
      /\ env_free_list'[1] = t
      /\ \A i \in DOMAIN env_free_list : env_free_list'[i + 1] = env_free_list[i]
  BY <1>1
<1>3. /\ \A i \in DOMAIN env_free_list : env_status[env_free_list[i]] = "free"
      /\ \A i, j \in DOMAIN env_free_list :
            env_free_list[i] = env_free_list[j] => i = j
  BY DEF AnyInv, FreeListSound
<1>4. \A i \in DOMAIN env_free_list' : i # 1 =>
         /\ i - 1 \in DOMAIN env_free_list
         /\ env_free_list'[i] = env_free_list[i - 1]
  <2> TAKE i \in DOMAIN env_free_list'
  <2> HAVE i # 1
  <2>1. i - 1 \in DOMAIN env_free_list /\ (i - 1) + 1 = i
    BY <1>2
  <2> QED
    BY <1>2, <2>1
<1>5. \A x : (\E i \in DOMAIN env_free_list' : env_free_list'[i] = x) <=>
                     \/ x = t
                     \/ \E i \in DOMAIN env_free_list : env_free_list[i] = x
  <2>1. 1 \in DOMAIN env_free_list'
    BY <1>2
  <2>2. \A i \in DOMAIN env_free_list : i + 1 \in DOMAIN env_free_list'
    BY <1>2
  <2> QED
    BY <1>2, <1>4, <2>1, <2>2
<1>6. /\ env_status' = [env_status EXCEPT ![t] = "free"]
      /\ forking' = [forking EXCEPT ![t] = NULL]
      /\ sched' = List!Remove(sched, t)
  BY DEF EnvFree
<1>7. sched' \in ListType
  BY <1>6, RemoveType DEF AnyInv, TypeOK, ListType
<1>8. lost' \subseteq Env
  <2>1. CASE forking[t] = NULL
    BY <2>1 DEF EnvFree, AnyInv, TypeOK
  <2>2. CASE forking[t] # NULL
    <3>1. forking[t] \in IdRange
      BY <2>2 DEF AnyInv, TypeOK, IdRange
    <3> QED
      BY <2>2, <3>1, EnvxSlot DEF EnvFree, AnyInv, TypeOK
  <2> QED
    BY <2>1, <2>2
<1>9. FreeListSound'
  <2>1. \A i \in DOMAIN env_free_list : env_free_list[i] # t /\ env_free_list[i] \in Env
    BY <1>1, <1>3
  <2>2. ASSUME NEW i \in DOMAIN env_free_list'
        PROVE  env_status'[env_free_list'[i]] = "free"
    <3>1. CASE i = 1
      BY <1>2, <1>6, <3>1 DEF AnyInv, TypeOK
    <3>2. CASE i # 1
      BY <1>3, <1>4, <1>6, <2>1, <3>2 DEF AnyInv, TypeOK
    <3> QED
      BY <3>1, <3>2
  <2>3. ASSUME NEW i \in DOMAIN env_free_list', NEW j \in DOMAIN env_free_list',
               env_free_list'[i] = env_free_list'[j]
        PROVE  i = j
    <3>1. CASE i = 1 \/ j = 1
      BY <1>2, <1>4, <2>1, <2>3, <3>1
    <3>2. CASE i # 1 /\ j # 1
      <4>1. i - 1 = j - 1
        BY <1>3, <1>4, <2>3, <3>2
      <4> QED
        BY <1>2, <4>1
    <3> QED
      BY <3>1, <3>2
  <2> QED
    BY <2>2, <2>3 DEF FreeListSound
<1> QED
  BY <1>2, <1>5, <1>6, <1>7, <1>8, <1>9 DEF Freed

\* my_set_env_status of an environment that is not on the free list.
LEMMA StatusTypes ==
  ASSUME AnyInv, NEW t \in Env,
         \A i \in DOMAIN env_free_list : env_free_list[i] # t,
         NEW s \in Status \ {"free"}, SetStatus(t, s), UNCHANGED env_free_list
  PROVE  /\ env_status' = [env_status EXCEPT ![t] = s]
         /\ sched' \in ListType
         /\ FreeListSound'
<1>1. env_status' = [env_status EXCEPT ![t] = s]
  BY DEF SetStatus
<1>2. sched \in ListType /\ env_status \in [Env -> Status] /\ env_free_list \in Seq(Env)
  BY DEF AnyInv, TypeOK, ListType, Status
<1>3. sched' \in ListType
  <2>1. CASE env_status[t] = s
    BY <1>2, <2>1 DEF SetStatus
  <2>2. CASE env_status[t] # s /\ s = "runnable"
    BY <1>2, <2>2 DEF SetStatus, List!InsertHead, ListType
  <2>3. CASE env_status[t] # s /\ s = "not_runnable"
    BY <1>2, <2>3, RemoveType DEF SetStatus, StatusFaults
  <2> QED
    BY <2>1, <2>2, <2>3 DEF Status
<1>4. \A i \in DOMAIN env_free_list : env_free_list[i] \in Env
  BY <1>2
<1>5. FreeListSound'
  BY <1>1, <1>2, <1>4 DEF FreeListSound, AnyInv
<1> QED
  BY <1>1, <1>3, <1>5

\* A slot that envid2env finds is not on the free list.
LEMMA FoundInUse ==
  ASSUME AnyInv, NEW id, Found(id)
  PROVE  \A i \in DOMAIN env_free_list : env_free_list[i] # Slot(id)
BY DEF AnyInv, FreeListSound, Found

\* At boot every slot is free and no environment is current.
LEMMA AnyInit == Init => AnyInv
<1> SUFFICES ASSUME Init
             PROVE  AnyInv
  OBVIOUS
<1>1. NENV \in Nat \ {0} /\ IdMod \in Nat \ {0}
  BY EnvSchedAssumption
<1>2. NENV * IdMod \in Nat \ {0}
  BY <1>1, Z3
<1>3. /\ env_free_list \in Seq(Env) /\ DOMAIN env_free_list = 1 .. NENV
      /\ \A i \in 1 .. NENV : env_free_list[i] = i - 1 /\ i - 1 \in Env
  <2>1. \A i \in 1 .. NENV : i - 1 \in Env
    BY <1>1 DEF Env
  <2>2. env_free_list \in [1 .. NENV -> Env]
    BY <2>1 DEF Init
  <2> QED
    BY <1>1, <2>1, <2>2 DEF Init
<1>4. TypeOK
  <2>1. sched \in ListType
    BY DEF Init, List!ListInit, ListType
  <2>2. env_id \in [Env -> 0 .. NENV * IdMod - 1] /\ env_parent_id \in [Env -> 0 .. NENV * IdMod - 1]
    BY <1>2 DEF Init
  <2>3. next_env_id \in 0 .. IdMod - 1 /\ env_pri \in [Env -> Nat] /\ ts \in Int
    BY <1>1 DEF Init
  <2>4. forking \in [Env -> (1 .. NENV * IdMod - 1) \cup {NULL}]
    BY DEF Init
  <2> QED
    BY <1>3, <2>1, <2>2, <2>3, <2>4 DEF Init, TypeOK, ListType
<1>5. FreeListSound
  BY <1>1, <1>3 DEF Init, FreeListSound
<1> QED
  BY <1>4, <1>5 DEF Init, AnyInv, CurrentInUse

\* Every step of every program keeps the types, the free list, and the current
\* environment off it.
LEMMA AnyStep == AnyInv /\ [Next]_vars => AnyInv'
<1> SUFFICES ASSUME AnyInv, [Next]_vars
             PROVE  AnyInv'
  OBVIOUS
<1>1. /\ TypeOK /\ FreeListSound
      /\ sched \in ListType /\ env_status \in [Env -> Status]
      /\ env_id \in [Env -> IdRange] /\ curenv \in Env \cup {NULL}
      /\ 0 \in IdRange /\ IdRange \subseteq Nat
  BY IdRangeType DEF AnyInv, TypeOK, ListType, Status, IdRange
<1>2. Acting => curenv \in Env
  BY DEF Acting, AnyInv, CurrentInUse
<1>3. CASE UNCHANGED vars
  BY <1>3 DEF AnyInv, TypeOK, FreeListSound, CurrentInUse, vars
<1>4. CASE StartTimer
  BY <1>4 DEF StartTimer, AnyInv, TypeOK, FreeListSound, CurrentInUse
<1>5. ASSUME NEW e \in Env, EnvCreate(e)
      PROVE  AnyInv'
  <2>1. Allocated(e, "runnable")
    BY <1>1, <1>5, AllocTakes DEF EnvCreate, Status
  <2>2. env_pri' \in [Env -> Nat]
    <3> DEFINE n == Cardinality({x \in Env : env_status[x] # "free"})
    <3>1. n \in Nat
      <4>1. IsFiniteSet(Env)
        BY EnvSchedAssumption, FS_Interval DEF Env
      <4> QED
        BY <4>1, FS_Subset, FS_CardinalityType
    <3>2. Boot \in Seq(Nat) /\ n < Len(Boot)
      BY <1>5, EnvSchedAssumption DEF EnvCreate
    <3>3. Boot[n + 1] \in Nat
      BY <3>1, <3>2
    <3>4. env_pri' = [env_pri EXCEPT ![e] = Boot[n + 1]]
      BY <1>5 DEF EnvCreate
    <3> HIDE DEF n
    <3> QED
      BY <1>1, <3>3, <3>4 DEF TypeOK
  <2>3. sched' \in ListType
    BY <1>1, <1>5 DEF EnvCreate, List!InsertHead, ListType
  <2>4. /\ env_status' \in [Env -> Status] /\ env_id' \in [Env -> IdRange]
        /\ env_parent_id' \in [Env -> IdRange] /\ next_env_id' \in 0 .. IdMod - 1
    BY <1>1, <2>1 DEF Allocated, TypeOK, Status, IdRange
  <2>5. env_free_list' \in Seq(Env) /\ FreeListSound' /\ CurrentInUse'
    BY <1>1, <1>5, <2>1 DEF EnvCreate, Allocated, AnyInv, CurrentInUse
  <2>6. TypeOK'
    BY <1>1, <1>5, <2>2, <2>3, <2>4, <2>5 DEF EnvCreate, TypeOK, ListType, Status, IdRange
  <2> QED
    BY <2>5, <2>6 DEF AnyInv
<1>6. ASSUME SchedYield(curenv, env_status, sched),
             UNCHANGED <<env_status, env_id, env_parent_id, env_pri, recving,
                         env_free_list, sched, next_env_id, forking, lost>>
      PROVE  AnyInv'
  <2>1. Yielded(env_status)
    BY <1>1, <1>6, YieldRuns
  <2>2. TypeOK' /\ FreeListSound'
    BY <1>1, <1>6, <2>1 DEF TypeOK, FreeListSound, Yielded
  <2>3. CurrentInUse'
    BY <1>1, <1>6, <2>1 DEF FreeListSound, CurrentInUse, Yielded
  <2> QED
    BY <2>2, <2>3 DEF AnyInv
<1>7. CASE Timer
  BY <1>6, <1>7 DEF Timer
<1>8. CASE SysYield
  BY <1>6, <1>8 DEF SysYield
<1>9. ASSUME NEW c \in Env, SysEnvAlloc(c)
      PROVE  AnyInv'
  <2>1. EnvAlloc(c, env_id[curenv], "not_runnable") /\ curenv \in Env
    BY <1>2, <1>9 DEF SysEnvAlloc
  <2>2. Allocated(c, "not_runnable")
    BY <1>1, <2>1, AllocTakes DEF Status
  <2>3. forking' \in [Env -> (1 .. NENV * IdMod - 1) \cup {NULL}] /\ lost' \subseteq Env
    <3>1. env_id'[c] # 0 => env_id'[c] \in 1 .. NENV * IdMod - 1
      BY <1>1, <2>2 DEF Allocated, IdRange
    <3> QED
      BY <1>1, <1>9, <3>1 DEF SysEnvAlloc, TypeOK
  <2>4. TypeOK'
    BY <1>1, <1>9, <2>2, <2>3 DEF SysEnvAlloc, Return, Allocated, TypeOK, Status, IdRange
  <2>5. CurrentInUse'
    BY <1>9, <2>2 DEF SysEnvAlloc, Return, Allocated, AnyInv, CurrentInUse
  <2> QED
    BY <2>2, <2>4, <2>5 DEF Allocated, AnyInv
<1>10. CASE ForkStart
  <2> DEFINE id == forking[curenv]
  <2>1. curenv \in Env /\ id \in IdRange \ {0}
    BY <1>1, <1>10 DEF ForkStart, AnyInv, CurrentInUse, TypeOK, IdRange
  <2>2. Slot(id) \in Env
    BY <2>1, EnvxSlot DEF Slot
  <2>3. /\ SetStatus(Slot(id), "runnable")
        /\ \A i \in DOMAIN env_free_list : env_free_list[i] # Slot(id)
    BY <1>10, FoundInUse DEF ForkStart, MayChange
  <2> HIDE DEF id
  <2>4. /\ env_status' = [env_status EXCEPT ![Slot(id)] = "runnable"]
        /\ sched' \in ListType
        /\ FreeListSound'
    BY <1>10, <2>2, <2>3, StatusTypes DEF ForkStart, Status
  <2> QED
    BY <1>1, <1>10, <2>1, <2>4
       DEF ForkStart, Return, AnyInv, TypeOK, ListType, Status, CurrentInUse
<1>11. ASSUME NEW id \in Ids, SysEnvDestroy(id)
       PROVE  AnyInv'
  <2> DEFINE t == Slot(id)
  <2>1. curenv \in Env /\ t \in Env /\ env_status[t] # "free"
    BY <1>1, <1>2, <1>11, SlotType DEF SysEnvDestroy, MayChange, Found
  <2>2. CASE List!RemoveFaults(sched, t)
    BY <1>1, <1>11, <2>2 DEF SysEnvDestroy, Panic, AnyInv, TypeOK, FreeListSound, CurrentInUse
  <2>3. CASE ~ List!RemoveFaults(sched, t)
    <3>1. /\ EnvFree(t)
          /\ UNCHANGED <<env_id, env_parent_id, env_pri, recving, next_env_id>>
          /\ IF t = curenv THEN SchedYield(NULL, env_status', sched') ELSE Return
      BY <1>11, <2>3 DEF SysEnvDestroy
    <3> HIDE DEF t
    <3>2. Freed(t)
      BY <2>1, <2>3, <3>1, FreePuts
    <3>3. env_status' \in [Env -> Status]
      BY <1>1, <3>2 DEF Freed, Status
    <3>4. CASE t = curenv
      <4>1. Yielded(env_status')
        BY <1>1, <3>1, <3>3, <3>4, YieldRuns
      <4>2. TypeOK'
        BY <1>1, <3>1, <3>2, <3>3, <4>1 DEF Freed, Yielded, TypeOK, ListType, Status
      <4>3. CurrentInUse'
        BY <3>2, <4>1 DEF Freed, Yielded, FreeListSound, CurrentInUse
      <4> QED
        BY <3>2, <4>2, <4>3 DEF Freed, AnyInv
    <3>5. CASE t # curenv
      <4>3. /\ sched' \in ListType /\ lost' \subseteq Env /\ env_free_list' \in Seq(Env)
            /\ forking' = [forking EXCEPT ![t] = NULL]
        BY <3>2 DEF Freed
      <4>4. forking' \in [Env -> (1 .. NENV * IdMod - 1) \cup {NULL}]
        BY <1>1, <4>3 DEF TypeOK
      <4>5. UNCHANGED <<cpu, curenv, iter, ts>>
        BY <3>1, <3>5 DEF Return
      <4>1. TypeOK'
        BY <1>1, <3>1, <3>3, <4>3, <4>4, <4>5 DEF TypeOK, ListType, Status
      <4>2. CurrentInUse'
        BY <3>1, <3>2, <3>5 DEF Freed, Return, AnyInv, CurrentInUse
      <4> QED
        BY <3>2, <4>1, <4>2 DEF Freed, AnyInv
    <3> QED
      BY <3>4, <3>5
  <2> QED
    BY <2>2, <2>3
<1>12. ASSUME NEW id \in Ids, NEW s \in Status, SysSetEnvStatus(id, s)
       PROVE  AnyInv'
  <2> DEFINE t == Slot(id)
  <2>1. /\ curenv \in Env /\ t \in Env
        /\ \A i \in DOMAIN env_free_list : env_free_list[i] # t
    BY <1>1, <1>2, <1>12, SlotType, FoundInUse DEF SysSetEnvStatus, MayChange
  <2>2. CASE StatusFaults(t, s)
    BY <1>1, <1>12, <2>2 DEF SysSetEnvStatus, Panic, AnyInv, TypeOK, FreeListSound, CurrentInUse
  <2>3. CASE ~ StatusFaults(t, s)
    <3>1. /\ Return
          /\ UNCHANGED <<env_id, env_parent_id, env_pri, recving, env_free_list,
                         next_env_id, forking, lost>>
          /\ \/ s # "free" /\ SetStatus(t, s)
             \/ s = "free" /\ env_status' = [env_status EXCEPT ![t] = "free"]
                /\ UNCHANGED sched
      BY <1>12, <2>3 DEF SysSetEnvStatus
    <3> HIDE DEF t
    <3>2. /\ env_status' = [env_status EXCEPT ![t] = s]
          /\ sched' \in ListType
          /\ FreeListSound'
      <4>1. CASE s # "free"
        BY <2>1, <3>1, <4>1, StatusTypes
      <4>2. CASE s = "free"
        <5>1. \A i \in DOMAIN env_free_list : env_free_list[i] \in Env
          BY <1>1 DEF TypeOK
        <5> QED
          BY <1>1, <2>1, <3>1, <4>2, <5>1 DEF FreeListSound
      <4> QED
        BY <4>1, <4>2
    <3> QED
      BY <1>1, <3>1, <3>2 DEF Return, AnyInv, TypeOK, ListType, Status, CurrentInUse
  <2> QED
    BY <2>2, <2>3
<1>13. CASE SysIpcRecv
  <2>1. /\ curenv \in Env
        /\ \A i \in DOMAIN env_free_list : env_free_list[i] # curenv
    BY <1>13 DEF SysIpcRecv, Acting, AnyInv, CurrentInUse
  <2>2. CASE StatusFaults(curenv, "not_runnable")
    BY <1>1, <1>13, <2>2 DEF SysIpcRecv, Panic, AnyInv, TypeOK, FreeListSound, CurrentInUse
  <2>3. CASE ~ StatusFaults(curenv, "not_runnable")
    <3>1. /\ recving' = [recving EXCEPT ![curenv] = TRUE]
          /\ SetStatus(curenv, "not_runnable")
          /\ SchedYield(curenv, env_status', sched')
          /\ UNCHANGED <<env_id, env_parent_id, env_pri, env_free_list,
                         next_env_id, forking, lost>>
      BY <1>13, <2>3 DEF SysIpcRecv
    <3>2. /\ env_status' = [env_status EXCEPT ![curenv] = "not_runnable"]
          /\ sched' \in ListType
          /\ FreeListSound'
      BY <2>1, <3>1, StatusTypes DEF Status
    <3>3. env_status' \in [Env -> Status]
      BY <1>1, <3>2 DEF Status
    <3>4. Yielded(env_status')
      BY <1>1, <3>1, <3>3, YieldRuns
    <3>5. TypeOK'
      BY <1>1, <3>1, <3>2, <3>3, <3>4 DEF Yielded, TypeOK, ListType, Status
    <3>6. CurrentInUse'
      BY <3>2, <3>4 DEF Yielded, FreeListSound, CurrentInUse
    <3> QED
      BY <3>2, <3>5, <3>6 DEF AnyInv
  <2> QED
    BY <2>2, <2>3
<1>14. ASSUME NEW id \in Ids, SysIpcCanSend(id)
       PROVE  AnyInv'
  <2> DEFINE t == Slot(id)
  <2>1. /\ t \in Env
        /\ \A i \in DOMAIN env_free_list : env_free_list[i] # t
    BY <1>1, <1>2, <1>14, SlotType, FoundInUse DEF SysIpcCanSend
  <2>2. /\ recving' = [recving EXCEPT ![t] = FALSE]
        /\ SetStatus(t, "runnable")
        /\ Return
        /\ UNCHANGED <<env_id, env_parent_id, env_pri, env_free_list, next_env_id,
                       forking, lost>>
    BY <1>14 DEF SysIpcCanSend
  <2> HIDE DEF t
  <2>3. /\ env_status' = [env_status EXCEPT ![t] = "runnable"]
        /\ sched' \in ListType
        /\ FreeListSound'
    BY <2>1, <2>2, StatusTypes DEF Status
  <2> QED
    BY <1>1, <2>2, <2>3 DEF Return, AnyInv, TypeOK, ListType, Status, CurrentInUse
<1> QED
  BY <1>3, <1>4, <1>5, <1>7, <1>8, <1>9, <1>10, <1>11, <1>12, <1>13, <1>14 DEF Next, Status

\* Whatever programs do, every variable stays in its type: no identifier, link
\* or list of the kernel leads out of envs[].
THEOREM TypeCorrect == Spec => []TypeOK
<1>1. Init => AnyInv
  BY AnyInit
<1>2. AnyInv /\ [Next]_vars => AnyInv'
  BY AnyStep
<1>3. AnyInv => TypeOK
  BY DEF AnyInv
<1> QED
  BY <1>1, <1>2, <1>3, PTL DEF Spec

\* Whatever programs do, no slot is on env_free_list twice or in use: env_alloc
\* never hands out the slot of an environment that exists.
THEOREM FreeSlotsFree == Spec => []FreeListSound
<1>1. Init => AnyInv
  BY AnyInit
<1>2. AnyInv /\ [Next]_vars => AnyInv'
  BY AnyStep
<1>3. AnyInv => FreeListSound
  BY DEF AnyInv
<1> QED
  BY <1>1, <1>2, <1>3, PTL DEF Spec
-----------------------------------------------------------------------------
(* The list of runnable environments                                       *)

\* my_set_env_status keeps the list right, unless it takes an environment off
\* that is not on it.
LEMMA StatusKeepsList ==
  ASSUME AnyInv, Holds(sched, Runnable), NEW t \in Env,
         NEW s \in {"runnable", "not_runnable"},
         s = "not_runnable" => env_status[t] \in {"runnable", "not_runnable"}
  PROVE  /\ ~ StatusFaults(t, s)
         /\ SetStatus(t, s) => Holds(sched', Runnable')
<1>1. sched \in ListType /\ env_status \in [Env -> Status] /\ Runnable \in SUBSET Env
  BY DEF AnyInv, TypeOK, ListType, Status, Runnable
<1>2. ~ StatusFaults(t, s)
  BY <1>1, RemoveHolds DEF StatusFaults, Runnable
<1>3. ASSUME SetStatus(t, s)
      PROVE  Holds(sched', Runnable')
  <2>1. env_status' = [env_status EXCEPT ![t] = s]
    BY <1>3 DEF SetStatus
  <2>2. CASE env_status[t] = s
    BY <1>1, <1>3, <2>1, <2>2 DEF SetStatus, Runnable
  <2>3. CASE env_status[t] # s /\ s = "runnable"
    <3>1. Runnable' = Runnable \cup {t} /\ t \notin Runnable
      BY <1>1, <2>1, <2>3 DEF Runnable
    <3>2. sched' = List!InsertHead(sched, t)
      BY <1>3, <2>3 DEF SetStatus
    <3> QED
      BY <1>1, <3>1, <3>2, InsertHolds
  <2>4. CASE env_status[t] # s /\ s = "not_runnable"
    <3>1. Runnable' = Runnable \ {t} /\ t \in Runnable
      BY <1>1, <2>1, <2>4 DEF Runnable
    <3>2. sched' = List!Remove(sched, t)
      BY <1>3, <2>4 DEF SetStatus
    <3> QED
      BY <1>1, <3>1, <3>2, RemoveHolds
  <2> QED
    BY <2>2, <2>3, <2>4
<1> QED
  BY <1>2, <1>3

\* env_free keeps the list right, if the environment was on it.
LEMMA FreeKeepsList ==
  ASSUME AnyInv, Holds(sched, Runnable), NEW t \in Env, env_status[t] = "runnable"
  PROVE  /\ ~ List!RemoveFaults(sched, t)
         /\ EnvFree(t) => Holds(sched', Runnable')
<1>1. sched \in ListType /\ env_status \in [Env -> Status] /\ Runnable \in SUBSET Env
  BY DEF AnyInv, TypeOK, ListType, Status, Runnable
<1>2. t \in Runnable
  BY DEF Runnable
<1>3. ASSUME EnvFree(t)
      PROVE  Runnable' = Runnable \ {t} /\ sched' = List!Remove(sched, t)
  BY <1>1, <1>3 DEF EnvFree, Runnable
<1>4. /\ ~ List!RemoveFaults(sched, t)
      /\ Holds(List!Remove(sched, t), Runnable \ {t})
  BY <1>1, <1>2, RemoveHolds
<1> QED
  BY <1>3, <1>4

\* env_alloc changes nothing for the scheduler, if the new environment is not
\* runnable; load_icode inserts the one it makes runnable.
LEMMA AllocKeepsList ==
  ASSUME AnyInv, Holds(sched, Runnable), NEW e, NEW status \in Status,
         Allocated(e, status)
  PROVE  /\ status = "not_runnable" /\ UNCHANGED sched => Holds(sched', Runnable')
         /\ status = "runnable" /\ sched' = List!InsertHead(sched, e)
              => Holds(sched', Runnable')
<1>1. sched \in ListType /\ env_status \in [Env -> Status] /\ Runnable \in SUBSET Env
  BY DEF AnyInv, TypeOK, ListType, Status, Runnable
<1>2. e \in Env /\ e \notin Runnable
  BY DEF Allocated, Runnable
<1>3. status = "not_runnable" => Runnable' = Runnable
  BY <1>1, <1>2 DEF Allocated, Runnable
<1>4. status = "runnable" => Runnable' = Runnable \cup {e}
  BY <1>1, <1>2 DEF Allocated, Runnable
<1> QED
  BY <1>1, <1>2, <1>3, <1>4, InsertHolds

\* The two steps that may put env_sched_list out of order.
Breaks ==
    \/ \E e \in Env : /\ env_status[e] # "runnable"
                     /\ env_status'[e] \notin {env_status[e], "runnable"}
    \/ \E id \in Ids : SysSetEnvStatus(id, "free")

\* What a step does to the run list: it is right again, or broken by one of the two calls.
LEMMA ListStep ==
  AnyInv /\ [Next]_vars /\ Holds(sched, Runnable) => Breaks \/ Holds(sched', Runnable')
<1> SUFFICES ASSUME AnyInv, [Next]_vars, Holds(sched, Runnable), ~ Breaks
             PROVE  Holds(sched', Runnable')
  OBVIOUS
<1>1. /\ TypeOK /\ env_status \in [Env -> Status] /\ env_id \in [Env -> IdRange]
      /\ 0 \in IdRange
  BY IdRangeType DEF AnyInv, TypeOK, Status, IdRange
<1>2. cpu = "user" => curenv \in Env
  BY DEF AnyInv, CurrentInUse
<1>3. ASSUME UNCHANGED <<env_status, sched>>
      PROVE  Holds(sched', Runnable')
  BY <1>3 DEF Runnable
<1>4. CASE UNCHANGED vars \/ StartTimer \/ Timer \/ SysYield
  BY <1>3, <1>4 DEF vars, StartTimer, Timer, SysYield
<1>5. ASSUME NEW e \in Env, EnvCreate(e)
      PROVE  Holds(sched', Runnable')
  <2>1. Allocated(e, "runnable")
    BY <1>1, <1>5, AllocTakes DEF EnvCreate, Status
  <2> QED
    BY <1>5, <2>1, AllocKeepsList DEF EnvCreate, Status
<1>6. ASSUME NEW c \in Env, SysEnvAlloc(c)
      PROVE  Holds(sched', Runnable')
  <2>1. EnvAlloc(c, env_id[curenv], "not_runnable") /\ curenv \in Env
    BY <1>2, <1>6 DEF SysEnvAlloc, Acting
  <2>2. Allocated(c, "not_runnable")
    BY <1>1, <2>1, AllocTakes DEF Status
  <2> QED
    BY <1>6, <2>2, AllocKeepsList DEF SysEnvAlloc, Status
<1>7. CASE ForkStart
  <2> DEFINE id == forking[curenv]
  <2>1. id \in IdRange \ {0}
    BY <1>1, <1>2, <1>7 DEF ForkStart, TypeOK, IdRange
  <2>2. Slot(id) \in Env
    BY <2>1, EnvxSlot DEF Slot
  <2> QED
    BY <1>7, <2>2, StatusKeepsList DEF ForkStart
<1>8. ASSUME NEW id \in Ids, SysEnvDestroy(id)
      PROVE  Holds(sched', Runnable')
  <2> DEFINE t == Slot(id)
  <2>1. t \in Env /\ env_status[t] # "free"
    BY <1>1, <1>2, <1>8, SlotType DEF SysEnvDestroy, MayChange, Found, Acting
  <2>2. CASE List!RemoveFaults(sched, t)
    BY <1>3, <1>8, <2>2 DEF SysEnvDestroy, Panic
  <2>3. CASE ~ List!RemoveFaults(sched, t)
    <3>1. EnvFree(t)
      BY <1>8, <2>3 DEF SysEnvDestroy
    <3>2. env_status' = [env_status EXCEPT ![t] = "free"]
      BY <3>1 DEF EnvFree
    <3> HIDE DEF t
    <3>3. env_status[t] = "runnable"
      BY <1>1, <2>1, <3>2 DEF Breaks, Status
    <3> QED
      BY <2>1, <3>1, <3>3, FreeKeepsList
  <2> QED
    BY <2>2, <2>3
<1>9. ASSUME NEW id \in Ids, NEW s \in Status, SysSetEnvStatus(id, s)
      PROVE  Holds(sched', Runnable')
  <2> DEFINE t == Slot(id)
  <2>1. t \in Env /\ env_status[t] # "free"
    BY <1>1, <1>2, <1>9, SlotType DEF SysSetEnvStatus, MayChange, Found, Acting
  <2>2. s \in {"runnable", "not_runnable"}
    BY <1>9 DEF Breaks, Status
  <2>3. ~ StatusFaults(t, s)
    BY <1>1, <2>1, <2>2, StatusKeepsList DEF Status
  <2>4. SetStatus(t, s)
    BY <1>9, <2>2, <2>3 DEF SysSetEnvStatus
  <2> QED
    BY <1>1, <2>1, <2>2, <2>4, StatusKeepsList DEF Status
<1>10. CASE SysIpcRecv
  <2>1. curenv \in Env
    BY <1>2, <1>10 DEF SysIpcRecv, Acting
  <2>2. CASE StatusFaults(curenv, "not_runnable")
    BY <1>3, <1>10, <2>2 DEF SysIpcRecv, Panic
  <2>3. CASE ~ StatusFaults(curenv, "not_runnable")
    <3>1. SetStatus(curenv, "not_runnable")
      BY <1>10, <2>3 DEF SysIpcRecv
    <3>2. env_status' = [env_status EXCEPT ![curenv] = "not_runnable"]
      BY <3>1 DEF SetStatus
    <3>3. env_status[curenv] \in {"runnable", "not_runnable"}
      BY <1>1, <2>1, <3>2 DEF Breaks, Status
    <3> QED
      BY <2>1, <3>1, <3>3, StatusKeepsList
  <2> QED
    BY <2>2, <2>3
<1>11. ASSUME NEW id \in Ids, SysIpcCanSend(id)
       PROVE  Holds(sched', Runnable')
  <2>1. Slot(id) \in Env
    BY <1>1, <1>2, <1>11, SlotType DEF SysIpcCanSend, Acting
  <2> QED
    BY <1>11, <2>1, StatusKeepsList DEF SysIpcCanSend
<1> QED
  BY <1>4, <1>5, <1>6, <1>7, <1>8, <1>9, <1>10, <1>11 DEF Next, Status

\* Whatever programs do with sys_set_env_status and sys_env_destroy, a list
\* that is exact stays exact but in the two cases Breaks names: a removal by
\* stale links, and a runnable environment that is called free.
THEOREM ListBreaks == Spec => ListBreaksOnlyHere
<1>1. Init => AnyInv
  BY AnyInit
<1>2. AnyInv /\ [Next]_vars => AnyInv'
  BY AnyStep
<1>3. RunListExact <=> Holds(sched, Runnable)
  BY ExactHolds
<1>4. (RunListExact <=> Holds(sched, Runnable))'
  BY <1>3, PTL
<1>5. AnyInv /\ [Next]_vars =>
        [RunListExact /\ ~ RunListExact' =>
           \/ \E e \in Env : /\ env_status[e] # "runnable"
                            /\ env_status'[e] \notin {env_status[e], "runnable"}
           \/ \E id \in Ids : SysSetEnvStatus(id, "free")]_vars
  BY <1>3, <1>4, ListStep DEF Breaks
<1> QED
  BY <1>1, <1>2, <1>5, PTL DEF Spec, ListBreaksOnlyHere
-----------------------------------------------------------------------------
(* Slots and wake-ups, for programs that do not call sys_set_env_status    *)
(* outside of fork()                                                       *)

\* The inductive invariant: the identifier of an environment leads to its slot,
\* so that fork() starts the child it has got.
SlotInv ==
    /\ SlotsConserved
    /\ BlockedIsWaiting
    /\ \A e \in Env : env_status[e] # "free" => ENVX(env_id[e]) = e

\* The current environment is in use: its slot is not on the free list, and
\* every free slot is.
LEMMA CurrentNotFree ==
  ASSUME AnyInv, SlotsConserved, cpu = "user"
  PROVE  curenv \in Env /\ env_status[curenv] # "free"
BY DEF AnyInv, CurrentInUse, SlotsConserved

\* At boot every slot is on the free list.
LEMMA SlotInit ==
  ASSUME Init
  PROVE  SlotInv
<1>1. SlotsConserved
  <2>1. \A e \in Env : e + 1 \in 1 .. NENV /\ (e + 1) - 1 = e
    BY EnvSchedAssumption DEF Env
  <2> QED
    BY <2>1 DEF Init, SlotsConserved
<1> QED
  BY <1>1 DEF Init, SlotInv, BlockedIsWaiting

\* Every step keeps slots and wake-ups, unless programs set a status themselves.
LEMMA SlotStep ==
  ASSUME "status" \notin Calls, AnyInv, SlotInv, [Next]_vars
  PROVE  SlotInv'
<1> DEFINE OnList(e) == \E i \in DOMAIN env_free_list : env_free_list[i] = e
<1>1. /\ TypeOK /\ env_status \in [Env -> Status] /\ env_id \in [Env -> IdRange]
      /\ recving \in [Env -> BOOLEAN] /\ forking \in [Env -> IdRange \cup {NULL}]
      /\ 0 \in IdRange
  BY IdRangeType DEF AnyInv, TypeOK, Status, IdRange
<1>2. cpu = "user" => curenv \in Env /\ env_status[curenv] # "free"
  BY CurrentNotFree DEF SlotInv
<1>3. /\ \A e \in Env : env_status[e] = "free" => OnList(e)
      /\ \A e \in Env : env_status[e] = "not_runnable" =>
            recving[e] \/ e \in lost \/ \E p \in Env : forking[p] = env_id[e]
      /\ \A e \in Env : env_status[e] # "free" => ENVX(env_id[e]) = e
  BY DEF SlotInv, SlotsConserved, BlockedIsWaiting
<1>4. ASSUME UNCHANGED <<env_status, env_id, recving, env_free_list, forking, lost>>
      PROVE  SlotInv'
  BY <1>4 DEF SlotInv, SlotsConserved, BlockedIsWaiting
<1>5. CASE UNCHANGED vars \/ StartTimer \/ Timer \/ SysYield
  BY <1>4, <1>5 DEF vars, StartTimer, Timer, SysYield
<1>6. ASSUME NEW e \in Env, EnvCreate(e)
      PROVE  SlotInv'
  <2>1. Allocated(e, "runnable")
    BY <1>1, <1>6, AllocTakes DEF EnvCreate, Status
  <2>2. UNCHANGED <<recving, forking, lost>>
    BY <1>6 DEF EnvCreate
  <2>3. SlotsConserved'
    BY <1>1, <1>3, <2>1 DEF Allocated, SlotsConserved
  <2>4. \A x \in Env : env_status'[x] = "not_runnable" =>
           env_status[x] = "not_runnable" /\ env_id'[x] = env_id[x]
    BY <1>1, <2>1 DEF Allocated
  <2>5. BlockedIsWaiting'
    BY <1>3, <2>2, <2>4 DEF BlockedIsWaiting
  <2> QED
    BY <1>1, <1>3, <2>1, <2>3, <2>5 DEF Allocated, SlotInv
<1>7. ASSUME NEW c \in Env, SysEnvAlloc(c)
      PROVE  SlotInv'
  <2>1. EnvAlloc(c, env_id[curenv], "not_runnable") /\ curenv \in Env
    BY <1>2, <1>7 DEF SysEnvAlloc, Acting
  <2>2. Allocated(c, "not_runnable")
    BY <1>1, <2>1, AllocTakes DEF Status
  <2>3. /\ UNCHANGED recving
        /\ lost \subseteq lost'
        /\ \A p \in Env : forking[p] # NULL => forking'[p] = forking[p]
        /\ c \in lost' \/ forking'[curenv] = env_id'[c]
    BY <1>1, <1>7, <2>1 DEF SysEnvAlloc, Acting
  <2>4. \A e \in Env : env_id[e] # NULL
    BY <1>1, EnvSchedAssumption DEF IdRange
  <2>5. BlockedIsWaiting'
    <3> SUFFICES ASSUME NEW e \in Env, env_status'[e] = "not_runnable"
                 PROVE  recving'[e] \/ e \in lost' \/ \E p \in Env : forking'[p] = env_id'[e]
      BY DEF BlockedIsWaiting
    <3>1. CASE e = c
      BY <2>1, <2>3, <3>1
    <3>2. CASE e # c
      <4>1. env_status[e] = "not_runnable" /\ env_id'[e] = env_id[e]
        BY <1>1, <2>2, <3>2 DEF Allocated
      <4> QED
        BY <1>3, <2>3, <2>4, <4>1
    <3> QED
      BY <3>1, <3>2
  <2>6. SlotsConserved'
    BY <1>1, <1>3, <2>2 DEF Allocated, SlotsConserved
  <2> QED
    BY <1>1, <1>3, <2>2, <2>5, <2>6 DEF Allocated, SlotInv
<1>8. CASE ForkStart
  <2> DEFINE id == forking[curenv]
             t == Slot(id)
  <2>1. curenv \in Env /\ id \in IdRange /\ id # 0
    BY <1>1, <1>2, <1>8 DEF ForkStart, TypeOK, IdRange
  <2>2. t = ENVX(id) /\ t \in Env /\ env_status[t] # "free" /\ env_id[t] = id
    BY <1>8, <2>1, EnvxSlot DEF ForkStart, MayChange, Found, Slot
  <2>3. /\ env_status' = [env_status EXCEPT ![t] = "runnable"]
        /\ forking' = [forking EXCEPT ![curenv] = NULL]
        /\ UNCHANGED <<env_id, recving, env_free_list, lost>>
    BY <1>8 DEF ForkStart, SetStatus
  <2>4. \A e \in Env : env_status[e] # "free" /\ env_id[e] = id => e = t
    BY <1>3, <2>2
  <2> HIDE DEF id, t
  <2>5. BlockedIsWaiting'
    <3> SUFFICES ASSUME NEW e \in Env, env_status'[e] = "not_runnable"
                 PROVE  recving'[e] \/ e \in lost' \/ \E p \in Env : forking'[p] = env_id'[e]
      BY DEF BlockedIsWaiting
    <3>1. e # t /\ env_status[e] = "not_runnable"
      BY <1>1, <2>2, <2>3
    <3>2. env_id[e] # id
      BY <2>4, <3>1
    <3>3. CASE recving[e] \/ e \in lost
      BY <2>3, <3>3
    <3>4. ASSUME NEW p \in Env, forking[p] = env_id[e]
          PROVE  \E q \in Env : forking'[q] = env_id'[e]
      <4>1. p # curenv
        BY <3>2, <3>4 DEF id
      <4> QED
        BY <1>1, <2>3, <3>4, <4>1
    <3> QED
      BY <1>3, <3>1, <3>3, <3>4
  <2>6. SlotsConserved'
    BY <1>1, <1>3, <2>2, <2>3 DEF SlotsConserved
  <2> QED
    BY <1>1, <1>3, <2>2, <2>3, <2>5, <2>6 DEF SlotInv
<1>9. ASSUME NEW id \in Ids, SysEnvDestroy(id)
      PROVE  SlotInv'
  <2> DEFINE t == Slot(id)
  <2>1. t \in Env /\ env_status[t] # "free"
    BY <1>1, <1>2, <1>9, SlotType DEF SysEnvDestroy, MayChange, Found, Acting
  <2>2. CASE List!RemoveFaults(sched, t)
    BY <1>4, <1>9, <2>2 DEF SysEnvDestroy, Panic
  <2>3. CASE ~ List!RemoveFaults(sched, t)
    <3>1. /\ EnvFree(t)
          /\ UNCHANGED <<env_id, recving>>
      BY <1>9, <2>3 DEF SysEnvDestroy
    <3> HIDE DEF t
    <3>2. Freed(t)
      BY <2>1, <2>3, <3>1, FreePuts
    <3>3. BlockedIsWaiting'
      <4> SUFFICES ASSUME NEW e \in Env, env_status'[e] = "not_runnable"
                   PROVE  recving'[e] \/ e \in lost' \/ \E p \in Env : forking'[p] = env_id'[e]
        BY DEF BlockedIsWaiting
      <4>1. e # t /\ env_status[e] = "not_runnable"
        BY <1>1, <2>1, <3>2 DEF Freed
      <4>2. CASE recving[e]
        BY <3>1, <4>2
      <4>3. CASE e \in lost
        BY <3>1, <4>1, <4>3 DEF EnvFree
      <4>4. ASSUME NEW p \in Env, forking[p] = env_id[e]
            PROVE  e \in lost' \/ \E q \in Env : forking'[q] = env_id'[e]
        <5>1. CASE p = t
          <6>1. forking[t] # NULL
            BY <1>1, <4>4, <5>1, EnvSchedAssumption DEF IdRange
          <6>2. ENVX(forking[t]) = e
            BY <1>3, <4>1, <4>4, <5>1
          <6> QED
            BY <3>1, <6>1, <6>2 DEF EnvFree
        <5>2. CASE p # t
          BY <1>1, <3>1, <4>4, <5>2 DEF EnvFree
        <5> QED
          BY <5>1, <5>2
      <4> QED
        BY <1>3, <4>1, <4>2, <4>3, <4>4
    <3>4. SlotsConserved'
      BY <1>1, <1>3, <3>2 DEF Freed, SlotsConserved
    <3> QED
      BY <1>1, <1>3, <2>1, <3>1, <3>2, <3>3, <3>4 DEF Freed, SlotInv
  <2> QED
    BY <2>2, <2>3
<1>10. CASE SysIpcRecv
  <2>1. curenv \in Env /\ env_status[curenv] # "free"
    BY <1>2, <1>10 DEF SysIpcRecv, Acting
  <2>2. CASE StatusFaults(curenv, "not_runnable")
    BY <1>4, <1>10, <2>2 DEF SysIpcRecv, Panic
  <2>3. CASE ~ StatusFaults(curenv, "not_runnable")
    <3>1. /\ recving' = [recving EXCEPT ![curenv] = TRUE]
          /\ env_status' = [env_status EXCEPT ![curenv] = "not_runnable"]
          /\ UNCHANGED <<env_id, env_free_list, forking, lost>>
      BY <1>10, <2>3 DEF SysIpcRecv, SetStatus
    <3>2. SlotsConserved'
      BY <1>1, <1>3, <2>1, <3>1 DEF SlotsConserved
    <3>3. BlockedIsWaiting'
      BY <1>1, <1>3, <2>1, <3>1 DEF BlockedIsWaiting
    <3> QED
      BY <1>1, <1>3, <2>1, <3>1, <3>2, <3>3 DEF SlotInv
  <2> QED
    BY <2>2, <2>3
<1>11. ASSUME NEW id \in Ids, SysIpcCanSend(id)
       PROVE  SlotInv'
  <2> DEFINE t == Slot(id)
  <2>1. t \in Env /\ env_status[t] # "free"
    BY <1>1, <1>2, <1>11, SlotType DEF SysIpcCanSend, Acting, Found
  <2>2. /\ recving' = [recving EXCEPT ![t] = FALSE]
        /\ env_status' = [env_status EXCEPT ![t] = "runnable"]
        /\ UNCHANGED <<env_id, env_free_list, forking, lost>>
    BY <1>11 DEF SysIpcCanSend, SetStatus
  <2> HIDE DEF t
  <2>3. SlotsConserved'
    BY <1>1, <1>3, <2>1, <2>2 DEF SlotsConserved
  <2>4. BlockedIsWaiting'
    BY <1>1, <1>3, <2>1, <2>2 DEF BlockedIsWaiting
  <2> QED
    BY <1>1, <1>3, <2>1, <2>2, <2>3, <2>4 DEF SlotInv
<1>12. \A id \in Ids, s \in Status : ~ SysSetEnvStatus(id, s)
  BY DEF SysSetEnvStatus
<1> QED
  BY <1>5, <1>6, <1>7, <1>8, <1>9, <1>10, <1>11, <1>12 DEF Next, Status

\* Without sys_set_env_status, every slot that is free can be allocated again:
\* fork, exit and kill lose none.
THEOREM NoSlotLost ==
  ASSUME "status" \notin Calls
  PROVE  Spec => []SlotsConserved
<1>1. Init => AnyInv /\ SlotInv
  BY AnyInit, SlotInit
<1>2. (AnyInv /\ SlotInv) /\ [Next]_vars => (AnyInv /\ SlotInv)'
  BY AnyStep, SlotStep
<1>3. AnyInv /\ SlotInv => SlotsConserved
  BY DEF SlotInv
<1> QED
  BY <1>1, <1>2, <1>3, PTL DEF Spec

\* Without sys_set_env_status, no wake-up is lost: who is blocked is receiving,
\* or a child that its parent is to start or never will.
THEOREM NoWakeUpLost ==
  ASSUME "status" \notin Calls
  PROVE  Spec => []BlockedIsWaiting
<1>1. Init => AnyInv /\ SlotInv
  BY AnyInit, SlotInit
<1>2. (AnyInv /\ SlotInv) /\ [Next]_vars => (AnyInv /\ SlotInv)'
  BY AnyStep, SlotStep
<1>3. AnyInv /\ SlotInv => BlockedIsWaiting
  BY DEF SlotInv
<1> QED
  BY <1>1, <1>2, <1>3, PTL DEF Spec
-----------------------------------------------------------------------------
(* The scheduler, for the programs of the library: the ones that destroy   *)
(* only environments that run, and call sys_set_env_status only in fork()  *)

\* A child that fork() has got waits for the second call of its parent: it does
\* not run, nobody sends to it, and no other parent has got it.
ForkSound ==
    /\ \A p \in Env : forking[p] # NULL =>
         LET c == ENVX(forking[p])
         IN  env_status[c] = "not_runnable" /\ ~ recving[c] /\ env_id[c] = forking[p]
    /\ \A p, q \in Env : forking[p] # NULL /\ forking[p] = forking[q] => p = q

\* Only blocked environments are receiving.
ReceiversBlocked == \A e \in Env : recving[e] => env_status[e] = "not_runnable"

\* sched_yield has stopped at the current environment, or not started yet, or
\* found nobody.
IterSound ==
    /\ RunningOwnsTurn
    /\ cpu = "boot" => iter = NULL
    /\ cpu = "idle" => iter = NULL \/ Runnable = {}

\* The inductive invariant.
LibInv ==
    /\ Holds(sched, Runnable)
    /\ KernelSurvives
    /\ IterSound
    /\ ReceiversBlocked
    /\ ForkSound

\* sched_yield finds somebody at once if the list is right and iter is on it or
\* has just left it.
LEMMA YieldFinds ==
  ASSUME TypeOK, NEW cur \in Env \cup {NULL}, NEW status \in [Env -> Status],
         NEW R, R = {e \in Env : status[e] = "runnable"}, NEW L, Holds(L, R),
         \/ iter = NULL \/ R = {} \/ iter \in R
         \/ L.next[iter] \in R \cup {NULL},
         SchedYield(cur, status, L)
  PROVE  cpu' = "user" \/ (cpu' = "idle" /\ R = {})
<1>1. NULL \notin R /\ (L.first = NULL <=> R = {}) /\ (L.first # NULL => L.first \in R)
  BY FirstHolds
<1>2. CASE L.first = NULL
  BY <1>1, <1>2 DEF SchedYield
<1>3. CASE L.first # NULL /\ Stays(status)
  BY <1>3 DEF SchedYield, EnvRun
<1>4. CASE L.first # NULL /\ ~ Stays(status)
  <2>1. iter # NULL => L.next[iter] \in R \cup {NULL}
    BY <1>1, <1>4, NextHolds
  <2>2. Succ(L, iter) \in R
    BY <1>1, <1>4, <2>1 DEF Succ
  <2>3. NextTurn(L, status, iter) = Succ(L, iter)
    BY <2>2 DEF NextTurn
  <2>4. NextTurn(L, status, iter) # NULL
    BY <1>1, <2>2, <2>3
  <2> QED
    BY <1>4, <2>4 DEF SchedYield, EnvRun
<1> QED
  BY <1>2, <1>3, <1>4

\* At boot the run list is empty, and so is the set of runnable environments.
LEMMA LibInit ==
  ASSUME Init
  PROVE  LibInv
<1>1. Runnable = {} /\ sched.first = NULL
  BY DEF Init, Runnable, List!ListInit
<1>2. Holds(sched, Runnable)
  <2> DEFINE s == [i \in 1 .. 0 |-> i]
  <2>1. s \in [1 .. 0 -> Runnable] /\ 0 \in Nat
    OBVIOUS
  <2>2. Linked(sched, s, 0)
    BY <1>1 DEF Linked
  <2> HIDE DEF s
  <2> QED
    BY <1>1, <2>1, <2>2 DEF Holds
<1> QED
  BY <1>2 DEF Init, LibInv, KernelSurvives, IterSound, RunningOwnsTurn,
              ReceiversBlocked, ForkSound

\* What a step does to the scheduler: one environment changes its status, the
\* CPU is left only when nobody is runnable, and only one that was running
\* begins to receive.
LibMove ==
    /\ LibInv'
    /\ \E t \in Env, s \in Status : env_status' = [env_status EXCEPT ![t] = s]
    /\ cpu = "user" => cpu' = "user" \/ Runnable' = {}
    /\ \A e \in Env : recving'[e] => recving[e] \/ env_status[e] = "runnable"

\* The part of LibInv that is about the list and the CPU.
SchedSound == Holds(sched, Runnable) /\ KernelSurvives /\ IterSound

\* A handler that ends in sched_yield.
LEMMA YieldSound ==
  ASSUME TypeOK, NEW cur \in Env \cup {NULL},
         env_status' \in [Env -> Status], Holds(sched', Runnable'),
         \/ iter = NULL \/ Runnable' = {} \/ iter \in Runnable'
         \/ sched'.next[iter] \in Runnable' \cup {NULL},
         SchedYield(cur, env_status', sched')
  PROVE  /\ SchedSound'
         /\ cpu' = "user" \/ Runnable' = {}
<1>1. Yielded(env_status')
  BY YieldRuns
<1>2. Runnable' = {e \in Env : env_status'[e] = "runnable"}
  BY DEF Runnable
<1>3. cpu' = "user" \/ (cpu' = "idle" /\ Runnable' = {})
  BY <1>2, YieldFinds
<1> QED
  BY <1>1, <1>3 DEF Yielded, SchedSound, KernelSurvives, IterSound, RunningOwnsTurn

\* A handler that returns to the current environment and does not stop it.
LEMMA ReturnSound ==
  ASSUME SchedSound, cpu = "user", curenv \in Env, Return, Holds(sched', Runnable'),
         env_status'[curenv] = env_status[curenv]
  PROVE  /\ SchedSound'
         /\ cpu' = "user"
BY DEF Return, SchedSound, KernelSurvives, IterSound, RunningOwnsTurn

\* Every step that library programs can cause keeps the run list right.
LEMMA LibStep ==
  ASSUME Calls \cap {"orphan", "status"} = {}, AnyInv, LibInv, [Next]_vars
  PROVE  LibMove
<1>1. /\ TypeOK /\ env_status \in [Env -> Status] /\ env_id \in [Env -> IdRange]
      /\ recving \in [Env -> BOOLEAN] /\ forking \in [Env -> IdRange \cup {NULL}]
      /\ curenv \in Env \cup {NULL} /\ 0 \in IdRange /\ NULL \notin IdRange
  BY IdRangeType DEF AnyInv, TypeOK, Status, IdRange
<1>2. cpu = "user" => curenv \in Env /\ iter = curenv /\ env_status[curenv] = "runnable"
  BY DEF AnyInv, CurrentInUse, LibInv, IterSound, RunningOwnsTurn
<1>3. /\ Holds(sched, Runnable) /\ SchedSound /\ Runnable \in SUBSET Env
      /\ \A e \in Env : recving[e] => env_status[e] = "not_runnable"
      /\ \A p \in Env : forking[p] # NULL =>
            /\ ENVX(forking[p]) \in Env
            /\ env_status[ENVX(forking[p])] = "not_runnable"
            /\ ~ recving[ENVX(forking[p])]
            /\ env_id[ENVX(forking[p])] = forking[p]
      /\ \A p, q \in Env : forking[p] # NULL /\ forking[p] = forking[q] => p = q
  <2>1. \A p \in Env : forking[p] # NULL => ENVX(forking[p]) \in Env
    BY <1>1, EnvxSlot
  <2> QED
    BY <2>1 DEF LibInv, SchedSound, ReceiversBlocked, ForkSound, Runnable
<1>4. ASSUME UNCHANGED <<env_status, env_id, recving, sched, forking>>,
             SchedSound', cpu = "user" => cpu' = "user" \/ Runnable' = {}
      PROVE  LibMove
  <2>1. LibInv'
    BY <1>4 DEF LibInv, SchedSound, ReceiversBlocked, ForkSound
  <2>2. PICK t \in Env : TRUE
    BY EnvSchedAssumption DEF Env
  <2>3. env_status' = [env_status EXCEPT ![t] = env_status[t]] /\ env_status[t] \in Status
    BY <1>1, <1>4
  <2> QED
    BY <1>4, <2>1, <2>3 DEF LibMove
<1>5. CASE UNCHANGED vars
  BY <1>3, <1>4, <1>5
     DEF vars, SchedSound, KernelSurvives, IterSound, RunningOwnsTurn, Runnable
<1>6. CASE StartTimer
  BY <1>3, <1>4, <1>6
     DEF StartTimer, SchedSound, KernelSurvives, IterSound, RunningOwnsTurn, Runnable
<1>7. CASE Timer \/ SysYield
  <2>1. /\ cpu \in {"user", "idle"}
        /\ SchedYield(curenv, env_status, sched)
        /\ UNCHANGED <<env_status, env_id, recving, sched, forking>>
    BY <1>7 DEF Timer, SysYield, Acting
  <2>2. Runnable' = Runnable /\ SchedYield(curenv, env_status', sched')
    BY <2>1 DEF Runnable
  <2>3. iter = NULL \/ Runnable = {} \/ iter \in Runnable
    BY <1>2, <2>1 DEF LibInv, IterSound, Runnable
  <2>4. SchedSound' /\ (cpu' = "user" \/ Runnable' = {})
    BY <1>1, <1>3, <2>1, <2>2, <2>3, YieldSound
  <2> QED
    BY <1>4, <2>1, <2>4
<1>8. ASSUME NEW e \in Env, EnvCreate(e)
      PROVE  LibMove
  <2>1. Allocated(e, "runnable")
    BY <1>1, <1>8, AllocTakes DEF EnvCreate, Status
  <2>2. UNCHANGED <<cpu, curenv, recving, iter, forking>> /\ cpu = "boot"
    BY <1>8 DEF EnvCreate
  <2>3. Holds(sched', Runnable')
    BY <1>3, <1>8, <2>1, AllocKeepsList DEF EnvCreate, Status
  <2>4. SchedSound'
    BY <1>3, <2>2, <2>3 DEF SchedSound, KernelSurvives, IterSound, RunningOwnsTurn
  <2>5. ReceiversBlocked' /\ ForkSound'
    BY <1>1, <1>3, <2>1, <2>2 DEF ReceiversBlocked, ForkSound, Allocated
  <2> QED
    BY <2>1, <2>2, <2>4, <2>5 DEF LibMove, LibInv, SchedSound, Allocated, Status
<1>9. ASSUME NEW c \in Env, SysEnvAlloc(c)
      PROVE  LibMove
  <2>1. EnvAlloc(c, env_id[curenv], "not_runnable") /\ curenv \in Env /\ cpu = "user"
    BY <1>2, <1>9 DEF SysEnvAlloc, Acting
  <2>2. Allocated(c, "not_runnable")
    BY <1>1, <2>1, AllocTakes DEF Status
  <2>3. UNCHANGED <<recving, sched>> /\ Return /\ forking[curenv] = NULL
    BY <1>9 DEF SysEnvAlloc, Acting
  <2>4. Holds(sched', Runnable')
    BY <1>3, <2>2, <2>3, AllocKeepsList DEF Status
  <2>5. c # curenv /\ env_status'[curenv] = env_status[curenv]
    BY <1>1, <2>1, <2>2 DEF Allocated
  <2>6. SchedSound' /\ cpu' = "user"
    BY <1>3, <2>1, <2>3, <2>4, <2>5, ReturnSound
  <2>7. forking' = forking \/ forking' = [forking EXCEPT ![curenv] = env_id'[c]]
    BY <1>9 DEF SysEnvAlloc
  <2>8. /\ env_status' = [env_status EXCEPT ![c] = "not_runnable"]
        /\ env_id' = [env_id EXCEPT ![c] = env_id'[c]]
        /\ ENVX(env_id'[c]) = c /\ env_status[c] = "free" /\ env_id'[c] \in IdRange
    BY <2>2 DEF Allocated
  <2>9. ReceiversBlocked'
    BY <1>1, <1>3, <2>3, <2>8 DEF ReceiversBlocked
  <2>10. \A p \in Env : forking[p] # NULL =>
            /\ ENVX(forking[p]) # c
            /\ env_status'[ENVX(forking[p])] = "not_runnable"
            /\ ~ recving'[ENVX(forking[p])]
            /\ env_id'[ENVX(forking[p])] = forking[p]
    BY <1>1, <1>3, <2>3, <2>8
  <2>11. ~ recving'[c] /\ env_status'[c] = "not_runnable"
    BY <1>1, <1>3, <2>3, <2>8
  <2>12. ForkSound'
    <3>1. CASE forking' = forking
      BY <1>3, <2>10, <3>1 DEF ForkSound
    <3>2. CASE forking' = [forking EXCEPT ![curenv] = env_id'[c]]
      <4>1. \A p \in Env : forking'[p] = IF p = curenv THEN env_id'[c] ELSE forking[p]
        BY <1>1, <3>2
      <4>2. \A p \in Env : forking[p] # NULL => forking[p] # env_id'[c]
        BY <2>8, <2>10
      <4> QED
        BY <1>1, <1>3, <2>8, <2>10, <2>11, <4>1, <4>2 DEF ForkSound
    <3> QED
      BY <2>7, <3>1, <3>2
  <2> QED
    BY <2>3, <2>6, <2>8, <2>9, <2>12 DEF LibMove, LibInv, SchedSound, Status
<1>10. ASSUME NEW t \in Env, env_status[t] = "not_runnable", cpu = "user", Return,
              SetStatus(t, "runnable"), UNCHANGED env_id,
              (recving' = recving /\ ~ recving[t]) \/ recving' = [recving EXCEPT ![t] = FALSE],
              forking' = forking \/ forking' = [forking EXCEPT ![curenv] = NULL],
              \A p \in Env : forking'[p] # NULL => ENVX(forking[p]) # t
       PROVE  LibMove
  <2>1. /\ env_status' = [env_status EXCEPT ![t] = "runnable"]
        /\ Holds(sched', Runnable')
    BY <1>3, <1>10, StatusKeepsList DEF SetStatus
  <2>2. env_status'[curenv] = env_status[curenv]
    BY <1>1, <1>2, <1>10, <2>1
  <2>3. SchedSound' /\ cpu' = "user"
    BY <1>2, <1>3, <1>10, <2>1, <2>2, ReturnSound
  <2>4. \A e \in Env : recving'[e] => recving[e] /\ e # t
    BY <1>1, <1>10
  <2>5. ReceiversBlocked'
    BY <1>1, <1>3, <2>1, <2>4 DEF ReceiversBlocked
  <2>6. \A p \in Env : forking'[p] # NULL => forking'[p] = forking[p]
    BY <1>1, <1>10
  <2>7. ForkSound'
    BY <1>1, <1>3, <1>10, <2>1, <2>4, <2>6 DEF ForkSound
  <2> QED
    BY <2>1, <2>3, <2>4, <2>5, <2>7 DEF LibMove, LibInv, SchedSound, Status
<1>11. CASE ForkStart
  <2> DEFINE id == forking[curenv]
             t == Slot(id)
  <2>1. curenv \in Env /\ cpu = "user" /\ id \in IdRange /\ id # 0 /\ id # NULL
    BY <1>1, <1>2, <1>11 DEF ForkStart, TypeOK, IdRange
  <2>2. t = ENVX(id) /\ t \in Env /\ env_status[t] = "not_runnable" /\ ~ recving[t]
    BY <1>3, <2>1 DEF Slot
  <2>3. /\ SetStatus(t, "runnable") /\ Return /\ UNCHANGED <<env_id, recving>>
        /\ forking' = [forking EXCEPT ![curenv] = NULL]
    BY <1>11 DEF ForkStart
  <2> HIDE DEF t
  <2>4. \A p \in Env : forking'[p] # NULL => ENVX(forking[p]) # t
    <3> SUFFICES ASSUME NEW p \in Env, forking'[p] # NULL
                 PROVE  ENVX(forking[p]) # t
      OBVIOUS
    <3>1. p # curenv /\ forking[p] # NULL
      BY <1>1, <2>3
    <3>2. forking[p] # id
      BY <1>3, <2>1, <3>1
    <3> QED
      BY <1>3, <2>1, <2>2, <3>1, <3>2
  <2> QED
    BY <1>10, <2>1, <2>2, <2>3, <2>4
<1>12. ASSUME NEW id \in Ids, SysIpcCanSend(id)
       PROVE  LibMove
  <2> DEFINE t == Slot(id)
  <2>1. t \in Env /\ cpu = "user"
    BY <1>1, <1>2, <1>12, SlotType DEF SysIpcCanSend, Acting
  <2>2. recving[t] /\ env_status[t] = "not_runnable"
    BY <1>3, <1>12, <2>1 DEF SysIpcCanSend
  <2>3. /\ SetStatus(t, "runnable") /\ Return /\ UNCHANGED <<env_id, forking>>
        /\ recving' = [recving EXCEPT ![t] = FALSE]
    BY <1>12 DEF SysIpcCanSend
  <2> HIDE DEF t
  <2>4. \A p \in Env : forking'[p] # NULL => ENVX(forking[p]) # t
    BY <1>3, <2>2, <2>3
  <2> QED
    BY <1>10, <2>1, <2>2, <2>3, <2>4
<1>13. CASE SysIpcRecv
  <2>1. curenv \in Env /\ cpu = "user" /\ env_status[curenv] = "runnable" /\ iter = curenv
    BY <1>2, <1>13 DEF SysIpcRecv, Acting
  <2>2. ~ StatusFaults(curenv, "not_runnable")
    BY <1>3, <2>1, StatusKeepsList
  <2>3. /\ recving' = [recving EXCEPT ![curenv] = TRUE]
        /\ SetStatus(curenv, "not_runnable")
        /\ SchedYield(curenv, env_status', sched')
        /\ UNCHANGED <<env_id, forking>>
    BY <1>13, <2>2 DEF SysIpcRecv
  <2>4. /\ env_status' = [env_status EXCEPT ![curenv] = "not_runnable"]
        /\ sched' = List!Remove(sched, curenv)
        /\ Holds(sched', Runnable')
    BY <1>3, <2>1, <2>3, StatusKeepsList DEF SetStatus
  <2>5. sched'.next[iter] \in Runnable' \cup {NULL}
    <3>1. sched \in ListType /\ curenv \in Runnable
      BY <2>1 DEF AnyInv, TypeOK, ListType, Runnable
    <3>2. Runnable' = Runnable \ {curenv}
      BY <1>1, <2>1, <2>4 DEF Runnable
    <3> QED
      BY <1>3, <2>1, <2>4, <3>1, <3>2, RemovedNext
  <2>6. SchedSound' /\ (cpu' = "user" \/ Runnable' = {})
    <3>1. env_status' \in [Env -> Status]
      BY <1>1, <2>4 DEF Status
    <3> QED
      BY <1>1, <2>3, <2>4, <2>5, <3>1, YieldSound
  <2>7. ReceiversBlocked'
    BY <1>1, <1>3, <2>1, <2>3, <2>4 DEF ReceiversBlocked
  <2>8. ForkSound'
    BY <1>1, <1>3, <2>1, <2>3, <2>4 DEF ForkSound
  <2>9. \A e \in Env : recving'[e] => recving[e] \/ env_status[e] = "runnable"
    BY <1>1, <2>1, <2>3
  <2> QED
    BY <2>1, <2>4, <2>6, <2>7, <2>8, <2>9 DEF LibMove, LibInv, SchedSound, Status
<1>14. ASSUME NEW id \in Ids, SysEnvDestroy(id)
       PROVE  LibMove
  <2> DEFINE t == Slot(id)
  <2>1. t \in Env /\ cpu = "user" /\ curenv \in Env /\ iter = curenv
    BY <1>1, <1>2, <1>14, SlotType DEF SysEnvDestroy, Acting
  <2>2. env_status[t] = "runnable"
    BY <1>2, <1>14 DEF SysEnvDestroy, Acting
  <2>3. ~ List!RemoveFaults(sched, t)
    BY <1>3, <2>1, <2>2, FreeKeepsList
  <2>4. /\ EnvFree(t)
        /\ UNCHANGED <<env_id, recving>>
        /\ IF t = curenv THEN SchedYield(NULL, env_status', sched') ELSE Return
    BY <1>14, <2>3 DEF SysEnvDestroy
  <2> HIDE DEF t
  <2>5. /\ env_status' = [env_status EXCEPT ![t] = "free"]
        /\ forking' = [forking EXCEPT ![t] = NULL]
        /\ sched' = List!Remove(sched, t)
        /\ Holds(sched', Runnable')
    BY <1>3, <2>1, <2>2, <2>4, FreeKeepsList DEF EnvFree
  <2>6. SchedSound' /\ (cpu' = "user" \/ Runnable' = {})
    <3>1. CASE t = curenv
      <4>1. sched \in ListType /\ curenv \in Runnable
        BY <2>1, <2>2, <3>1 DEF AnyInv, TypeOK, ListType, Runnable
      <4>2. Runnable' = Runnable \ {curenv}
        BY <1>1, <2>1, <2>5, <3>1 DEF Runnable
      <4>3. sched'.next[iter] \in Runnable' \cup {NULL}
        BY <1>3, <2>1, <2>5, <3>1, <4>1, <4>2, RemovedNext
      <4>4. env_status' \in [Env -> Status]
        BY <1>1, <2>5 DEF Status
      <4> QED
        BY <1>1, <2>4, <2>5, <3>1, <4>3, <4>4, YieldSound
    <3>2. CASE t # curenv
      <4>1. env_status'[curenv] = env_status[curenv]
        BY <1>1, <2>1, <2>5, <3>2
      <4> QED
        BY <1>3, <2>1, <2>4, <2>5, <3>2, <4>1, ReturnSound
    <3> QED
      BY <3>1, <3>2
  <2>7. ReceiversBlocked'
    BY <1>1, <1>3, <2>1, <2>2, <2>4, <2>5 DEF ReceiversBlocked
  <2>8. ForkSound'
    BY <1>1, <1>3, <2>1, <2>2, <2>4, <2>5 DEF ForkSound
  <2> QED
    BY <2>1, <2>4, <2>5, <2>6, <2>7, <2>8 DEF LibMove, LibInv, SchedSound, Status
<1>15. \A id \in Ids, s \in Status : ~ SysSetEnvStatus(id, s)
  BY DEF SysSetEnvStatus
<1> QED
  BY <1>5, <1>6, <1>7, <1>8, <1>9, <1>11, <1>12, <1>13, <1>14, <1>15 DEF Next, Status

\* The theorems below hold as long as programs do not destroy environments that
\* are blocked, and leave sys_set_env_status to fork(), as the library does.
LEMMA LibInvariant ==
  ASSUME Calls \cap {"orphan", "status"} = {}
  PROVE  Spec => [](AnyInv /\ LibInv) /\ [][LibMove]_vars
<1>1. Init => AnyInv /\ LibInv
  BY AnyInit, LibInit
<1>2. (AnyInv /\ LibInv) /\ [Next]_vars => (AnyInv /\ LibInv)' /\ LibMove
  BY AnyStep, LibStep DEF LibMove
<1> QED
  BY <1>1, <1>2, PTL DEF Spec

\* env_sched_list holds exactly the runnable environments, with right links in
\* both directions, whatever is inserted and removed where.
THEOREM RunListRight ==
  ASSUME Calls \cap {"orphan", "status"} = {}
  PROVE  Spec => []RunListExact
<1>1. LibInv => RunListExact
  BY ExactHolds DEF LibInv
<1> QED
  BY <1>1, LibInvariant, PTL

\* User code runs in the environment whose slices sched_yield counts, and that
\* environment is runnable.
THEOREM TurnsOwned ==
  ASSUME Calls \cap {"orphan", "status"} = {}
  PROVE  Spec => []RunningOwnsTurn
<1>1. LibInv => RunningOwnsTurn
  BY DEF LibInv, IterSound
<1> QED
  BY <1>1, LibInvariant, PTL

\* sched_yield never loops for ever, and LIST_REMOVE never faults: every
\* environment it is applied to is on the list, and the stale iter always is one
\* step away from it.
THEOREM KernelAlive ==
  ASSUME Calls \cap {"orphan", "status"} = {}
  PROVE  Spec => []KernelSurvives
<1>1. LibInv => KernelSurvives
  BY DEF LibInv
<1> QED
  BY <1>1, LibInvariant, PTL

\* A new environment is not receiving, although env_alloc does not say so: no
\* environment gives up its slot while it receives.
THEOREM NewDoNotReceive ==
  ASSUME Calls \cap {"orphan", "status"} = {}
  PROVE  Spec => NewAreNotReceiving
<1>1. LibInv /\ [LibMove]_vars =>
        [\A e \in Env : env_status[e] = "free" /\ env_status'[e] # "free"
                          => ~ recving'[e]]_vars
  BY DEF LibInv, LibMove, ReceiversBlocked
<1> QED
  BY <1>1, LibInvariant, PTL DEF NewAreNotReceiving

\* The safety half of FairScheduler: the linked list, the stale iterator and
\* the slices implement the run queue, in which the CPU runs a ready process and
\* idles only when there is none.
THEOREM SafeScheduler ==
  ASSUME Calls \cap {"orphan", "status"} = {}
  PROVE  Spec => Queue!Init /\ [][Queue!Step]_<<Runnable, IF cpu = "user" THEN curenv ELSE NULL>>
<1> DEFINE running == IF cpu = "user" THEN curenv ELSE NULL
<1>1. Init => Queue!Init
  BY DEF Init, Queue!Init, Runnable
<1>2. AnyInv /\ AnyInv' /\ LibMove => Queue!Step
  <2> SUFFICES ASSUME AnyInv, AnyInv', LibMove
               PROVE  Queue!Step
    OBVIOUS
  <2>1. PICK t \in Env, s \in Status : env_status' = [env_status EXCEPT ![t] = s]
    BY DEF LibMove
  <2>2. Runnable' \in {Runnable, Runnable \cup {t}, Runnable \ {t}}
    <3>1. \A x \in Env \ {t} : env_status'[x] = env_status[x]
      BY <2>1 DEF AnyInv, TypeOK
    <3> QED
      BY <3>1 DEF Runnable
  <2>3. cpu' = "user" => curenv' \in Runnable'
    BY DEF AnyInv, CurrentInUse, LibMove, LibInv, IterSound, RunningOwnsTurn, Runnable
  <2>4. \/ running' \in Runnable'
        \/ running' = NULL /\ (running = NULL \/ Runnable' = {})
    BY <2>3 DEF LibMove
  <2> QED
    BY <2>1, <2>2, <2>4 DEF Queue!Step
<1>3. AnyInv /\ AnyInv' /\ [LibMove]_vars => [Queue!Step]_<<Runnable, running>>
  BY <1>2 DEF vars, Runnable
<1> QED
  BY <1>1, <1>3, LibInvariant, PTL DEF Spec
=============================================================================
