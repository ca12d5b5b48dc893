--------------------------- MODULE FsBlocksProofs ---------------------------
(***************************************************************************)
(* Proofs about FsBlocks, for every disk, every set of files and sizes, and *)
(* whatever memory the kernel has left at each request.                    *)
(***************************************************************************)
EXTENDS FsFormatProofs

-----------------------------------------------------------------------------
(* The loops                                                               *)

\* at goes through the loop from s.
FlushSteps(at, s, f, k) ==
    /\ at[0] = s /\ at[k] = FileFlush(s, f)
    /\ \A i \in 0 .. k - 1 : at[i + 1] = FlushBlock(at[i], f, i)

\* The loop of file_flush.
LEMMA FlushLoop ==
  ASSUME NEW W, NEW s \in W, NEW f, NEW k \in Nat, k = NBlock(s.size[f]),
         \A x \in W, n \in Nat : FlushBlock(x, f, n) \in W
  PROVE  \E at \in [0 .. k -> W] : FlushSteps(at, s, f, k)
<1> DEFINE F == [x \in W \X Nat |-> IF x[2] = 0 THEN x[1] ELSE FlushBlock(x[1], f, x[2] - 1)]
           q == Upto(0, k)
           Is(g) == g = [S \in SUBSET (DOMAIN q) |->
                           IF S = {} THEN s ELSE FlushBlock(g[S \ {Max(S)}], f, q[Max(S)])]
<1>1. F \in [W \X Nat -> W]
  <2> SUFFICES ASSUME NEW x \in W, NEW i \in Nat, i # 0
               PROVE  FlushBlock(x, f, i - 1) \in W
    OBVIOUS
  <2>1. i - 1 \in Nat
    OBVIOUS
  <2> QED BY <2>1
<1>2. DOMAIN q = 1 .. k /\ \A i \in 1 .. k : q[i] = i - 1
  BY DEF Upto
<1>3. FileFlush(s, f) = (CHOOSE g : Is(g))[DOMAIN q]
  BY DEF FileFlush, FoldLeft, MapThenFoldSet
<1>4. ASSUME NEW S \in SUBSET (1 .. k), S # {}, NEW x \in W
      PROVE  F[<<x, Max(S)>>] = FlushBlock(x, f, q[Max(S)])
  <2>1. Max(S) \in 1 .. k
    BY <1>4, MaxIn
  <2>2. Max(S) \in Nat /\ Max(S) # 0 /\ q[Max(S)] = Max(S) - 1
    BY <1>2, <2>1
  <2> QED BY <2>2
<1>5. PICK h \in [SUBSET (1 .. k) -> W] : Folds(h, F, s, k)
  <2> HIDE DEF F
  <2> QED BY <1>1, FoldExists
<1>6. Is(h)
  <2>1. ASSUME NEW S \in SUBSET (1 .. k)
        PROVE  h[S] = IF S = {} THEN s ELSE FlushBlock(h[S \ {Max(S)}], f, q[Max(S)])
    <3> HIDE DEF F, q
    <3>1. S \ {Max(S)} \in SUBSET (1 .. k) /\ h[S \ {Max(S)}] \in W
      OBVIOUS
    <3> QED BY <1>4, <1>5, <3>1 DEF Folds
  <2> HIDE DEF F, q
  <2> QED BY <1>2, <2>1
<1> DEFINE g == CHOOSE x : Is(x)
<1>7. Is(g)
  <2> HIDE DEF Is
  <2> QED BY <1>6
<1> HIDE DEF F
<1>8. /\ g[{}] = s
      /\ \A S \in SUBSET (1 .. k) : S # {} =>
            g[S] = FlushBlock(g[S \ {Max(S)}], f, q[Max(S)])
  <2> HIDE DEF g, q
  <2> QED BY <1>2, <1>7
<1>9. FileFlush(s, f) = g[1 .. k]
  <2> HIDE DEF Is
  <2> QED BY <1>2, <1>3
<1> HIDE DEF g, q, Is
<1>10. PICK at \in [0 .. k -> W] : Steps(at, F, s, g, k)
  <2>1. FoldsOn(g, F, s, k, W)
    BY <1>4, <1>8 DEF FoldsOn
  <2> QED BY <1>1, <2>1, Chain
<1>11. ASSUME NEW i \in 0 .. k - 1
       PROVE  at[i + 1] = FlushBlock(at[i], f, i)
  <2>1. i + 1 \in Nat /\ i + 1 # 0 /\ i \in 0 .. k /\ (i + 1) - 1 = i
    OBVIOUS
  <2>2. at[i] \in W
    BY <2>1
  <2> QED BY <1>10, <2>1, <2>2 DEF F, Steps
<1>12. at[0] = s /\ at[k] = g[1 .. k]
  BY <1>10 DEF Steps
<1>13. FlushSteps(at, s, f, k)
  BY <1>9, <1>11, <1>12 DEF FlushSteps
<1> QED BY <1>13

\* at goes through the loop from s.
SyncSteps(at, s, k) ==
    /\ at[0] = s /\ at[k] = FsSync(s)
    /\ \A i \in 0 .. k - 1 : at[i + 1] = WriteDirty(at[i], i)

\* The loop of fs_sync.
LEMMA SyncLoop ==
  ASSUME NEW W, NEW s \in W, NEW k \in Nat, k = NBlocks,
         \A x \in W, b \in Nat : WriteDirty(x, b) \in W
  PROVE  \E at \in [0 .. k -> W] : SyncSteps(at, s, k)
<1> DEFINE F == [x \in W \X Nat |-> IF x[2] = 0 THEN x[1] ELSE WriteDirty(x[1], x[2] - 1)]
           q == Upto(0, k)
           Is(g) == g = [S \in SUBSET (DOMAIN q) |->
                           IF S = {} THEN s ELSE WriteDirty(g[S \ {Max(S)}], q[Max(S)])]
<1>1. F \in [W \X Nat -> W]
  <2> SUFFICES ASSUME NEW x \in W, NEW i \in Nat, i # 0
               PROVE  WriteDirty(x, i - 1) \in W
    OBVIOUS
  <2>1. i - 1 \in Nat
    OBVIOUS
  <2> QED BY <2>1
<1>2. DOMAIN q = 1 .. k /\ \A i \in 1 .. k : q[i] = i - 1
  BY DEF Upto
<1>3. FsSync(s) = (CHOOSE g : Is(g))[DOMAIN q]
  BY DEF FsSync, FoldLeft, MapThenFoldSet
<1>4. ASSUME NEW S \in SUBSET (1 .. k), S # {}, NEW x \in W
      PROVE  F[<<x, Max(S)>>] = WriteDirty(x, q[Max(S)])
  <2>1. Max(S) \in 1 .. k
    BY <1>4, MaxIn
  <2>2. Max(S) \in Nat /\ Max(S) # 0 /\ q[Max(S)] = Max(S) - 1
    BY <1>2, <2>1
  <2> QED BY <2>2
<1>5. PICK h \in [SUBSET (1 .. k) -> W] : Folds(h, F, s, k)
  <2> HIDE DEF F
  <2> QED BY <1>1, FoldExists
<1>6. Is(h)
  <2>1. ASSUME NEW S \in SUBSET (1 .. k)
        PROVE  h[S] = IF S = {} THEN s ELSE WriteDirty(h[S \ {Max(S)}], q[Max(S)])
    <3> HIDE DEF F, q
    <3>1. S \ {Max(S)} \in SUBSET (1 .. k) /\ h[S \ {Max(S)}] \in W
      OBVIOUS
    <3> QED BY <1>4, <1>5, <3>1 DEF Folds
  <2> HIDE DEF F, q
  <2> QED BY <1>2, <2>1
<1> DEFINE g == CHOOSE x : Is(x)
<1>7. Is(g)
  <2> HIDE DEF Is
  <2> QED BY <1>6
<1> HIDE DEF F
<1>8. /\ g[{}] = s
      /\ \A S \in SUBSET (1 .. k) : S # {} =>
            g[S] = WriteDirty(g[S \ {Max(S)}], q[Max(S)])
  <2> HIDE DEF g, q
  <2> QED BY <1>2, <1>7
<1>9. FsSync(s) = g[1 .. k]
  <2> HIDE DEF Is
  <2> QED BY <1>2, <1>3
<1> HIDE DEF g, q, Is
<1>10. PICK at \in [0 .. k -> W] : Steps(at, F, s, g, k)
  <2>1. FoldsOn(g, F, s, k, W)
    BY <1>4, <1>8 DEF FoldsOn
  <2> QED BY <1>1, <2>1, Chain
<1>11. ASSUME NEW i \in 0 .. k - 1
       PROVE  at[i + 1] = WriteDirty(at[i], i)
  <2>1. i + 1 \in Nat /\ i + 1 # 0 /\ i \in 0 .. k /\ (i + 1) - 1 = i
    OBVIOUS
  <2>2. at[i] \in W
    BY <2>1
  <2> QED BY <1>10, <2>1, <2>2 DEF F, Steps
<1>12. at[0] = s /\ at[k] = g[1 .. k]
  BY <1>10 DEF Steps
<1>13. SyncSteps(at, s, k)
  BY <1>9, <1>11, <1>12 DEF SyncSteps
<1> QED BY <1>13

\* at goes through the loop from s.
ClearSteps(at, s, f, m, n, k) ==
    /\ at[0] = s /\ at[k] = ClearBlocks(s, f, m, n)
    /\ \A i \in 0 .. k - 1 : at[i + 1] = FileClearBlock(at[i], f, m + i)

\* The loop of file_truncate.
LEMMA ClearLoop ==
  ASSUME NEW W, NEW s \in W, NEW f, NEW m \in Nat, NEW n \in Nat, NEW k \in Nat,
         k = IF n > m THEN n - m ELSE 0,
         \A x \in W, i \in Nat : FileClearBlock(x, f, i) \in W
  PROVE  \E at \in [0 .. k -> W] : ClearSteps(at, s, f, m, n, k)
<1> DEFINE F == [x \in W \X Nat |-> IF x[2] = 0 THEN x[1] ELSE FileClearBlock(x[1], f, m + x[2] - 1)]
           q == Upto(m, n)
           Is(g) == g = [S \in SUBSET (DOMAIN q) |->
                           IF S = {} THEN s ELSE FileClearBlock(g[S \ {Max(S)}], f, q[Max(S)])]
<1>1. F \in [W \X Nat -> W]
  <2> SUFFICES ASSUME NEW x \in W, NEW i \in Nat, i # 0
               PROVE  FileClearBlock(x, f, m + i - 1) \in W
    OBVIOUS
  <2>1. m + i - 1 \in Nat
    OBVIOUS
  <2> QED BY <2>1
<1>2. DOMAIN q = 1 .. k /\ \A i \in 1 .. k : q[i] = m + i - 1
  BY DEF Upto
<1>3. ClearBlocks(s, f, m, n) = (CHOOSE g : Is(g))[DOMAIN q]
  BY DEF ClearBlocks, FoldLeft, MapThenFoldSet
<1>4. ASSUME NEW S \in SUBSET (1 .. k), S # {}, NEW x \in W
      PROVE  F[<<x, Max(S)>>] = FileClearBlock(x, f, q[Max(S)])
  <2>1. Max(S) \in 1 .. k
    BY <1>4, MaxIn
  <2>2. Max(S) \in Nat /\ Max(S) # 0 /\ q[Max(S)] = m + Max(S) - 1
    BY <1>2, <2>1
  <2> QED BY <2>2
<1>5. PICK h \in [SUBSET (1 .. k) -> W] : Folds(h, F, s, k)
  <2> HIDE DEF F
  <2> QED BY <1>1, FoldExists
<1>6. Is(h)
  <2>1. ASSUME NEW S \in SUBSET (1 .. k)
        PROVE  h[S] = IF S = {} THEN s ELSE FileClearBlock(h[S \ {Max(S)}], f, q[Max(S)])
    <3> HIDE DEF F, q
    <3>1. S \ {Max(S)} \in SUBSET (1 .. k) /\ h[S \ {Max(S)}] \in W
      OBVIOUS
    <3> QED BY <1>4, <1>5, <3>1 DEF Folds
  <2> HIDE DEF F, q
  <2> QED BY <1>2, <2>1
<1> DEFINE g == CHOOSE x : Is(x)
<1>7. Is(g)
  <2> HIDE DEF Is
  <2> QED BY <1>6
<1> HIDE DEF F
<1>8. /\ g[{}] = s
      /\ \A S \in SUBSET (1 .. k) : S # {} =>
            g[S] = FileClearBlock(g[S \ {Max(S)}], f, q[Max(S)])
  <2> HIDE DEF g, q
  <2> QED BY <1>2, <1>7
<1>9. ClearBlocks(s, f, m, n) = g[1 .. k]
  <2> HIDE DEF Is
  <2> QED BY <1>2, <1>3
<1> HIDE DEF g, q, Is
<1>10. PICK at \in [0 .. k -> W] : Steps(at, F, s, g, k)
  <2>1. FoldsOn(g, F, s, k, W)
    BY <1>4, <1>8 DEF FoldsOn
  <2> QED BY <1>1, <2>1, Chain
<1>11. ASSUME NEW i \in 0 .. k - 1
       PROVE  at[i + 1] = FileClearBlock(at[i], f, m + i)
  <2>1. i + 1 \in Nat /\ i + 1 # 0 /\ i \in 0 .. k /\ m + (i + 1) - 1 = m + i
    OBVIOUS
  <2>2. at[i] \in W
    BY <2>1
  <2> QED BY <1>10, <2>1, <2>2 DEF F, Steps
<1>12. at[0] = s /\ at[k] = g[1 .. k]
  BY <1>10 DEF Steps
<1>13. ClearSteps(at, s, f, m, n, k)
  BY <1>9, <1>11, <1>12 DEF ClearSteps
<1> QED BY <1>13

\* at goes through the loop from s.
LookSteps(at, s, f, k) ==
    /\ at[0] = s /\ at[k] = LookInBlocks(s, f, k)
    /\ \A i \in 0 .. k - 1 : at[i + 1] = LookInBlock(at[i], f, i)

\* The loop of dir_lookup.
LEMMA LookLoop ==
  ASSUME NEW W, NEW s \in W, NEW f, NEW k \in Nat,
         \A x \in W, n \in Nat : LookInBlock(x, f, n) \in W
  PROVE  \E at \in [0 .. k -> W] : LookSteps(at, s, f, k)
<1> DEFINE F == [x \in W \X Nat |-> IF x[2] = 0 THEN x[1] ELSE LookInBlock(x[1], f, x[2] - 1)]
           q == Upto(0, k)
           Is(g) == g = [S \in SUBSET (DOMAIN q) |->
                           IF S = {} THEN s ELSE LookInBlock(g[S \ {Max(S)}], f, q[Max(S)])]
<1>1. F \in [W \X Nat -> W]
  <2> SUFFICES ASSUME NEW x \in W, NEW i \in Nat, i # 0
               PROVE  LookInBlock(x, f, i - 1) \in W
    OBVIOUS
  <2>1. i - 1 \in Nat
    OBVIOUS
  <2> QED BY <2>1
<1>2. DOMAIN q = 1 .. k /\ \A i \in 1 .. k : q[i] = i - 1
  BY DEF Upto
<1>3. LookInBlocks(s, f, k) = (CHOOSE g : Is(g))[DOMAIN q]
  BY DEF LookInBlocks, FoldLeft, MapThenFoldSet
<1>4. ASSUME NEW S \in SUBSET (1 .. k), S # {}, NEW x \in W
      PROVE  F[<<x, Max(S)>>] = LookInBlock(x, f, q[Max(S)])
  <2>1. Max(S) \in 1 .. k
    BY <1>4, MaxIn
  <2>2. Max(S) \in Nat /\ Max(S) # 0 /\ q[Max(S)] = Max(S) - 1
    BY <1>2, <2>1
  <2> QED BY <2>2
<1>5. PICK h \in [SUBSET (1 .. k) -> W] : Folds(h, F, s, k)
  <2> HIDE DEF F
  <2> QED BY <1>1, FoldExists
<1>6. Is(h)
  <2>1. ASSUME NEW S \in SUBSET (1 .. k)
        PROVE  h[S] = IF S = {} THEN s ELSE LookInBlock(h[S \ {Max(S)}], f, q[Max(S)])
    <3> HIDE DEF F, q
    <3>1. S \ {Max(S)} \in SUBSET (1 .. k) /\ h[S \ {Max(S)}] \in W
      OBVIOUS
    <3> QED BY <1>4, <1>5, <3>1 DEF Folds
  <2> HIDE DEF F, q
  <2> QED BY <1>2, <2>1
<1> DEFINE g == CHOOSE x : Is(x)
<1>7. Is(g)
  <2> HIDE DEF Is
  <2> QED BY <1>6
<1> HIDE DEF F
<1>8. /\ g[{}] = s
      /\ \A S \in SUBSET (1 .. k) : S # {} =>
            g[S] = LookInBlock(g[S \ {Max(S)}], f, q[Max(S)])
  <2> HIDE DEF g, q
  <2> QED BY <1>2, <1>7
<1>9. LookInBlocks(s, f, k) = g[1 .. k]
  <2> HIDE DEF Is
  <2> QED BY <1>2, <1>3
<1> HIDE DEF g, q, Is
<1>10. PICK at \in [0 .. k -> W] : Steps(at, F, s, g, k)
  <2>1. FoldsOn(g, F, s, k, W)
    BY <1>4, <1>8 DEF FoldsOn
  <2> QED BY <1>1, <2>1, Chain
<1>11. ASSUME NEW i \in 0 .. k - 1
       PROVE  at[i + 1] = LookInBlock(at[i], f, i)
  <2>1. i + 1 \in Nat /\ i + 1 # 0 /\ i \in 0 .. k /\ (i + 1) - 1 = i
    OBVIOUS
  <2>2. at[i] \in W
    BY <2>1
  <2> QED BY <1>10, <2>1, <2>2 DEF F, Steps
<1>12. at[0] = s /\ at[k] = g[1 .. k]
  BY <1>10 DEF Steps
<1>13. LookSteps(at, s, f, k)
  BY <1>9, <1>11, <1>12 DEF LookSteps
<1> QED BY <1>13

-----------------------------------------------------------------------------
(* The invariant of the disk and the memory of the server                  *)

State ==
    [free : SUBSET Block, size : [AllFiles -> Nat],
     direct : [AllFiles -> [0 .. NDIRECT - 1 -> Block]], indirect : [AllFiles -> Block],
     entry : [Block -> Entries], named : SUBSET AllFiles, mapped : SUBSET Block,
     dirty : SUBSET Block, announced : SUBSET Block, owed : SUBSET Block, pages : Nat,
     status : {"ok", "panic", "nomem", "stopped"}]

\* The places of the blocks that clients write to.
DataPlaces == File \X FileBno

\* Each block has one purpose, which the bitmap knows.
TreeSound(s) ==
    /\ \A p \in Places : Place(s, p) # 0 => Place(s, p) \notin s.free \cup Reserved
    /\ \A p, q \in Places : Place(s, p) = Place(s, q) /\ Place(s, p) # 0 => p = q

\* The struct File of f is in no block that clients write to.
HomesSound(s) ==
    \A f \in AllFiles : /\ Home[f] \in Block \ s.free /\ Home[f] # 0
                        /\ \A p \in DataPlaces : Place(s, p) # Home[f]

\* What is in memory, and what has been announced there: blocks of files are
\* marked as dirty, and free blocks have never been used.
CacheSound(s) ==
    /\ Reserved \subseteq s.mapped
    /\ s.free \cap (s.mapped \cup s.announced) = {}
    /\ s.status = "ok" => s.dirty \subseteq s.mapped
    /\ 0 \notin s.announced
    /\ \A p \in DataPlaces : Place(s, p) \in s.announced => Place(s, p) \in s.dirty

Sound(s) ==
    /\ s \in State /\ s.status # "panic"
    /\ TreeSound(s) /\ HomesSound(s) /\ CacheSound(s)

\* A place keeps its block, loses it, or gets one that was free.
Grows(s, t) ==
    /\ t.free \subseteq s.free /\ t.named \subseteq s.named
    /\ s.status # "ok" => t.status # "ok"
    /\ \A p \in Places : Place(t, p) \in {0, Place(s, p)} \cup (s.free \ t.free)

\* Nothing but the cache is different.
SameTree(s, t) ==
    /\ t.free = s.free /\ t.size = s.size /\ t.direct = s.direct
    /\ t.indirect = s.indirect /\ t.entry = s.entry /\ t.named = s.named

\* Block b has just been allocated and is at no place yet.
Fresh(s, b) ==
    /\ b \in Block \ (s.free \cup Reserved \cup s.announced) /\ b \in s.mapped
    /\ s.entry[b] = NoEntries
    /\ \A p \in Places : Place(s, p) # b
    /\ \A f \in AllFiles : Home[f] # b

\* What the assumptions and the definitions say of constants.
LEMMA ConstantFacts ==
    /\ NBlocks \in Nat \ {0} /\ NDIRECT \in Nat \ {0} /\ NINDIRECT \in Nat /\ NDIRECT < NINDIRECT
    /\ BY2BLK \in Nat \ {0} /\ BIT2BLK \in Nat \ {0}
    /\ 0 \in Block /\ Block \subseteq Nat /\ ERROR \notin Block /\ ERROR # 0
    /\ Root \in AllFiles /\ File \subseteq AllFiles /\ Root \notin File /\ Motd \in File
    /\ 0 \in Reserved /\ FileBno \subseteq Nat /\ INDIRECT \notin FileBno
    /\ NoEntries \in Entries /\ \A n \in NDIRECT .. NINDIRECT - 1 : NoEntries[n] = 0
    /\ DataPlaces \subseteq Places
<1>1. 0 \in Reserved
  <2>1. NBlocks \div BIT2BLK \in Nat
    BY FormatFacts
  <2> QED BY <2>1 DEF Reserved
<1> QED BY <1>1, FormatFacts, FsBlocksAssumption DEF ERROR, DataPlaces, Places, Entries, Block

\* The types of the fields.
LEMMA Fields ==
  ASSUME NEW s \in State
  PROVE  /\ s.free \in SUBSET Block /\ s.size \in [AllFiles -> Nat]
         /\ s.direct \in [AllFiles -> [0 .. NDIRECT - 1 -> Block]] /\ s.indirect \in [AllFiles -> Block]
         /\ s.entry \in [Block -> Entries] /\ s.named \in SUBSET AllFiles
         /\ s.mapped \in SUBSET Block /\ s.dirty \in SUBSET Block /\ s.announced \in SUBSET Block
         /\ s.owed \in SUBSET Block
         /\ s.pages \in Nat /\ s.status \in {"ok", "panic", "nomem", "stopped"}
BY DEF State

\* A place holds a block.
LEMMA PlaceType ==
  ASSUME NEW s \in State, NEW p \in Places
  PROVE  Place(s, p) \in Block
<1>1. PICK f \in AllFiles, n \in FileBno \cup {INDIRECT} : p = <<f, n>>
  BY DEF Places
<1>2. CASE n = INDIRECT
  BY <1>1, <1>2, Fields DEF Place
<1>3. CASE n \in FileBno /\ n < NDIRECT
  BY <1>1, <1>3, Fields, ConstantFacts DEF Place, FileBno
<1>4. CASE n \in FileBno /\ ~ (n < NDIRECT)
  <2>1. n \in NDIRECT .. NINDIRECT - 1 /\ n # INDIRECT
    BY <1>4, ConstantFacts DEF FileBno
  <2>2. s.indirect[f] \in Block /\ s.entry[s.indirect[f]] \in Entries
    BY Fields
  <2>3. s.entry[s.indirect[f]][n] \in Block
    BY <2>1, <2>2 DEF Entries
  <2> QED BY <1>1, <1>4, <2>1, <2>3, ConstantFacts DEF Place
<1> QED BY <1>1, <1>2, <1>3, <1>4

\* The cache does not matter to what is at a place.
LEMMA SamePlaces ==
  ASSUME NEW s, NEW t, SameTree(s, t)
  PROVE  \A p : Place(t, p) = Place(s, p)
BY DEF SameTree, Place

\* The bitmap block of b, and the block that is written instead of it, are
\* reserved.
LEMMA BitmapReserved ==
  ASSUME NEW b \in Block
  PROVE  BitmapBlock(b) \in Reserved \ {0} /\ b \div BIT2BLK \in Reserved
<1>1. b \in Nat /\ b <= NBlocks /\ NBlocks \in Nat /\ BIT2BLK \in Nat \ {0}
  BY FormatFacts DEF Block
<1>2. b \div BIT2BLK \in Nat /\ NBlocks \div BIT2BLK \in Nat /\ b \div BIT2BLK <= NBlocks \div BIT2BLK
  BY <1>1
<1> QED BY <1>2 DEF BitmapBlock, Reserved

\* A change in the cache only keeps the state sound if the cache is.
LEMMA CacheStep ==
  ASSUME NEW s, NEW t \in State, Sound(s), SameTree(s, t), CacheSound(t), t.status # "panic",
         s.status # "ok" => t.status # "ok"
  PROVE  Sound(t) /\ Grows(s, t)
<1>1. \A p : Place(t, p) = Place(s, p)
  BY SamePlaces
<1> QED BY <1>1 DEF Sound, SameTree, TreeSound, HomesSound, Grows

\* Nothing changes.
LEMMA GrowsItself == \A s : Grows(s, s)
BY DEF Grows

\* Two operations, one after the other.
LEMMA GrowsOn ==
  ASSUME NEW s, NEW t, NEW u, Grows(s, t), Grows(t, u)
  PROVE  Grows(s, u)
BY DEF Grows

-----------------------------------------------------------------------------
(* Blocks                                                                  *)

\* The server has changed b in memory and announces nothing.
LEMMA OweSound ==
  ASSUME NEW s, Sound(s), NEW b \in Block
  PROVE  /\ Sound(Owe(s, b)) /\ Grows(s, Owe(s, b)) /\ SameTree(s, Owe(s, b))
         /\ Owe(s, b).mapped = s.mapped /\ Owe(s, b).status = s.status
         /\ Owe(s, b).announced = s.announced /\ Owe(s, b).dirty = s.dirty
<1> DEFINE t == [s EXCEPT !.owed = @ \cup {b}]
<1>1. t \in State /\ SameTree(s, t) /\ t.announced = s.announced /\ t.mapped = s.mapped
      /\ t.dirty = s.dirty /\ t.status = s.status
  BY DEF Sound, State, SameTree
<1>2. \A p : Place(t, p) = Place(s, p)
  BY <1>1, SamePlaces
<1>3. CacheSound(t)
  <2> HIDE DEF t
  <2> QED BY <1>1, <1>2 DEF Sound, CacheSound, SameTree
<1>4. t.status # "panic"
  BY <1>1 DEF Sound
<1> HIDE DEF t
<1>5. Owe(s, b) = t
  BY DEF Owe, t
<1> QED BY <1>1, <1>3, <1>4, <1>5, CacheStep

\* write_block of a block in memory.
LEMMA WriteBlockSound ==
  ASSUME NEW s, Sound(s), NEW b \in s.mapped
  PROVE  LET t == WriteBlock(s, b)
         IN  /\ Sound(t) /\ Grows(s, t) /\ SameTree(s, t) /\ t.status = s.status
             /\ t.announced = s.announced \ {b} /\ t.dirty = s.dirty \ {b} /\ t.mapped = s.mapped
<1> DEFINE t == [s EXCEPT !.dirty = @ \ {b}, !.owed = @ \ {b}, !.announced = @ \ {b}]
<1>1. t \in State /\ SameTree(s, t) /\ t.announced = s.announced \ {b} /\ t.mapped = s.mapped
      /\ t.dirty = s.dirty \ {b} /\ t.status = s.status
  BY DEF Sound, State, SameTree
<1>2. \A p : Place(t, p) = Place(s, p)
  BY <1>1, SamePlaces
<1>3. CacheSound(t)
  <2> HIDE DEF t
  <2> QED BY <1>1, <1>2 DEF Sound, CacheSound, SameTree
<1>4. t.status # "panic"
  BY <1>1 DEF Sound
<1> HIDE DEF t
<1>5. WriteBlock(s, b) = t
  BY DEF WriteBlock, t
<1> QED BY <1>1, <1>3, <1>4, <1>5, CacheStep

\* A block is written if it is dirty.
LEMMA WriteDirtySound ==
  ASSUME NEW s, Sound(s), NEW b
  PROVE  LET t == WriteDirty(s, b)
         IN  /\ Sound(t) /\ Grows(s, t) /\ SameTree(s, t) /\ t.status = s.status
             /\ t.announced \subseteq s.announced /\ t.dirty \subseteq s.dirty /\ t.mapped = s.mapped
             /\ b \notin t.dirty \cap t.mapped
BY WriteBlockSound, GrowsItself DEF WriteDirty, IsDirty, SameTree

\* read_block of a block that is not free.
LEMMA ReadBlockSound ==
  ASSUME NEW s, Sound(s), NEW b \in Block, b \notin s.free
  PROVE  LET t == ReadBlock(s, b)
         IN  /\ Sound(t) /\ Grows(s, t) /\ SameTree(s, t)
             /\ t.announced = s.announced /\ t.dirty = s.dirty /\ s.mapped \subseteq t.mapped
             /\ t.status = "ok" => b \in t.mapped
             /\ s.pages # 0 => t.status = s.status
             /\ t.status = "ok" => s.status = "ok"
<1>1. CASE b \in s.mapped
  <2>1. ReadBlock(s, b) = s
    BY <1>1 DEF ReadBlock
  <2> QED BY <1>1, <2>1, GrowsItself DEF SameTree
<1>2. CASE b \notin s.mapped /\ s.pages = 0
  <2> DEFINE t == [s EXCEPT !.status = "nomem"]
  <2>1. t \in State /\ SameTree(s, t) /\ t.announced = s.announced /\ t.mapped = s.mapped
        /\ t.dirty = s.dirty /\ t.status = "nomem"
    BY DEF Sound, State, SameTree
  <2>2. \A p : Place(t, p) = Place(s, p)
    BY <2>1, SamePlaces
  <2>3. ReadBlock(s, b) = t
    BY <1>2 DEF ReadBlock
  <2> HIDE DEF t
  <2>4. CacheSound(t)
    BY <2>1, <2>2 DEF Sound, CacheSound, SameTree
  <2> QED BY <1>2, <2>1, <2>3, <2>4, CacheStep
<1>3. CASE b \notin s.mapped /\ s.pages # 0
  <2> DEFINE t == [s EXCEPT !.mapped = @ \cup {b}, !.pages = @ - 1]
  <2>1. t \in State /\ SameTree(s, t) /\ t.announced = s.announced /\ t.mapped = s.mapped \cup {b}
        /\ t.dirty = s.dirty /\ t.status = s.status
    <3>1. s \in State /\ s.pages \in Nat /\ s.pages - 1 \in Nat
      BY <1>3, Fields DEF Sound
    <3> QED BY <3>1 DEF State, SameTree
  <2>2. \A p : Place(t, p) = Place(s, p)
    BY <2>1, SamePlaces
  <2>3. ReadBlock(s, b) = t
    BY <1>3 DEF ReadBlock
  <2> HIDE DEF t
  <2>4. CacheSound(t)
    BY <2>1, <2>2 DEF Sound, CacheSound, SameTree
  <2>5. t.status # "panic"
    BY <2>1 DEF Sound
  <2> QED BY <1>3, <2>1, <2>3, <2>4, <2>5, CacheStep
<1> QED BY <1>1, <1>2, <1>3

\* The places keep what is at them.
SamePlace(s, t) == \A p \in Places : Place(t, p) = Place(s, p)

\* A step that changes no place.
LEMMA PlacesStep ==
  ASSUME NEW s, NEW t \in State, Sound(s), SamePlace(s, t), CacheSound(t), t.status # "panic",
         t.free \subseteq s.free, t.named \subseteq s.named, s.status # "ok" => t.status # "ok"
  PROVE  Sound(t) /\ Grows(s, t)
<1>1. \A p \in DataPlaces : p \in Places
  BY ConstantFacts
<1>2. TreeSound(t)
  BY DEF Sound, TreeSound, SamePlace
<1>3. HomesSound(t)
  BY <1>1 DEF Sound, HomesSound, SamePlace
<1> QED BY <1>2, <1>3 DEF Sound, Grows, SamePlace

\* free_block, which marks b as used.
LEMMA FreeBlockSound ==
  ASSUME NEW s, Sound(s), NEW b \in Block
  PROVE  LET t == FreeBlock(s, b)
         IN  /\ Sound(t) /\ Grows(s, t) /\ SamePlace(s, t)
             /\ t.free = s.free \ {b} /\ t.announced = s.announced
             /\ t.mapped = s.mapped /\ t.dirty = s.dirty /\ t.status = s.status
             /\ t.size = s.size /\ t.direct = s.direct /\ t.indirect = s.indirect
             /\ t.entry = s.entry /\ t.named = s.named /\ t.pages = s.pages
<1> DEFINE t == [s EXCEPT !.free = @ \ {b}, !.owed = @ \cup {BitmapBlock(b)}]
<1>1. BitmapBlock(b) \in Reserved \ {0} /\ Reserved \subseteq s.mapped /\ s.mapped \subseteq Block
  BY BitmapReserved, Fields DEF Sound, CacheSound
<1>2. /\ t \in State
      /\ t.free = s.free \ {b} /\ t.announced = s.announced
      /\ t.mapped = s.mapped /\ t.dirty = s.dirty /\ t.status = s.status
      /\ t.size = s.size /\ t.direct = s.direct /\ t.indirect = s.indirect
      /\ t.entry = s.entry /\ t.named = s.named /\ t.pages = s.pages
  BY <1>1 DEF Sound, State
<1>3. FreeBlock(s, b) = t
  BY DEF FreeBlock, Owe, Sound, State
<1> HIDE DEF t
<1>4. SamePlace(s, t)
  BY <1>2 DEF SamePlace, Place
<1>5. \A p \in DataPlaces : Place(t, p) # BitmapBlock(b)
  BY <1>1, <1>4, ConstantFacts DEF SamePlace, Sound, TreeSound
<1>6. CacheSound(t)
  BY <1>1, <1>2, <1>4, <1>5, ConstantFacts DEF Sound, CacheSound, SamePlace
<1>7. t.status # "panic"
  BY <1>2 DEF Sound
<1> QED BY <1>2, <1>3, <1>4, <1>6, <1>7, PlacesStep

\* b is used, but nothing leads to it yet.
New(s, b) ==
    /\ b \in Block \ (s.free \cup Reserved \cup s.announced) /\ b \notin s.mapped
    /\ \A p \in Places : Place(s, p) # b
    /\ \A f \in AllFiles : Home[f] # b

\* Some free block is the first one.
LEMMA FirstFree ==
  ASSUME NEW S, S \subseteq Nat, S # {}
  PROVE  (CHOOSE b \in S : \A c \in S : b <= c) \in S
<1>1. PICK b \in S : \A x \in S : ~ (<<x, b>> \in OpToRel(<, Nat))
  BY S \in SUBSET Nat, NatLessThanWellFounded, WFMin
<1>2. \A x \in S : ~ (x < b)
  BY <1>1 DEF OpToRel
<1>3. \A x \in S : b <= x
  BY <1>2
<1>4. \E x \in S : \A c \in S : x <= c
  BY <1>3
<1> QED BY <1>4

\* alloc_block_num
LEMMA AllocBlockNumSound ==
  ASSUME NEW s, Sound(s)
  PROVE  LET o == AllocBlockNum(s)
         IN  /\ Sound(o.s) /\ Grows(s, o.s) /\ SamePlace(s, o.s)
             /\ o.s.status = s.status /\ o.s.size = s.size
             /\ o.r = ERROR \/ (o.r \in s.free \ {0} /\ New(o.s, o.r))
             /\ o.s.indirect = s.indirect
<1> DEFINE free == {b \in s.free : b >= 3}
           b == CHOOSE b \in free : \A c \in free : b <= c
           t == Owe([s EXCEPT !.free = @ \ {b}], BitmapBlock(b))
<1>1. CASE free = {}
  <2>1. AllocBlockNum(s) = [s |-> s, r |-> ERROR]
    BY <1>1 DEF AllocBlockNum, Out
  <2> HIDE DEF free, b, t
  <2>2. AllocBlockNum(s).s = s /\ AllocBlockNum(s).r = ERROR
    BY <2>1
  <2> QED BY <2>2, GrowsItself DEF SamePlace
<1>2. CASE free # {}
  <2>1. b \in free
    <3>1. free \subseteq Nat
      BY Fields, ConstantFacts DEF Sound
    <3> HIDE DEF free
    <3> QED BY <1>2, <3>1, FirstFree
  <2>2. AllocBlockNum(s) = [s |-> WriteBlock(t, b \div BIT2BLK), r |-> b]
    BY <1>2 DEF AllocBlockNum, Out
  <2> HIDE DEF b
  <2>3. b \in s.free /\ b \in Block /\ b # 0
    <3>1. b \in s.free /\ b >= 3
      BY <2>1
    <3>2. b \in Block /\ b \in Nat
      BY <3>1, Fields, ConstantFacts DEF Sound
    <3> QED BY <3>1, <3>2
  <2> HIDE DEF b, free
  <2>4. t = FreeBlock(s, b)
    BY DEF FreeBlock
  <2> HIDE DEF t
  <2>5. /\ Sound(t) /\ Grows(s, t) /\ SamePlace(s, t)
        /\ t.free = s.free \ {b} /\ t.announced = s.announced
        /\ t.mapped = s.mapped /\ t.status = s.status /\ t.size = s.size /\ t.indirect = s.indirect
    BY <2>3, <2>4, FreeBlockSound
  <2> DEFINE u == WriteBlock(t, b \div BIT2BLK)
  <2>6. BitmapBlock(b) \in Reserved /\ b \div BIT2BLK \in t.mapped /\ Reserved \subseteq s.mapped
    BY <2>3, <2>5, BitmapReserved DEF Sound, CacheSound
  <2>7. /\ Sound(u) /\ Grows(t, u) /\ SameTree(t, u) /\ u.status = t.status
        /\ u.announced \subseteq t.announced /\ u.mapped = t.mapped
    BY <2>5, <2>6, WriteBlockSound
  <2> HIDE DEF u
  <2>8. Grows(s, u) /\ SamePlace(s, u)
    BY <2>5, <2>7, GrowsOn, SamePlaces DEF SamePlace
  <2>9. New(u, b)
    <3>1. b \notin s.mapped /\ b \notin s.announced
      BY <2>3 DEF Sound, CacheSound
    <3>2. b \notin u.free /\ b \notin Reserved /\ b \notin u.announced /\ b \notin u.mapped
      BY <2>5, <2>6, <2>7, <3>1 DEF SameTree
    <3>3. \A p \in Places : Place(u, p) # b
      BY <2>3, <2>8, ConstantFacts DEF SamePlace, Sound, TreeSound
    <3>4. \A f \in AllFiles : Home[f] # b
      BY <2>3 DEF Sound, HomesSound
    <3> QED BY <2>3, <3>2, <3>3, <3>4 DEF New
  <2>10. AllocBlockNum(s).s = u /\ AllocBlockNum(s).r = b
    BY <2>2 DEF u
  <2> QED BY <2>3, <2>5, <2>7, <2>8, <2>9, <2>10 DEF SameTree
<1> QED BY <1>1, <1>2

\* map_block of a new block: the kernel clears the page.
LEMMA MapBlockSound ==
  ASSUME NEW s, Sound(s), NEW b, New(s, b)
  PROVE  LET o == MapBlock(s, b)
         IN  /\ Sound(o.s) /\ Grows(s, o.s) /\ SamePlace(s, o.s)
             /\ o.s.status = s.status /\ o.s.size = s.size /\ o.s.free = s.free
             /\ o.r = ERROR \/ Fresh(o.s, b)
             /\ o.s.indirect = s.indirect
<1>1. CASE s.pages = 0
  <2>1. MapBlock(s, b) = [s |-> s, r |-> ERROR]
    BY <1>1 DEF MapBlock, New, Out
  <2> QED BY <2>1, GrowsItself DEF SamePlace
<1>2. CASE s.pages # 0
  <2> DEFINE t == [s EXCEPT !.mapped = @ \cup {b}, !.pages = @ - 1, !.entry[b] = NoEntries]
  <2>1. MapBlock(s, b) = [s |-> t, r |-> 0]
    BY <1>2 DEF MapBlock, New, Out
  <2>2. s \in State /\ s.pages - 1 \in Nat /\ b \in Block /\ s.entry \in [Block -> Entries]
    BY <1>2, Fields DEF Sound, New
  <2>3. /\ t \in State /\ t.mapped = s.mapped \cup {b} /\ t.entry = [s.entry EXCEPT ![b] = NoEntries]
        /\ t.free = s.free /\ t.announced = s.announced /\ t.dirty = s.dirty /\ t.status = s.status
        /\ t.size = s.size /\ t.direct = s.direct /\ t.indirect = s.indirect /\ t.named = s.named
    BY <2>2, ConstantFacts DEF State
  <2> HIDE DEF t
  <2>4. SamePlace(s, t)
    <3> SUFFICES ASSUME NEW p \in Places PROVE Place(t, p) = Place(s, p)
      BY DEF SamePlace
    <3>1. p[1] \in AllFiles /\ <<p[1], INDIRECT>> \in Places
      BY DEF Places
    <3>2. Place(s, <<p[1], INDIRECT>>) = s.indirect[p[1]]
      BY DEF Place
    <3>3. s.indirect[p[1]] # b /\ s.indirect[p[1]] \in Block
      BY <2>2, <3>1, <3>2, Fields DEF New
    <3>4. t.entry[s.indirect[p[1]]] = s.entry[s.indirect[p[1]]]
      BY <2>2, <2>3, <3>3
    <3> QED BY <2>3, <3>4 DEF Place
  <2>5. CacheSound(t)
    BY <2>3, <2>4, ConstantFacts DEF Sound, CacheSound, SamePlace, New
  <2>6. t.status # "panic"
    BY <2>3 DEF Sound
  <2>7. Sound(t) /\ Grows(s, t)
    BY <2>3, <2>4, <2>5, <2>6, PlacesStep
  <2>8. Fresh(t, b)
    BY <2>2, <2>3, <2>4 DEF Fresh, New, SamePlace
  <2> QED BY <2>1, <2>3, <2>4, <2>7, <2>8
<1> QED BY <1>1, <1>2

\* alloc_block: the block is in memory and clear, or is not used after all.
LEMMA AllocBlockSound ==
  ASSUME NEW s, Sound(s)
  PROVE  LET o == AllocBlock(s)
         IN  /\ Sound(o.s) /\ Grows(s, o.s) /\ SamePlace(s, o.s)
             /\ o.s.status = s.status /\ o.s.size = s.size /\ o.s.indirect = s.indirect
             /\ o.r = ERROR \/ (o.r \in s.free \ o.s.free /\ o.r # 0 /\ Fresh(o.s, o.r))
<1> DEFINE a == AllocBlockNum(s)
           m == MapBlock(a.s, a.r)
<1>1. /\ Sound(a.s) /\ Grows(s, a.s) /\ SamePlace(s, a.s)
      /\ a.s.status = s.status /\ a.s.size = s.size /\ a.s.indirect = s.indirect
      /\ a.r = ERROR \/ (a.r \in s.free \ {0} /\ New(a.s, a.r))
  BY AllocBlockNumSound
<1>2. AllocBlock(s) = IF a.r = ERROR THEN a
                      ELSE IF m.r = ERROR THEN [s |-> FreeBlock(m.s, a.r), r |-> ERROR]
                      ELSE [s |-> m.s, r |-> a.r]
  BY DEF AllocBlock, Then, Out
<1> HIDE DEF a
<1>3. CASE a.r = ERROR
  BY <1>1, <1>2, <1>3
<1>4. CASE a.r # ERROR
  <2>1. /\ Sound(m.s) /\ Grows(a.s, m.s) /\ SamePlace(a.s, m.s)
        /\ m.s.status = a.s.status /\ m.s.size = a.s.size /\ m.s.free = a.s.free
        /\ m.r = ERROR \/ Fresh(m.s, a.r)
        /\ m.s.indirect = a.s.indirect
    BY <1>1, <1>4, MapBlockSound
  <2> HIDE DEF m
  <2>2. Grows(s, m.s) /\ SamePlace(s, m.s)
    BY <1>1, <2>1, GrowsOn DEF SamePlace
  <2>3. CASE m.r = ERROR
    <3> DEFINE t == FreeBlock(m.s, a.r)
    <3>1. a.r \in Block
      BY <1>1, <1>4 DEF New
    <3>2. /\ Sound(t) /\ Grows(m.s, t) /\ SamePlace(m.s, t) /\ t.status = m.s.status
          /\ t.size = m.s.size /\ t.indirect = m.s.indirect
      BY <2>1, <3>1, FreeBlockSound
    <3> HIDE DEF t
    <3>3. Grows(s, t) /\ SamePlace(s, t)
      BY <2>2, <3>2, GrowsOn DEF SamePlace
    <3>4. AllocBlock(s).s = t /\ AllocBlock(s).r = ERROR
      BY <1>2, <1>4, <2>3 DEF t
    <3> QED BY <1>1, <2>1, <3>2, <3>3, <3>4
  <2>4. CASE m.r # ERROR
    <3>1. AllocBlock(s).s = m.s /\ AllocBlock(s).r = a.r
      BY <1>2, <1>4, <2>4
    <3>2. a.r \notin m.s.free /\ a.r \in s.free /\ a.r # 0
      BY <1>1, <1>4, <2>1 DEF New
    <3> QED BY <1>1, <2>1, <2>2, <2>4, <3>1, <3>2
  <2> QED BY <2>3, <2>4
<1> QED BY <1>3, <1>4

-----------------------------------------------------------------------------
(* Pointers                                                                *)

\* The cache and the bitmap stay.
SameCache(s, t) ==
    /\ t.free = s.free /\ t.mapped = s.mapped /\ t.dirty = s.dirty /\ t.announced = s.announced
    /\ t.status = s.status /\ t.named = s.named

\* Some places lose their block, and one place gets a fresh one.
LEMMA PointersStep ==
  ASSUME NEW s, NEW t \in State, Sound(s), SameCache(s, t), NEW q, NEW b, b = 0 \/ Fresh(s, b),
         \A p \in Places : Place(t, p) \in {0, Place(s, p)} \/ (p = q /\ Place(t, p) = b)
  PROVE  Sound(t)
<1>1. TreeSound(t)
  BY DEF Sound, TreeSound, SameCache, Fresh
<1>2. HomesSound(t)
  BY ConstantFacts DEF Sound, HomesSound, SameCache, Fresh
<1>3. CacheSound(t)
  BY ConstantFacts DEF Sound, CacheSound, SameCache, Fresh
<1> QED BY <1>1, <1>2, <1>3 DEF Sound, SameCache

\* *ppdiskbno = b
LEMMA SetPointerSound ==
  ASSUME NEW s, Sound(s), NEW f \in AllFiles, NEW n \in FileBno, NEW b, b = 0 \/ Fresh(s, b),
         n < NDIRECT \/ s.indirect[f] # 0
  PROVE  LET t == SetPointer(s, f, n, b)
         IN  /\ Sound(t) /\ t.free = s.free /\ t.status = s.status /\ t.named = s.named
             /\ t.mapped = s.mapped /\ t.indirect = s.indirect /\ t.size = s.size
             /\ \A p \in Places : Place(t, p) = IF p = <<f, n>> THEN b ELSE Place(s, p)
<1>1. /\ s \in State /\ b \in Block /\ n \in Nat /\ n # INDIRECT /\ n < NINDIRECT
      /\ s.direct \in [AllFiles -> [0 .. NDIRECT - 1 -> Block]]
      /\ s.entry \in [Block -> Entries] /\ s.indirect \in [AllFiles -> Block]
  BY Fields, ConstantFacts DEF Sound, Fresh, FileBno
<1>2. CASE n < NDIRECT
  <2> DEFINE t == [s EXCEPT !.direct[f][n] = b]
  <2>1. n \in 0 .. NDIRECT - 1
    BY <1>1, <1>2, ConstantFacts
  <2>2. /\ t \in State /\ SameCache(s, t) /\ t.indirect = s.indirect /\ t.size = s.size
        /\ t.entry = s.entry
        /\ t.direct = [s.direct EXCEPT ![f] = [s.direct[f] EXCEPT ![n] = b]]
    BY <1>1, <2>1 DEF State, SameCache
  <2>3. SetPointer(s, f, n, b) = Owe(t, Home[f])
    BY <1>2 DEF SetPointer
  <2> HIDE DEF t
  <2>4. ASSUME NEW p \in Places
        PROVE  Place(t, p) = IF p = <<f, n>> THEN b ELSE Place(s, p)
    <3>1. PICK g \in AllFiles, i \in FileBno \cup {INDIRECT} : p = <<g, i>>
      BY DEF Places
    <3>2. t.direct[g] = IF g = f THEN [s.direct[f] EXCEPT ![n] = b] ELSE s.direct[g]
      BY <1>1, <2>2
    <3>3. CASE i = INDIRECT \/ ~ (i < NDIRECT)
      BY <1>1, <1>2, <2>2, <3>1, <3>3 DEF Place
    <3>4. CASE i # INDIRECT /\ i < NDIRECT
      <4>1. i \in 0 .. NDIRECT - 1
        BY <3>1, <3>4, ConstantFacts
      <4>2. s.direct[f] \in [0 .. NDIRECT - 1 -> Block]
        BY <1>1
      <4>3. t.direct[g][i] = IF g = f /\ i = n THEN b ELSE s.direct[g][i]
        BY <3>2, <4>1, <4>2
      <4> QED BY <3>1, <3>4, <4>3 DEF Place
    <3> QED BY <3>3, <3>4
  <2>5. Sound(t)
    BY <2>2, <2>4, PointersStep
  <2>6. /\ Home[f] \in Block /\ Home[f] # 0 /\ Home[f] \notin t.free
        /\ \A p \in DataPlaces : Place(t, p) # Home[f]
    BY <2>5 DEF Sound, HomesSound
  <2>7. /\ Sound(Owe(t, Home[f])) /\ SameTree(t, Owe(t, Home[f]))
        /\ Owe(t, Home[f]).mapped = t.mapped /\ Owe(t, Home[f]).status = t.status
    BY <2>5, <2>6, OweSound
  <2>8. \A p : Place(Owe(t, Home[f]), p) = Place(t, p)
    BY <2>7, SamePlaces
  <2> QED BY <2>2, <2>3, <2>4, <2>7, <2>8 DEF SameTree, SameCache
<1>3. CASE ~ (n < NDIRECT)
  <2> DEFINE x == s.indirect[f]
             t == [s EXCEPT !.entry[x][n] = b]
  <2>1. n \in NDIRECT .. NINDIRECT - 1 /\ x \in Block /\ x # 0
    BY <1>1, <1>3, ConstantFacts
  <2>2. /\ t \in State /\ SameCache(s, t) /\ t.indirect = s.indirect /\ t.size = s.size
        /\ t.direct = s.direct
        /\ t.entry = [s.entry EXCEPT ![x] = [s.entry[x] EXCEPT ![n] = b]]
    BY <1>1, <2>1 DEF State, SameCache, Entries
  <2>3. SetPointer(s, f, n, b) = Owe(t, x)
    BY <1>3 DEF SetPointer
  <2> HIDE DEF t
  <2>4. ASSUME NEW p \in Places
        PROVE  Place(t, p) = IF p = <<f, n>> THEN b ELSE Place(s, p)
    <3>1. PICK g \in AllFiles, i \in FileBno \cup {INDIRECT} : p = <<g, i>>
      BY DEF Places
    <3>2. CASE i = INDIRECT \/ i < NDIRECT \/ s.indirect[g] = 0
      BY <1>1, <1>3, <2>1, <2>2, <3>1, <3>2 DEF Place
    <3>3. CASE i # INDIRECT /\ ~ (i < NDIRECT) /\ s.indirect[g] # 0
      <4>1. i \in NDIRECT .. NINDIRECT - 1
        BY <3>1, <3>3, ConstantFacts DEF FileBno
      <4>2. s.entry[x] \in [NDIRECT .. NINDIRECT - 1 -> Block] /\ s.indirect[g] \in Block
        BY <1>1, <2>1 DEF Entries
      <4>3. t.entry[s.indirect[g]][i] =
               IF s.indirect[g] = x /\ i = n THEN b ELSE s.entry[s.indirect[g]][i]
        <5> HIDE DEF x
        <5>1. t.entry[s.indirect[g]] = IF s.indirect[g] = x THEN [s.entry[x] EXCEPT ![n] = b]
                                       ELSE s.entry[s.indirect[g]]
          BY <1>1, <2>1, <2>2, <4>2
        <5>2. [s.entry[x] EXCEPT ![n] = b][i] = IF i = n THEN b ELSE s.entry[x][i]
          BY <4>1, <4>2
        <5> QED BY <5>1, <5>2
      <4>4. s.indirect[g] = x => g = f
        <5>1. /\ <<g, INDIRECT>> \in Places /\ Place(s, <<g, INDIRECT>>) = s.indirect[g]
              /\ <<f, INDIRECT>> \in Places /\ Place(s, <<f, INDIRECT>>) = x
          BY DEF Places, Place
        <5> QED BY <2>1, <5>1 DEF Sound, TreeSound
      <4> QED BY <2>2, <3>1, <3>3, <4>3, <4>4 DEF Place
    <3> QED BY <3>2, <3>3
  <2>5. Sound(t)
    BY <2>2, <2>4, PointersStep
  <2>6. /\ <<f, INDIRECT>> \in Places /\ Place(t, <<f, INDIRECT>>) = x
        /\ \A p \in DataPlaces : p \in Places /\ p # <<f, INDIRECT>>
    BY <2>2, ConstantFacts DEF Places, Place, DataPlaces
  <2>7. x \notin t.free /\ \A p \in DataPlaces : Place(t, p) # x
    BY <2>1, <2>5, <2>6 DEF Sound, TreeSound
  <2>8. /\ Sound(Owe(t, x)) /\ SameTree(t, Owe(t, x))
        /\ Owe(t, x).mapped = t.mapped /\ Owe(t, x).status = t.status
    BY <2>1, <2>5, <2>7, OweSound
  <2>9. \A p : Place(Owe(t, x), p) = Place(t, p)
    BY <2>8, SamePlaces
  <2> HIDE DEF x
  <2> QED BY <2>2, <2>3, <2>4, <2>8, <2>9 DEF SameTree, SameCache
<1> QED BY <1>2, <1>3

\* Assignments to f_indirect and f_size
IndirectTo(s, f, b) == [s EXCEPT !.indirect[f] = b]
SizeTo(s, f, size)  == [s EXCEPT !.size[f] = size]

\* f_indirect = b, a clear block: there is nothing behind it.
LEMMA SetIndirectSound ==
  ASSUME NEW s, Sound(s), NEW f \in AllFiles, NEW b, b # 0, Fresh(s, b), s.indirect[f] = 0,
         NEW u, u = Owe(IndirectTo(s, f, b), Home[f])
  PROVE  /\ Sound(u) /\ u.free = s.free /\ u.status = s.status /\ u.named = s.named
         /\ u.mapped = s.mapped /\ u.indirect[f] = b /\ u.size = s.size
         /\ \A p \in Places : Place(u, p) = IF p = <<f, INDIRECT>> THEN b ELSE Place(s, p)
<1> DEFINE t == [s EXCEPT !.indirect[f] = b]
<1>1. /\ s \in State /\ b \in Block /\ s.indirect \in [AllFiles -> Block]
      /\ s.entry[b] = NoEntries
  BY Fields DEF Sound, Fresh
<1>2. /\ t \in State /\ SameCache(s, t) /\ t.size = s.size /\ t.direct = s.direct
      /\ t.entry = s.entry /\ t.indirect = [s.indirect EXCEPT ![f] = b]
  BY <1>1 DEF State, SameCache
<1> HIDE DEF t
<1>3. ASSUME NEW p \in Places
      PROVE  Place(t, p) = IF p = <<f, INDIRECT>> THEN b ELSE Place(s, p)
  <2>1. PICK g \in AllFiles, i \in FileBno \cup {INDIRECT} : p = <<g, i>>
    BY DEF Places
  <2>2. CASE g # f \/ i = INDIRECT \/ i < NDIRECT
    BY <1>1, <1>2, <2>1, <2>2 DEF Place
  <2>3. CASE g = f /\ i # INDIRECT /\ ~ (i < NDIRECT)
    <3>1. i \in NDIRECT .. NINDIRECT - 1
      BY <2>1, <2>3, ConstantFacts DEF FileBno
    <3>2. t.indirect[f] = b /\ t.entry[b][i] = 0
      BY <1>1, <1>2, <3>1, ConstantFacts
    <3> QED BY <2>1, <2>3, <3>2 DEF Place
  <2> QED BY <2>2, <2>3
<1>4. Sound(t)
  BY <1>2, <1>3, PointersStep
<1>5. /\ Home[f] \in Block /\ Home[f] # 0 /\ Home[f] \notin t.free
      /\ \A p \in DataPlaces : Place(t, p) # Home[f]
  BY <1>4 DEF Sound, HomesSound
<1>8. u = Owe(t, Home[f])
  BY DEF t, IndirectTo
<1>6. Sound(u) /\ SameTree(t, u) /\ u.mapped = t.mapped /\ u.status = t.status
  BY <1>4, <1>5, <1>8, OweSound
<1>7. \A p : Place(u, p) = Place(t, p)
  BY <1>6, SamePlaces
<1>9. t.indirect[f] = b
  BY <1>1, <1>2
<1> QED BY <1>2, <1>3, <1>6, <1>7, <1>9 DEF SameTree, SameCache

\* f_indirect = 0
LEMMA DropIndirectSound ==
  ASSUME NEW s, Sound(s), NEW f \in AllFiles
  PROVE  LET t == IndirectTo(s, f, 0) IN Sound(t) /\ Grows(s, t) /\ t.size = s.size
<1> DEFINE t == [s EXCEPT !.indirect[f] = 0]
<1>1. s \in State /\ s.indirect \in [AllFiles -> Block]
  BY Fields DEF Sound
<1>2. /\ t \in State /\ SameCache(s, t) /\ t.size = s.size /\ t.direct = s.direct
      /\ t.entry = s.entry /\ t.indirect = [s.indirect EXCEPT ![f] = 0]
  BY <1>1, ConstantFacts DEF State, SameCache
<1> HIDE DEF t
<1>3. ASSUME NEW p \in Places PROVE Place(t, p) \in {0, Place(s, p)}
  <2>1. PICK g \in AllFiles, i \in FileBno \cup {INDIRECT} : p = <<g, i>>
    BY DEF Places
  <2> QED BY <1>1, <1>2, <2>1 DEF Place
<1>4. Sound(t)
  BY <1>2, <1>3, PointersStep
<1>5. Grows(s, t)
  BY <1>2, <1>3 DEF Grows, SameCache
<1> QED BY <1>2, <1>4, <1>5 DEF t, IndirectTo

\* The size of f
LEMMA SetSizeSound ==
  ASSUME NEW s, Sound(s), NEW f \in AllFiles, NEW size \in Nat
  PROVE  LET t == Owe(SizeTo(s, f, size), Home[f]) IN Sound(t) /\ Grows(s, t)
<1> DEFINE t == [s EXCEPT !.size[f] = size]
           u == Owe(t, Home[f])
<1>1. s \in State /\ s.size \in [AllFiles -> Nat]
  BY Fields DEF Sound
<1>2. /\ t \in State /\ SameCache(s, t) /\ t.direct = s.direct
      /\ t.entry = s.entry /\ t.indirect = s.indirect
  BY <1>1 DEF State, SameCache
<1>3. u = Owe(SizeTo(s, f, size), Home[f])
  BY DEF SizeTo
<1> HIDE DEF t
<1>4. \A p \in Places : Place(t, p) = Place(s, p)
  BY <1>2 DEF Place
<1>5. Sound(t)
  BY <1>2, <1>4, PointersStep
<1>6. Grows(s, t)
  BY <1>2, <1>4 DEF Grows, SameCache
<1>7. /\ Home[f] \in Block /\ Home[f] # 0 /\ Home[f] \notin t.free
      /\ \A p \in DataPlaces : Place(t, p) # Home[f]
  BY <1>5 DEF Sound, HomesSound
<1>8. Sound(u) /\ Grows(t, u)
  BY <1>5, <1>7, OweSound
<1> HIDE DEF u
<1> QED BY <1>3, <1>6, <1>8, GrowsOn

\* A place gets a block that was free.
LEMMA GrowsSet ==
  ASSUME NEW s, NEW a, NEW t, Grows(s, a), NEW b, b = 0 \/ b \in s.free \ a.free,
         t.free = a.free, t.named = a.named, t.status = a.status,
         \A p \in Places : Place(t, p) \in {b, Place(a, p)}
  PROVE  Grows(s, t)
BY DEF Grows

-----------------------------------------------------------------------------
(* Blocks of files                                                         *)

\* A block at a place is one that can be read.
LEMMA UsedBlock ==
  ASSUME NEW s, Sound(s), NEW p \in Places, Place(s, p) # 0
  PROVE  Place(s, p) \in Block /\ Place(s, p) \notin s.free
BY PlaceType DEF Sound, TreeSound

\* Only the cache has changed, and nothing in it is newly announced.
Reads(s, t) ==
    SameTree(s, t) /\ t.announced = s.announced /\ t.dirty = s.dirty /\ s.mapped \subseteq t.mapped

\* file_block_walk
LEMMA FileBlockWalkSound ==
  ASSUME NEW s, Sound(s), NEW f \in AllFiles, NEW n \in Nat, NEW alloc \in BOOLEAN
  PROVE  LET o == FileBlockWalk(s, f, n, alloc)
         IN  /\ Sound(o.s) /\ Grows(s, o.s) /\ o.s.size = s.size
             /\ o.r \in {0, ERROR}
             /\ o.r = 0 => n \in FileBno /\ (n < NDIRECT \/ o.s.indirect[f] # 0)
             /\ ~ alloc => Reads(s, o.s)
<1> DEFINE o == FileBlockWalk(s, f, n, alloc)
<1>1. CASE n < NDIRECT \/ n >= NINDIRECT \/ (s.indirect[f] = 0 /\ ~ alloc)
  <2>1. o.s = s /\ o.r = IF n < NDIRECT THEN 0 ELSE ERROR
    BY <1>1, ConstantFacts DEF FileBlockWalk, Out
  <2>2. n < NDIRECT => n \in FileBno
    BY ConstantFacts DEF FileBno
  <2> HIDE DEF o
  <2>3. Sound(o.s) /\ Grows(s, o.s) /\ o.s.size = s.size /\ Reads(s, o.s)
    BY <2>1, GrowsItself DEF Reads, SameTree
  <2> QED BY <2>1, <2>2, <2>3, ConstantFacts DEF o
<1>2. CASE ~ (n < NDIRECT) /\ ~ (n >= NINDIRECT) /\ s.indirect[f] # 0
  <2> DEFINE t == ReadBlock(s, s.indirect[f])
  <2>1. o = [s |-> t, r |-> 0]
    BY <1>2 DEF FileBlockWalk, Out
  <2>2. <<f, INDIRECT>> \in Places /\ Place(s, <<f, INDIRECT>>) = s.indirect[f]
    BY DEF Places, Place
  <2>3. s.indirect[f] \in Block /\ s.indirect[f] \notin s.free
    BY <1>2, <2>2, UsedBlock
  <2>4. Sound(t) /\ Grows(s, t) /\ SameTree(s, t) /\ Reads(s, t)
    BY <2>3, ReadBlockSound DEF Reads
  <2> HIDE DEF t
  <2>5. n \in FileBno
    BY <1>2, ConstantFacts DEF FileBno
  <2> QED BY <1>2, <2>1, <2>4, <2>5 DEF SameTree
<1>3. CASE ~ (n < NDIRECT) /\ ~ (n >= NINDIRECT) /\ s.indirect[f] = 0 /\ alloc
  <2> DEFINE a == AllocBlock(s)
             t == Owe([a.s EXCEPT !.indirect[f] = a.r], Home[f])
             u == ReadBlock(t, a.r)
  <2>1. o = IF a.r = ERROR THEN a ELSE [s |-> u, r |-> 0]
    BY <1>3 DEF FileBlockWalk, Out, Then
  <2>2. /\ Sound(a.s) /\ Grows(s, a.s) /\ SamePlace(s, a.s)
        /\ a.s.status = s.status /\ a.s.size = s.size /\ a.s.indirect = s.indirect
        /\ a.r = ERROR \/ (a.r \in s.free \ a.s.free /\ a.r # 0 /\ Fresh(a.s, a.r))
    BY AllocBlockSound
  <2> HIDE DEF a
  <2>3. CASE a.r = ERROR
    BY <1>3, <2>1, <2>2, <2>3, ConstantFacts
  <2>4. CASE a.r # ERROR
    <3>1. /\ Sound(t) /\ t.free = a.s.free /\ t.status = a.s.status /\ t.named = a.s.named
          /\ t.indirect[f] = a.r /\ t.size = a.s.size
          /\ \A p \in Places : Place(t, p) = IF p = <<f, INDIRECT>> THEN a.r ELSE Place(a.s, p)
      <4>1. Sound(a.s) /\ a.r # 0 /\ Fresh(a.s, a.r) /\ a.s.indirect[f] = 0
        BY <1>3, <2>2, <2>4
      <4>2. t = Owe(IndirectTo(a.s, f, a.r), Home[f])
        BY DEF IndirectTo
      <4> HIDE DEF t
      <4> QED BY <4>1, <4>2, SetIndirectSound
    <3> HIDE DEF t
    <3>2. Grows(s, t)
      BY <2>2, <2>4, <3>1, GrowsSet
    <3>3. a.r \in Block /\ a.r \notin t.free
      BY <2>2, <2>4, <3>1 DEF Fresh
    <3>4. Sound(u) /\ Grows(t, u) /\ SameTree(t, u)
      BY <3>1, <3>3, ReadBlockSound
    <3> HIDE DEF u
    <3>5. Grows(s, u) /\ u.size = s.size /\ u.indirect[f] # 0
      BY <2>2, <2>4, <3>1, <3>2, <3>4, GrowsOn DEF SameTree
    <3>6. n \in FileBno
      BY <1>3, ConstantFacts DEF FileBno
    <3>7. o.s = u /\ o.r = 0
      BY <2>1, <2>4
    <3> QED BY <1>3, <3>4, <3>5, <3>6, <3>7
  <2> QED BY <2>3, <2>4
<1> QED BY <1>1, <1>2, <1>3

\* The pointer that file_block_walk finds is the one of the place.
LEMMA PointerIs ==
  ASSUME NEW s, NEW f \in AllFiles, NEW n \in FileBno, n < NDIRECT \/ s.indirect[f] # 0
  PROVE  Pointer(s, f, n) = Place(s, <<f, n>>) /\ <<f, n>> \in Places
BY ConstantFacts DEF Pointer, Place, Places

\* file_map_block
LEMMA FileMapBlockSound ==
  ASSUME NEW s, Sound(s), NEW f \in AllFiles, NEW n \in Nat, NEW alloc \in BOOLEAN
  PROVE  LET o == FileMapBlock(s, f, n, alloc)
         IN  /\ Sound(o.s) /\ Grows(s, o.s) /\ o.s.size = s.size
             /\ o.r # ERROR => /\ n \in FileBno /\ <<f, n>> \in Places
                               /\ o.r = Place(o.s, <<f, n>>) /\ o.r # 0
             /\ ~ alloc => Reads(s, o.s)
             /\ ~ alloc /\ o.r = ERROR /\ n \in FileBno => Place(o.s, <<f, n>>) = 0
<1> DEFINE o == FileMapBlock(s, f, n, alloc)
           w == FileBlockWalk(s, f, n, alloc)
           ptr == Pointer(w.s, f, n)
           a == AllocBlock(w.s)
           t == SetPointer(a.s, f, n, a.r)
<1>1. /\ Sound(w.s) /\ Grows(s, w.s) /\ w.s.size = s.size
      /\ w.r \in {0, ERROR}
      /\ w.r = 0 => n \in FileBno /\ (n < NDIRECT \/ w.s.indirect[f] # 0)
      /\ ~ alloc => Reads(s, w.s)
  BY FileBlockWalkSound
<1>2. o = IF w.r = ERROR THEN w
          ELSE IF ptr # 0 THEN [s |-> w.s, r |-> ptr]
          ELSE IF ~ alloc THEN [s |-> w.s, r |-> ERROR]
          ELSE IF a.r = ERROR THEN a
          ELSE [s |-> t, r |-> a.r]
  BY DEF FileMapBlock, Then, Out
<1>3. CASE w.r = ERROR
  <2>1. n \in FileBno /\ ~ alloc => Place(w.s, <<f, n>>) = 0
    <3> SUFFICES ASSUME n \in FileBno, ~ alloc PROVE Place(w.s, <<f, n>>) = 0
      OBVIOUS
    <3>1. ~ (n < NDIRECT) /\ ~ (n >= NINDIRECT)
      <4>1. n < NDIRECT => w = [s |-> s, r |-> 0]
        BY DEF FileBlockWalk, Out
      <4> HIDE DEF w
      <4>2. n < NDIRECT => w.r = 0
        BY <4>1
      <4>3. n < NINDIRECT
        BY ConstantFacts DEF FileBno
      <4> QED BY <1>3, <4>2, <4>3, ConstantFacts
    <3>2. s.indirect[f] = 0
      BY <1>3, <3>1, ConstantFacts DEF FileBlockWalk, Out
    <3>3. w.s.indirect[f] = 0
      BY <1>1, <3>2 DEF Reads, SameTree
    <3>4. n # INDIRECT
      BY ConstantFacts
    <3> HIDE DEF w
    <3> QED BY <3>1, <3>3, <3>4 DEF Place
  <2> HIDE DEF w, ptr, a, t
  <2> QED BY <1>1, <1>2, <1>3, <2>1
<1>4. CASE w.r = 0 /\ ptr # 0
  <2>1. ptr = Place(w.s, <<f, n>>) /\ <<f, n>> \in Places
    BY <1>1, <1>4, PointerIs
  <2>0. ptr \in Block
    <3> HIDE DEF w, ptr
    <3> QED BY <1>1, <2>1, PlaceType DEF Sound
  <2>2. o.s = w.s /\ o.r = ptr
    BY <1>2, <1>4, ConstantFacts
  <2> HIDE DEF w, ptr, o
  <2>3. o.r # ERROR
    BY <2>0, <2>2, ConstantFacts
  <2> QED BY <1>1, <1>4, <2>1, <2>2, <2>3 DEF o
<1>5. CASE w.r = 0 /\ ptr = 0 /\ ~ alloc
  <2>1. ptr = Place(w.s, <<f, n>>)
    BY <1>1, <1>5, PointerIs
  <2>2. o.s = w.s /\ o.r = ERROR
    BY <1>2, <1>5, ConstantFacts
  <2> HIDE DEF w, ptr, o
  <2> QED BY <1>1, <1>5, <2>1, <2>2 DEF o
<1>6. CASE w.r = 0 /\ ptr = 0 /\ alloc
  <2>1. /\ Sound(a.s) /\ Grows(w.s, a.s) /\ SamePlace(w.s, a.s)
        /\ a.s.status = w.s.status /\ a.s.size = w.s.size /\ a.s.indirect = w.s.indirect
        /\ a.r = ERROR \/ (a.r \in w.s.free \ a.s.free /\ a.r # 0 /\ Fresh(a.s, a.r))
    BY <1>1, AllocBlockSound
  <2>2. o = IF a.r = ERROR THEN a ELSE [s |-> t, r |-> a.r]
    BY <1>2, <1>6, ConstantFacts
  <2> HIDE DEF w, a, ptr, o
  <2>3. CASE a.r = ERROR
    <3>1. Grows(s, a.s)
      BY <1>1, <2>1, GrowsOn
    <3> QED BY <1>1, <1>6, <2>1, <2>2, <2>3, <3>1 DEF o
  <2>4. CASE a.r # ERROR
    <3>1. /\ Sound(t) /\ t.free = a.s.free /\ t.status = a.s.status /\ t.named = a.s.named
          /\ t.size = a.s.size
          /\ \A p \in Places : Place(t, p) = IF p = <<f, n>> THEN a.r ELSE Place(a.s, p)
      BY <1>1, <1>6, <2>1, <2>4, SetPointerSound
    <3> HIDE DEF t
    <3>2. a.r \in s.free \ a.s.free /\ Grows(s, a.s)
      BY <1>1, <2>1, <2>4, GrowsOn DEF Grows
    <3>3. Grows(s, t)
      BY <3>1, <3>2, GrowsSet
    <3>4. <<f, n>> \in Places
      BY <1>1, <1>6 DEF Places
    <3>5. o.s = t /\ o.r = a.r
      BY <2>2, <2>4
    <3> QED BY <1>1, <1>6, <2>1, <2>4, <3>1, <3>3, <3>4, <3>5 DEF o
  <2> QED BY <2>3, <2>4
<1>7. w.r = 0 \/ w.r = ERROR
  BY <1>1
<1> HIDE DEF w, ptr, a, t, o
<1> QED BY <1>3, <1>4, <1>5, <1>6, <1>7 DEF o

\* file_get_block
LEMMA FileGetBlockSound ==
  ASSUME NEW s, Sound(s), NEW f \in AllFiles, NEW n \in Nat
  PROVE  LET o == FileGetBlock(s, f, n)
         IN  /\ Sound(o.s) /\ Grows(s, o.s) /\ o.s.size = s.size
             /\ o.r # ERROR => /\ n \in FileBno /\ <<f, n>> \in Places
                               /\ o.r = Place(o.s, <<f, n>>) /\ o.r # 0
                               /\ o.s.status = "ok" => o.r \in o.s.mapped
<1> DEFINE o == FileGetBlock(s, f, n)
           m == FileMapBlock(s, f, n, TRUE)
           t == ReadBlock(m.s, m.r)
<1>1. /\ Sound(m.s) /\ Grows(s, m.s) /\ m.s.size = s.size
      /\ m.r # ERROR => /\ n \in FileBno /\ <<f, n>> \in Places
                        /\ m.r = Place(m.s, <<f, n>>) /\ m.r # 0
  BY FileMapBlockSound
<1>2. o = IF m.r = ERROR THEN m ELSE [s |-> t, r |-> m.r]
  BY DEF FileGetBlock, Then, Out
<1> HIDE DEF m, o
<1>3. CASE m.r = ERROR
  BY <1>1, <1>2, <1>3 DEF o
<1>4. CASE m.r # ERROR
  <2>1. m.r \in Block /\ m.r \notin m.s.free
    BY <1>1, <1>4, UsedBlock
  <2>2. Sound(t) /\ Grows(m.s, t) /\ SameTree(m.s, t) /\ (t.status = "ok" => m.r \in t.mapped)
    BY <1>1, <2>1, ReadBlockSound
  <2> HIDE DEF t
  <2>3. Grows(s, t) /\ t.size = s.size /\ Place(t, <<f, n>>) = Place(m.s, <<f, n>>)
    BY <1>1, <2>2, GrowsOn, SamePlaces DEF SameTree
  <2>4. o.s = t /\ o.r = m.r
    BY <1>2, <1>4
  <2> QED BY <1>1, <1>4, <2>2, <2>3, <2>4 DEF o
<1> QED BY <1>3, <1>4

\* file_clear_block
LEMMA FileClearBlockSound ==
  ASSUME NEW s, Sound(s), NEW f \in AllFiles, NEW n \in Nat
  PROVE  LET t == FileClearBlock(s, f, n) IN Sound(t) /\ Grows(s, t)
<1> DEFINE w == FileBlockWalk(s, f, n, FALSE)
           p == Pointer(w.s, f, n)
           u == FreeBlock(w.s, p)
           t == SetPointer(u, f, n, 0)
<1>1. /\ Sound(w.s) /\ Grows(s, w.s)
      /\ w.r \in {0, ERROR}
      /\ w.r = 0 => n \in FileBno /\ (n < NDIRECT \/ w.s.indirect[f] # 0)
  BY FileBlockWalkSound
<1>2. FileClearBlock(s, f, n) = IF w.r = ERROR \/ p = 0 THEN w.s ELSE t
  BY DEF FileClearBlock, Then, Out
<1>3. CASE w.r = ERROR \/ p = 0
  BY <1>1, <1>2, <1>3
<1>4. CASE ~ (w.r = ERROR \/ p = 0)
  <2>1. p = Place(w.s, <<f, n>>) /\ <<f, n>> \in Places /\ n \in FileBno
    BY <1>1, <1>4, PointerIs
  <2>2. w.r = 0 /\ Sound(w.s) /\ w.s \in State
    BY <1>1, <1>4 DEF Sound
  <2> HIDE DEF w
  <2>3. p \in Block
    BY <2>1, <2>2, PlaceType
  <2> HIDE DEF p
  <2>4. /\ Sound(u) /\ Grows(w.s, u) /\ SamePlace(w.s, u) /\ u.indirect = w.s.indirect
    BY <2>2, <2>3, FreeBlockSound
  <2> HIDE DEF u
  <2>5. /\ Sound(t) /\ t.free = u.free /\ t.status = u.status /\ t.named = u.named
        /\ \A q \in Places : Place(t, q) = IF q = <<f, n>> THEN 0 ELSE Place(u, q)
    BY <1>1, <2>1, <2>2, <2>4, SetPointerSound
  <2> HIDE DEF t
  <2>6. Grows(u, t)
    BY <2>5 DEF Grows
  <2>7. Grows(s, t)
    BY <1>1, <2>4, <2>6, GrowsOn
  <2> QED BY <1>2, <1>4, <2>5, <2>7
<1> QED BY <1>3, <1>4

\* file_dirty: what a client announces is dirty, if it is in memory.
LEMMA FileDirtySound ==
  ASSUME NEW s, Sound(s), NEW f \in AllFiles, NEW n \in Nat
  PROVE  LET t == FileDirty(s, f, n) IN Sound(t) /\ Grows(s, t)
<1> DEFINE g == FileGetBlock(s, f, n)
           t == [g.s EXCEPT !.dirty = @ \cup {g.r}, !.announced = @ \cup {g.r},
                             !.owed = @ \cup {g.r}]
<1>1. /\ Sound(g.s) /\ Grows(s, g.s)
      /\ g.r # ERROR => /\ n \in FileBno /\ <<f, n>> \in Places
                        /\ g.r = Place(g.s, <<f, n>>) /\ g.r # 0
                        /\ g.s.status = "ok" => g.r \in g.s.mapped
  BY FileGetBlockSound
<1>2. CASE g.r = ERROR
  BY <1>1, <1>2 DEF FileDirty, Then
<1>3. CASE g.r # ERROR
  <2>1. FileDirty(s, f, n) = Owe([g.s EXCEPT !.dirty = @ \cup {g.r},
                                           !.announced = @ \cup {g.r}], g.r)
    BY <1>3 DEF FileDirty, Then, Out
  <2> HIDE DEF g
  <2>2. g.s \in State /\ g.r \in Block /\ g.r \notin g.s.free
    BY <1>1, <1>3, UsedBlock DEF Sound
  <2>3. FileDirty(s, f, n) = t
    BY <2>1, <2>2 DEF Owe, State
  <2>4. /\ t \in State /\ SameTree(g.s, t) /\ t.status = g.s.status /\ t.mapped = g.s.mapped
        /\ t.dirty = g.s.dirty \cup {g.r} /\ t.announced = g.s.announced \cup {g.r}
    BY <2>2 DEF State, SameTree
  <2> HIDE DEF t
  <2>5. \A p : Place(t, p) = Place(g.s, p)
    BY <2>4, SamePlaces
  <2>6. CacheSound(t)
    BY <1>1, <1>3, <2>2, <2>4, <2>5 DEF Sound, CacheSound, SameTree
  <2>7. Sound(t) /\ Grows(g.s, t)
    BY <1>1, <2>4, <2>6, CacheStep DEF Sound
  <2> QED BY <1>1, <2>3, <2>7, GrowsOn
<1> QED BY <1>2, <1>3

\* The body of the loop of file_flush: block n of f is saved, if f is a file
\* and its blocks can be read.
LEMMA FlushBlockSound ==
  ASSUME NEW s, Sound(s), NEW f \in AllFiles, NEW n \in Nat
  PROVE  LET t == FlushBlock(s, f, n)
         IN  /\ Sound(t) /\ Grows(s, t) /\ SameTree(s, t) /\ t.announced \subseteq s.announced
             /\ f \in File /\ n \in FileBno /\ t.status = "ok" => Place(t, <<f, n>>) \notin t.announced
<1> DEFINE m == FileMapBlock(s, f, n, FALSE)
           t == WriteDirty(m.s, m.r)
<1>1. /\ Sound(m.s) /\ Grows(s, m.s)
      /\ m.r # ERROR => m.r = Place(m.s, <<f, n>>)
      /\ Reads(s, m.s)
      /\ m.r = ERROR /\ n \in FileBno => Place(m.s, <<f, n>>) = 0
  BY FileMapBlockSound
<1>2. FlushBlock(s, f, n) = IF m.r = ERROR THEN m.s ELSE t
  BY DEF FlushBlock, Then, Out
<1> HIDE DEF m
<1>3. CASE m.r = ERROR
  BY <1>1, <1>2, <1>3 DEF Reads, Sound, CacheSound
<1>4. CASE m.r # ERROR
  <2>1. /\ Sound(t) /\ Grows(m.s, t) /\ SameTree(m.s, t) /\ t.announced \subseteq m.s.announced
        /\ m.r \notin t.dirty \cap t.mapped
    BY <1>1, WriteDirtySound
  <2> HIDE DEF t
  <2>2. Grows(s, t) /\ SameTree(s, t) /\ t.announced \subseteq s.announced
    BY <1>1, <2>1, GrowsOn DEF Reads, SameTree
  <2>3. ASSUME f \in File, n \in FileBno, t.status = "ok" PROVE Place(t, <<f, n>>) \notin t.announced
    <3>1. Place(t, <<f, n>>) = m.r /\ <<f, n>> \in DataPlaces
      BY <1>1, <1>4, <2>1, <2>3, SamePlaces DEF DataPlaces
    <3> QED BY <2>1, <2>3, <3>1 DEF Sound, CacheSound
  <2> QED BY <1>2, <1>4, <2>1, <2>2, <2>3
<1> QED BY <1>3, <1>4

-----------------------------------------------------------------------------
(* Files                                                                   *)

\* file_flush: every block of a regular file is saved, if all can be read.
LEMMA FileFlushSound ==
  ASSUME NEW s, Sound(s), NEW f \in AllFiles
  PROVE  LET t == FileFlush(s, f)
         IN  /\ Sound(t) /\ Grows(s, t) /\ SameTree(s, t) /\ t.announced \subseteq s.announced
             /\ f \in File /\ t.status = "ok" =>
                  \A n \in FileBno : n < NBlock(s.size[f]) => Place(t, <<f, n>>) \notin t.announced
<1> DEFINE k == NBlock(s.size[f])
           W == {x \in State : Sound(x) /\ Grows(s, x) /\ SameTree(s, x) /\ x.announced \subseteq s.announced}
<1>1. k \in Nat
  <2>1. s.size[f] \in Nat /\ BY2BLK \in Nat \ {0}
    BY Fields, ConstantFacts DEF Sound
  <2> QED BY <2>1 DEF NBlock
<1>2. s \in W
  BY GrowsItself DEF Sound, SameTree
<1>3. \A x \in W, n \in Nat : FlushBlock(x, f, n) \in W
  <2> SUFFICES ASSUME NEW x \in W, NEW n \in Nat PROVE FlushBlock(x, f, n) \in W
    OBVIOUS
  <2> DEFINE t == FlushBlock(x, f, n)
  <2>1. Sound(t) /\ Grows(x, t) /\ SameTree(x, t) /\ t.announced \subseteq x.announced
    BY FlushBlockSound
  <2> HIDE DEF t
  <2>2. Grows(s, t) /\ SameTree(s, t) /\ t.announced \subseteq s.announced /\ t \in State
    BY <2>1, GrowsOn DEF SameTree, Sound
  <2>3. t \in W
    BY <2>1, <2>2
  <2> QED BY <2>3 DEF t
<1>4. PICK at \in [0 .. k -> W] : FlushSteps(at, s, f, k)
  <2> HIDE DEF W
  <2> QED BY <1>1, <1>2, <1>3, FlushLoop
<1> HIDE DEF k
<1>5. at[k] \in W
  BY <1>1
<1>6. ASSUME f \in File, NEW n \in FileBno, n < k, at[k].status = "ok"
      PROVE  Place(s, <<f, n>>) \notin at[k].announced
  <2> DEFINE P == {i \in 0 .. k : i > n /\ at[i].status = "ok" => Place(s, <<f, n>>) \notin at[i].announced}
  <2>1. n \in Nat
    BY ConstantFacts
  <2>2. 0 \in P
    BY <1>1, <2>1
  <2>3. ASSUME NEW i \in 0 .. k - 1, i \in P PROVE i + 1 \in P
    <3>1. i \in Nat /\ i \in 0 .. k /\ i + 1 \in 0 .. k
      BY <1>1
    <3>2. at[i] \in W
      BY <3>1
    <3>3. /\ Grows(at[i], at[i + 1]) /\ SameTree(s, at[i]) /\ SameTree(at[i], at[i + 1])
          /\ at[i + 1].announced \subseteq at[i].announced
          /\ i \in FileBno /\ at[i + 1].status = "ok" =>
               Place(at[i + 1], <<f, i>>) \notin at[i + 1].announced
      <4> DEFINE t == FlushBlock(at[i], f, i)
      <4>1. /\ Grows(at[i], t) /\ SameTree(at[i], t) /\ t.announced \subseteq at[i].announced
            /\ i \in FileBno /\ t.status = "ok" => Place(t, <<f, i>>) \notin t.announced
        BY <1>6, <3>1, <3>2, FlushBlockSound
      <4> HIDE DEF t
      <4>2. t = at[i + 1]
        BY <1>4 DEF t, FlushSteps
      <4> QED BY <3>2, <4>1, <4>2
    <3>4. Place(at[i + 1], <<f, i>>) = Place(s, <<f, i>>)
      BY <3>3, SamePlaces
    <3>5. ASSUME i + 1 > n, at[i + 1].status = "ok" PROVE Place(s, <<f, n>>) \notin at[i + 1].announced
      <4>1. CASE i > n
        BY <2>3, <3>3, <3>5, <4>1 DEF Grows
      <4>2. CASE i = n
        BY <3>3, <3>4, <3>5, <4>2
      <4> QED BY <2>1, <3>1, <3>5, <4>1, <4>2
    <3> QED BY <3>1, <3>5
  <2>4. k \in P
    <3> HIDE DEF P
    <3>1. k \in Nat /\ \A i \in 0 .. k - 1 : i \in P => i + 1 \in P
      BY <1>1, <2>3
    <3>2. \A i \in 0 .. k : i \in P
      BY <2>2, <3>1, UpTo
    <3>3. k \in 0 .. k
      BY <3>1
    <3> QED BY <3>2, <3>3
  <2> QED BY <1>6, <2>4
<1>7. \A n : Place(at[k], <<f, n>>) = Place(s, <<f, n>>)
  BY <1>5, SamePlaces
<1> HIDE DEF W
<1>8. /\ Sound(at[k]) /\ Grows(s, at[k]) /\ SameTree(s, at[k]) /\ at[k].announced \subseteq s.announced
      /\ f \in File /\ at[k].status = "ok" =>
           \A n \in FileBno : n < k => Place(at[k], <<f, n>>) \notin at[k].announced
  BY <1>5, <1>6, <1>7 DEF W
<1> QED BY <1>4, <1>8 DEF k, FlushSteps

\* file_truncate, in its loops
LEMMA ClearBlocksSound ==
  ASSUME NEW s, Sound(s), NEW f \in AllFiles, NEW m \in Nat, NEW n \in Nat
  PROVE  LET t == ClearBlocks(s, f, m, n) IN Sound(t) /\ Grows(s, t)
<1> DEFINE k == IF n > m THEN n - m ELSE 0
           W == {x \in State : Sound(x) /\ Grows(s, x)}
<1>1. k \in Nat
  OBVIOUS
<1>2. s \in W
  BY GrowsItself DEF Sound
<1>3. \A x \in W, i \in Nat : FileClearBlock(x, f, i) \in W
  <2> SUFFICES ASSUME NEW x \in W, NEW i \in Nat PROVE FileClearBlock(x, f, i) \in W
    OBVIOUS
  <2> DEFINE t == FileClearBlock(x, f, i)
  <2>1. Sound(t) /\ Grows(x, t)
    BY FileClearBlockSound
  <2> HIDE DEF t
  <2>2. t \in W
    BY <2>1, GrowsOn DEF Sound
  <2> QED BY <2>2 DEF t
<1>4. PICK at \in [0 .. k -> W] : ClearSteps(at, s, f, m, n, k)
  <2> HIDE DEF W
  <2> QED BY <1>1, <1>2, <1>3, ClearLoop
<1> HIDE DEF k
<1>5. at[k] \in W
  BY <1>1
<1> HIDE DEF W
<1>6. ClearBlocks(s, f, m, n) \in W
  BY <1>4, <1>5 DEF ClearSteps
<1> QED BY <1>6 DEF W

\* file_truncate
LEMMA FileTruncateSound ==
  ASSUME NEW s, Sound(s), NEW f \in AllFiles, NEW size \in Nat
  PROVE  LET t == FileTruncate(s, f, size) IN Sound(t) /\ Grows(s, t)
<1> DEFINE new == IF size = 0 THEN 0 ELSE NBlock(size)
           old == NBlock(s.size[f])
           t == IF new <= NDIRECT THEN IndirectTo(s, f, 0) ELSE s
           u == ClearBlocks(t, f, new, old)
<1>1. new \in Nat /\ old \in Nat
  <2>1. s.size[f] \in Nat /\ BY2BLK \in Nat \ {0}
    BY Fields, ConstantFacts DEF Sound
  <2> QED BY <2>1 DEF NBlock
<1>2. FileTruncate(s, f, size) = Owe(SizeTo(u, f, size), Home[f])
  BY DEF FileTruncate, SizeTo, IndirectTo
<1>3. Sound(t) /\ Grows(s, t)
  BY DropIndirectSound, GrowsItself
<1> HIDE DEF new, old, t
<1>4. Sound(u) /\ Grows(t, u)
  BY <1>1, <1>3, ClearBlocksSound
<1> HIDE DEF u
<1>5. Sound(FileTruncate(s, f, size)) /\ Grows(u, FileTruncate(s, f, size))
  BY <1>2, <1>4, SetSizeSound
<1> HIDE DEF FileTruncate
<1> QED BY <1>3, <1>4, <1>5, GrowsOn

\* file_set_size
LEMMA FileSetSizeSound ==
  ASSUME NEW s, Sound(s), NEW f \in AllFiles, NEW size \in Nat
  PROVE  LET t == FileSetSize(s, f, size) IN Sound(t) /\ Grows(s, t)
<1> DEFINE t == IF s.size[f] > size THEN FileTruncate(s, f, size) ELSE s
           u == Owe(SizeTo(t, f, size), Home[f])
           v == FileFlush(u, Root)
<1>1. Sound(t) /\ Grows(s, t)
  BY FileTruncateSound, GrowsItself
<1>2. FileSetSize(s, f, size) = v
  BY DEF FileSetSize, SizeTo
<1> HIDE DEF t
<1>3. Sound(u) /\ Grows(t, u)
  BY <1>1, SetSizeSound
<1> HIDE DEF u
<1>4. Sound(v) /\ Grows(u, v)
  BY <1>3, ConstantFacts, FileFlushSound
<1> HIDE DEF v
<1> QED BY <1>1, <1>2, <1>3, <1>4, GrowsOn

\* file_close
LEMMA FileCloseSound ==
  ASSUME NEW s, Sound(s), NEW f \in AllFiles
  PROVE  LET t == FileClose(s, f)
         IN  /\ Sound(t) /\ Grows(s, t) /\ SameTree(s, t)
             /\ f \in File /\ t.status = "ok" =>
                  \A n \in FileBno : n < NBlock(s.size[f]) => Place(t, <<f, n>>) \notin t.announced
<1> DEFINE u == FileFlush(s, f)
           t == FileFlush(u, Root)
<1>1. /\ Sound(u) /\ Grows(s, u) /\ SameTree(s, u) /\ u.announced \subseteq s.announced
      /\ f \in File /\ u.status = "ok" =>
           \A n \in FileBno : n < NBlock(s.size[f]) => Place(u, <<f, n>>) \notin u.announced
  BY FileFlushSound
<1> HIDE DEF u
<1>2. Sound(t) /\ Grows(u, t) /\ SameTree(u, t) /\ t.announced \subseteq u.announced
  BY <1>1, ConstantFacts, FileFlushSound
<1> HIDE DEF t
<1>3. \A p : Place(t, p) = Place(u, p)
  BY <1>2, SamePlaces
<1>4. /\ Grows(s, t) /\ SameTree(s, t) /\ (t.status = "ok" => u.status = "ok")
  BY <1>1, <1>2, GrowsOn DEF SameTree, Grows
<1>5. FileClose(s, f) = t
  BY DEF FileClose, t, u
<1> QED BY <1>1, <1>2, <1>3, <1>4, <1>5

\* dir_lookup
LEMMA DirLookupSound ==
  ASSUME NEW s, Sound(s), NEW f
  PROVE  LET o == DirLookup(s, f) IN Sound(o.s) /\ Grows(s, o.s)
<1> DEFINE k == s.size[Root] \div BY2BLK
           W == {x \in [s : State, r : {0, ERROR, FURTHER}] : Sound(x.s) /\ Grows(s, x.s)}
           o == LookInBlocks(Out(s, FURTHER), f, k)
<1>1. k \in Nat
  <2>1. s.size[Root] \in Nat /\ BY2BLK \in Nat \ {0}
    BY Fields, ConstantFacts DEF Sound
  <2> QED BY <2>1
<1>2. Out(s, FURTHER) \in W
  BY GrowsItself DEF Sound, Out
<1>3. \A x \in W, n \in Nat : LookInBlock(x, f, n) \in W
  <2> SUFFICES ASSUME NEW x \in W, NEW n \in Nat PROVE LookInBlock(x, f, n) \in W
    OBVIOUS
  <2> DEFINE g == FileGetBlock(x.s, Root, n)
  <2>1. Sound(g.s) /\ Grows(x.s, g.s)
    BY ConstantFacts, FileGetBlockSound
  <2> HIDE DEF g
  <2>2. Grows(s, g.s) /\ g.s \in State
    BY <2>1, GrowsOn DEF Sound
  <2>3. LookInBlock(x, f, n) \in {x} \cup {[s |-> g.s, r |-> r] : r \in {0, ERROR, FURTHER}}
    BY DEF LookInBlock, Out, g
  <2>4. ASSUME NEW r \in {0, ERROR, FURTHER} PROVE [s |-> g.s, r |-> r] \in W
    BY <2>1, <2>2
  <2> HIDE DEF W
  <2> QED BY <2>3, <2>4
<1>4. PICK at \in [0 .. k -> W] : LookSteps(at, Out(s, FURTHER), f, k)
  <2> HIDE DEF W, k
  <2> QED BY <1>1, <1>2, <1>3, LookLoop
<1>5. o \in W
  <2> HIDE DEF W, k
  <2>1. at[k] \in W
    BY <1>1
  <2> QED BY <1>4, <2>1 DEF LookSteps
<1>6. DirLookup(s, f) = IF o.r = 0 THEN o ELSE [s |-> o.s, r |-> ERROR]
  BY DEF DirLookup, Out
<1> HIDE DEF o
<1> QED BY <1>5, <1>6

\* The entry of f has no name any more.
LEMMA UnnameSound ==
  ASSUME NEW s, Sound(s), NEW f \in AllFiles
  PROVE  LET t == Owe([s EXCEPT !.named = @ \ {f}], Home[f]) IN Sound(t) /\ Grows(s, t)
<1> DEFINE t == [s EXCEPT !.named = @ \ {f}]
           u == Owe(t, Home[f])
<1>1. s \in State /\ s.named \in SUBSET AllFiles
  BY Fields DEF Sound
<1>2. /\ t \in State /\ t.size = s.size /\ t.direct = s.direct
      /\ t.entry = s.entry /\ t.indirect = s.indirect
      /\ t.free = s.free /\ t.mapped = s.mapped /\ t.dirty = s.dirty /\ t.announced = s.announced
      /\ t.status = s.status /\ t.named = s.named \ {f}
  BY <1>1 DEF State
<1> HIDE DEF t
<1>3. SamePlace(s, t)
  BY <1>2 DEF SamePlace, Place
<1>4. CacheSound(t)
  BY <1>2, <1>3, ConstantFacts DEF Sound, CacheSound, SamePlace
<1>5. t.status # "panic"
  BY <1>2 DEF Sound
<1>6. Sound(t) /\ Grows(s, t)
  BY <1>2, <1>3, <1>4, <1>5, PlacesStep
<1>7. /\ Home[f] \in Block /\ Home[f] # 0 /\ Home[f] \notin t.free
      /\ \A p \in DataPlaces : Place(t, p) # Home[f]
  BY <1>6 DEF Sound, HomesSound
<1>8. Sound(u) /\ Grows(t, u)
  BY <1>6, <1>7, OweSound
<1> HIDE DEF u
<1>9. Sound(u) /\ Grows(s, u)
  BY <1>6, <1>8, GrowsOn
<1> QED BY <1>9 DEF u, t

\* file_remove
LEMMA FileRemoveSound ==
  ASSUME NEW s, Sound(s), NEW f \in AllFiles
  PROVE  LET t == FileRemove(s, f) IN Sound(t) /\ Grows(s, t)
<1> DEFINE d == DirLookup(s, {f})
           t == FileTruncate(d.s, f, 0)
           u == Owe([t EXCEPT !.named = @ \ {f}], Home[f])
           v == FileClose(u, f)
<1>1. Sound(d.s) /\ Grows(s, d.s)
  BY DirLookupSound
<1>2. FileRemove(s, f) = IF d.r = ERROR THEN d.s ELSE v
  BY DEF FileRemove, Then, Out
<1> HIDE DEF d
<1>3. Sound(t) /\ Grows(d.s, t)
  BY <1>1, FileTruncateSound
<1> HIDE DEF t
<1>4. Sound(u) /\ Grows(t, u)
  BY <1>3, UnnameSound
<1> HIDE DEF u
<1>5. Sound(v) /\ Grows(u, v)
  BY <1>4, FileCloseSound
<1> HIDE DEF v
<1>6. Sound(v) /\ Grows(s, v)
  BY <1>1, <1>3, <1>4, <1>5, GrowsOn
<1> QED BY <1>1, <1>2, <1>6

\* fs_sync: no block of a regular file is left unwritten.
LEMMA FsSyncSound ==
  ASSUME NEW s, Sound(s)
  PROVE  LET t == FsSync(s)
         IN  /\ Sound(t) /\ Grows(s, t) /\ SameTree(s, t) /\ t.status = s.status
             /\ t.status = "ok" => \A p \in DataPlaces : Place(t, p) \notin t.announced
<1> DEFINE k == NBlocks
           W == {x \in State : /\ Sound(x) /\ Grows(s, x) /\ SameTree(s, x)
                               /\ x.status = s.status /\ x.mapped = s.mapped}
<1>1. k \in Nat
  BY ConstantFacts
<1>2. s \in W
  BY GrowsItself DEF Sound, SameTree
<1>3. \A x \in W, b \in Nat : WriteDirty(x, b) \in W
  <2> SUFFICES ASSUME NEW x \in W, NEW b \in Nat PROVE WriteDirty(x, b) \in W
    OBVIOUS
  <2> DEFINE t == WriteDirty(x, b)
  <2>1. Sound(t) /\ Grows(x, t) /\ SameTree(x, t) /\ t.status = x.status /\ t.mapped = x.mapped
    BY WriteDirtySound
  <2> HIDE DEF t
  <2>2. /\ Grows(s, t) /\ SameTree(s, t) /\ t.status = s.status /\ t.mapped = s.mapped
        /\ t \in State
    BY <2>1, GrowsOn DEF SameTree, Sound
  <2>3. t \in W
    BY <2>1, <2>2
  <2> QED BY <2>3 DEF t
<1>4. PICK at \in [0 .. k -> W] : SyncSteps(at, s, k)
  <2> HIDE DEF W
  <2> QED BY <1>1, <1>2, <1>3, SyncLoop
<1>5. at[k] \in W
  BY <1>1
<1>6. ASSUME NEW b \in Block PROVE b \notin at[k].dirty \cap s.mapped
  <2> DEFINE P == {i \in 0 .. k : i > b => b \notin at[i].dirty \cap s.mapped}
  <2>1. b \in Nat /\ b < k
    BY ConstantFacts DEF Block
  <2>2. 0 \in P
    BY <1>1, <2>1
  <2>3. ASSUME NEW i \in 0 .. k - 1, i \in P PROVE i + 1 \in P
    <3>1. i \in Nat /\ i \in 0 .. k /\ i + 1 \in 0 .. k
      BY <1>1
    <3>2. at[i] \in W
      BY <3>1
    <3>3. at[i + 1].dirty \subseteq at[i].dirty /\ i \notin at[i + 1].dirty \cap s.mapped
      <4> DEFINE t == WriteDirty(at[i], i)
      <4>1. t.dirty \subseteq at[i].dirty /\ t.mapped = at[i].mapped /\ i \notin t.dirty \cap t.mapped
        BY <3>2, WriteDirtySound
      <4> HIDE DEF t
      <4>2. t = at[i + 1]
        BY <1>4 DEF t, SyncSteps
      <4> QED BY <3>2, <4>1, <4>2
    <3>4. i + 1 > b => i > b \/ i = b
      BY <2>1, <3>1
    <3> QED BY <2>3, <3>1, <3>3, <3>4
  <2>4. \A i \in 0 .. k : i \in P
    <3> HIDE DEF P, k
    <3>1. \A i \in 0 .. k - 1 : i \in P => i + 1 \in P
      BY <2>3
    <3> QED BY <1>1, <2>2, <3>1, UpTo
  <2> QED BY <1>1, <2>1, <2>4
<1>7. FsSync(s) = at[k]
  BY <1>4 DEF SyncSteps
<1>8. /\ Sound(at[k]) /\ Grows(s, at[k]) /\ SameTree(s, at[k])
      /\ at[k].status = s.status /\ at[k].mapped = s.mapped
  BY <1>5
<1>9. ASSUME at[k].status = "ok", NEW p \in DataPlaces PROVE Place(at[k], p) \notin at[k].announced
  <2>1. Place(at[k], p) \in Block
    BY <1>8, ConstantFacts, PlaceType DEF Sound
  <2> QED BY <1>6, <1>8, <1>9, <2>1 DEF Sound, CacheSound
<1> QED BY <1>7, <1>8, <1>9

\* The kernel has k pages left.
LEMMA PagesSound ==
  ASSUME NEW s, Sound(s), NEW k \in Nat
  PROVE  LET t == [s EXCEPT !.pages = k]
         IN  /\ Sound(t) /\ Grows(s, t) /\ SameTree(s, t)
             /\ t.announced = s.announced /\ t.status = s.status
<1> DEFINE t == [s EXCEPT !.pages = k]
<1>1. t \in State /\ SameTree(s, t) /\ t.announced = s.announced /\ t.mapped = s.mapped
      /\ t.dirty = s.dirty /\ t.status = s.status
  BY DEF Sound, State, SameTree
<1> HIDE DEF t
<1>2. \A p : Place(t, p) = Place(s, p)
  BY <1>1, SamePlaces
<1>3. CacheSound(t)
  BY <1>1, <1>2 DEF Sound, CacheSound, SameTree
<1>4. t.status # "panic"
  BY <1>1 DEF Sound
<1>5. Sound(t) /\ Grows(s, t)
  BY <1>1, <1>3, <1>4, CacheStep
<1> QED BY <1>1, <1>5 DEF t

\* The state after a request: that of the request, or the old one and no memory.
LEMMA BecomeSound ==
  ASSUME NEW s, Sound(s), NEW t, Sound(t), Grows(s, t), NEW u,
         u = IF t.status = "ok" THEN [t EXCEPT !.pages = 0] ELSE [s EXCEPT !.status = t.status]
  PROVE  /\ Sound(u) /\ Grows(s, u) /\ u.status = t.status
         /\ t.status = "ok" => SameTree(t, u) /\ u.announced = t.announced
<1>1. CASE t.status = "ok"
  <2>1. /\ Sound(u) /\ Grows(t, u) /\ SameTree(t, u) /\ u.announced = t.announced /\ u.status = t.status
    BY <1>1, PagesSound
  <2> QED BY <2>1, GrowsOn
<1>2. CASE t.status # "ok"
  <2>1. t.status \in {"nomem", "stopped"}
    BY <1>2, Fields DEF Sound
  <2>2. u = [s EXCEPT !.status = t.status]
    BY <1>2
  <2>3. /\ u \in State /\ SameTree(s, u) /\ u.announced = s.announced /\ u.mapped = s.mapped
        /\ u.dirty = s.dirty /\ u.status = t.status
    BY <2>1, <2>2 DEF Sound, State, SameTree
  <2>4. \A p : Place(u, p) = Place(s, p)
    BY <2>3, SamePlaces
  <2>5. CacheSound(u)
    BY <2>3, <2>4 DEF Sound, CacheSound, SameTree
  <2> QED BY <1>2, <2>1, <2>3, <2>5, CacheStep
<1> QED BY <1>1, <1>2

-----------------------------------------------------------------------------
(* The requests                                                            *)

\* A page that a client has mapped for f is that of a data block of f or of
\* no file at all, and not of a free block.
HeldSound ==
    \A h \in held : /\ h[1] \notin fs.free /\ h[1] # 0
                    /\ \A p \in Places : Place(fs, p) = h[1] => p[1] = h[2] /\ p[2] # INDIRECT

Inv ==
    /\ Sound(fs)
    /\ stage \in {"init", "serving"} /\ opened \subseteq File /\ held \subseteq Block \X File
    /\ last \in {Plain, Synced} \cup {Closed(f) : f \in File}
    /\ HeldSound

\* What is kept when the server goes on from a sound state or stops.
LEMMA SettleSound ==
  ASSUME Sound(fs), NEW t, Sound(t), Grows(fs, t), Settle(t)
  PROVE  /\ Sound(fs') /\ Grows(fs, fs') /\ fs'.status = t.status
         /\ t.status = "ok" => SameTree(t, fs') /\ fs'.announced = t.announced
BY BecomeSound DEF Settle

\* A request that keeps the disk sound, whatever it ends with.
LEMMA RequestSound ==
  ASSUME Inv, NEW t, Sound(t), Grows(fs, t), Become(t)
  PROVE  /\ Sound(fs') /\ Grows(fs, fs') /\ fs'.status = t.status
         /\ t.status = "ok" => SameTree(t, fs') /\ fs'.announced = t.announced
BY SettleSound DEF Inv, Become

\* What clients hold stays theirs when places only get free blocks.
LEMMA HeldStays ==
  ASSUME Inv, Grows(fs, fs'), held' \subseteq held
  PROVE  HeldSound'
<1>1. PICK x : x = fs
  OBVIOUS
<1>2. PICK y : y = fs'
  OBVIOUS
<1>3. ASSUME NEW h \in held
      PROVE  /\ h[1] \notin y.free /\ h[1] # 0
             /\ \A p \in Places : Place(y, p) = h[1] => p[1] = h[2] /\ p[2] # INDIRECT
  <2>1. /\ h[1] \notin x.free /\ h[1] # 0
        /\ \A p \in Places : Place(x, p) = h[1] => p[1] = h[2] /\ p[2] # INDIRECT
    BY <1>1 DEF Inv, HeldSound
  <2>2. Grows(x, y)
    BY <1>1, <1>2
  <2> QED BY <2>1, <2>2 DEF Grows
<1> QED BY <1>2, <1>3 DEF HeldSound

\* The server starts a request with a sound disk.
LEMMA WithSound ==
  ASSUME Inv, NEW k \in Nat
  PROVE  /\ Sound(With(k)) /\ Grows(fs, With(k)) /\ SameTree(fs, With(k))
         /\ With(k).announced = fs.announced /\ With(k).status = fs.status
BY PagesSound DEF Inv, With

\* fs_test, up to its end or to one of its panics
LEMMA FsTestSound ==
  ASSUME Inv, FsTest
  PROVE  Inv'
<1>1. PICK s : s = fs
  OBVIOUS
<1> DEFINE all == [s EXCEPT !.pages = NBlocks]
           a  == AllocBlock(all)
           d0 == DirLookup(a.s, {})
           d  == DirLookup(d0.s, {Motd})
           b1 == FileGetBlock(d.s, Motd, 0)
           f1 == FileFlush(b1.s, Motd)
           s2 == FileSetSize(f1, Motd, 0)
           z  == FileSetSize(s2, Motd, 1)
           b2 == FileGetBlock(z, Motd, 0)
           o2 == Owe(b2.s, b2.r)
           f3 == FileFlush(o2, Motd)
           c  == FileClose(f3, Motd)
           stop == [s EXCEPT !.status = "stopped"]
<1>2. Sound(s) /\ NBlocks \in Nat /\ Motd \in AllFiles /\ 0 \in Nat /\ 1 \in Nat
  BY <1>1, ConstantFacts DEF Inv
<1>3. Settle(stop) \/ (b2.r # ERROR /\ Settle(c))
  BY <1>1 DEF FsTest, With
<1>4. Sound(all) /\ Grows(s, all)
  BY <1>2, PagesSound
<1> HIDE DEF all
<1>5. Sound(a.s) /\ Grows(all, a.s)
  BY <1>4, AllocBlockSound
<1> HIDE DEF a
<1>6. Sound(d0.s) /\ Grows(a.s, d0.s)
  BY <1>5, DirLookupSound
<1> HIDE DEF d0
<1>7. Sound(d.s) /\ Grows(d0.s, d.s)
  BY <1>6, DirLookupSound
<1> HIDE DEF d
<1>8. Sound(b1.s) /\ Grows(d.s, b1.s)
  BY <1>2, <1>7, FileGetBlockSound
<1> HIDE DEF b1
<1>9. Sound(f1) /\ Grows(b1.s, f1)
  BY <1>2, <1>8, FileFlushSound
<1> HIDE DEF f1
<1>10. Sound(s2) /\ Grows(f1, s2)
  BY <1>2, <1>9, FileSetSizeSound
<1> HIDE DEF s2
<1>11. Sound(z) /\ Grows(s2, z)
  BY <1>2, <1>10, FileSetSizeSound
<1> HIDE DEF z
<1>12. /\ Sound(b2.s) /\ Grows(z, b2.s)
       /\ b2.r # ERROR => <<Motd, 0>> \in Places /\ b2.r = Place(b2.s, <<Motd, 0>>) /\ b2.r # 0
  BY <1>2, <1>11, FileGetBlockSound
<1> HIDE DEF b2
<1>13. stop.status = "stopped" /\ Sound(stop) /\ Grows(s, stop)
  <2>1. /\ stop \in State /\ SameTree(s, stop) /\ stop.announced = s.announced
        /\ stop.mapped = s.mapped /\ stop.dirty = s.dirty /\ stop.status = "stopped"
    BY <1>2 DEF Sound, State, SameTree
  <2> HIDE DEF stop
  <2>2. \A p : Place(stop, p) = Place(s, p)
    BY <2>1, SamePlaces
  <2>3. CacheSound(stop)
    BY <1>2, <2>1, <2>2 DEF Sound, CacheSound, SameTree
  <2> QED BY <1>2, <2>1, <2>3, CacheStep
<1> HIDE DEF stop
<1>14. Grows(s, s2)
  <2>1. Grows(s, d0.s)
    BY <1>4, <1>5, <1>6, GrowsOn
  <2>2. Grows(s, b1.s)
    BY <2>1, <1>7, <1>8, GrowsOn
  <2> QED BY <2>2, <1>9, <1>10, GrowsOn
<1>15. ASSUME b2.r # ERROR PROVE Sound(c) /\ Grows(s, c)
  <2>1. b2.r \in Block
    BY <1>12, <1>15, UsedBlock
  <2>2. Sound(o2) /\ Grows(b2.s, o2)
    BY <1>12, <2>1, OweSound
  <2> HIDE DEF o2
  <2>3. Sound(f3) /\ Grows(o2, f3)
    BY <1>2, <2>2, FileFlushSound
  <2> HIDE DEF f3
  <2>4. Sound(c) /\ Grows(f3, c)
    BY <1>2, <2>3, FileCloseSound
  <2> HIDE DEF c
  <2>5. Grows(s, b2.s)
    BY <1>11, <1>12, <1>14, GrowsOn
  <2>6. Grows(s, c)
    BY <2>2, <2>3, <2>4, <2>5, GrowsOn
  <2> QED BY <2>4, <2>6
<1>16. Sound(fs') /\ Grows(fs, fs')
  BY <1>1, <1>2, <1>3, <1>13, <1>15, SettleSound
<1>17. stage' = "serving" /\ opened' = opened /\ held' = held /\ last' = Plain
  BY DEF FsTest
<1>18. HeldSound'
  BY <1>16, <1>17, HeldStays
<1> QED BY <1>16, <1>17, <1>18 DEF Inv

\* Requests that map nothing
LEMMA PlainRequest ==
  ASSUME Inv, NEW t, Sound(t), Grows(fs, t), Become(t),
         stage' = stage, opened' \subseteq File, held' = held,
         last' \in {Plain, Synced} \cup {Closed(f) : f \in File}
  PROVE  Inv'
<1>1. Sound(fs') /\ Grows(fs, fs')
  BY RequestSound
<1>2. HeldSound'
  BY <1>1, HeldStays
<1> QED BY <1>1, <1>2 DEF Inv

\* serve_map: the page sent is that of the block the file has at n.
LEMMA ServeMapSound ==
  ASSUME Inv, NEW f \in File, NEW n \in FileBno, NEW k \in Pages, ServeMap(f, n, k)
  PROVE  Inv'
<1>1. k \in Nat /\ n \in Nat /\ f \in AllFiles
  BY FsBlocksAssumption, ConstantFacts
<1>2. PICK g : g = FileGetBlock(With(k), f, n)
  OBVIOUS
<1>3. /\ Sound(g.s) /\ Grows(With(k), g.s)
      /\ g.r # ERROR => <<f, n>> \in Places /\ g.r = Place(g.s, <<f, n>>) /\ g.r # 0
  BY <1>1, <1>2, WithSound, FileGetBlockSound
<1>4. Grows(fs, g.s)
  BY <1>1, <1>3, WithSound, GrowsOn
<1>5. /\ Become(g.s) /\ stage' = stage /\ opened' = opened /\ last' = Plain
      /\ held' = IF g.r # ERROR /\ g.s.status = "ok" THEN held \cup {<<g.r, f>>} ELSE held
  BY <1>2 DEF ServeMap
<1>6. CASE ~ (g.r # ERROR /\ g.s.status = "ok")
  BY <1>3, <1>4, <1>5, <1>6, PlainRequest DEF Inv
<1>7. CASE g.r # ERROR /\ g.s.status = "ok"
  <2>1. /\ Sound(fs') /\ Grows(fs, fs') /\ SameTree(g.s, fs')
    BY <1>3, <1>4, <1>5, <1>7, RequestSound
  <2>2. PICK y : y = fs'
    OBVIOUS
  <2>3. \A p : Place(y, p) = Place(g.s, p)
    BY <2>1, <2>2, SamePlaces
  <2>4. /\ g.r \in Block /\ g.r # 0 /\ g.r \notin y.free
        /\ \A p \in Places : Place(y, p) = g.r => p = <<f, n>>
    <3>1. g.r = Place(y, <<f, n>>) /\ <<f, n>> \in Places /\ g.r # 0 /\ Sound(y)
      BY <1>3, <1>7, <2>1, <2>2, <2>3
    <3>2. g.r \in Block /\ g.r \notin y.free
      BY <3>1, UsedBlock
    <3> QED BY <3>1, <3>2 DEF Sound, TreeSound
  <2>5. n # INDIRECT
    BY ConstantFacts
  <2>6. ASSUME NEW h \in held \cup {<<g.r, f>>}
        PROVE  /\ h[1] \notin y.free /\ h[1] # 0
               /\ \A p \in Places : Place(y, p) = h[1] => p[1] = h[2] /\ p[2] # INDIRECT
    <3>1. CASE h \in held
      <4>1. PICK x : x = fs
        OBVIOUS
      <4>2. /\ h[1] \notin x.free /\ h[1] # 0
            /\ \A p \in Places : Place(x, p) = h[1] => p[1] = h[2] /\ p[2] # INDIRECT
        BY <3>1, <4>1 DEF Inv, HeldSound
      <4>3. Grows(x, y)
        BY <2>1, <2>2, <4>1
      <4> QED BY <4>2, <4>3 DEF Grows
    <3>2. CASE h = <<g.r, f>>
      BY <2>4, <2>5, <3>2
    <3> QED BY <3>1, <3>2
  <2>7. held' = held \cup {<<g.r, f>>}
    BY <1>5, <1>7
  <2>8. HeldSound'
    BY <2>2, <2>6, <2>7 DEF HeldSound
  <2>9. held' \subseteq Block \X File
    BY <2>4, <2>7 DEF Inv
  <2> QED BY <1>5, <2>1, <2>8, <2>9 DEF Inv
<1> QED BY <1>6, <1>7

\* Every step keeps the invariant.
LEMMA NextSound ==
  ASSUME Inv, [Next]_vars
  PROVE  Inv'
<1>1. \A k \in Pages : k \in Nat
  BY FsBlocksAssumption
<1>2. File \subseteq AllFiles /\ FileBno \subseteq Nat /\ Sizes \subseteq Nat
  BY ConstantFacts, FsBlocksAssumption
<1>3. CASE FsTest
  BY <1>3, FsTestSound
<1>4. CASE ServeSync
  <2>1. PICK t : t = FsSync(fs)
    OBVIOUS
  <2>2. Sound(t) /\ Grows(fs, t)
    BY <2>1, FsSyncSound DEF Inv
  <2> QED BY <1>4, <2>1, <2>2, PlainRequest DEF ServeSync, Inv
<1>5. ASSUME NEW f \in File, ClientUnmap(f) PROVE Inv'
  <2>1. held' \subseteq held /\ UNCHANGED <<fs, stage, opened>> /\ last' = Plain
    BY <1>5 DEF ClientUnmap
  <2>2. HeldSound'
    BY <2>1, GrowsItself, HeldStays
  <2> QED BY <2>1, <2>2 DEF Inv
<1>6. ASSUME NEW f \in File, NEW k \in Pages, ServeOpen(f, k) PROVE Inv'
  <2>1. PICK d : d = DirLookup(With(k), {f})
    OBVIOUS
  <2>2. Sound(d.s) /\ Grows(With(k), d.s)
    BY <1>1, <2>1, WithSound, DirLookupSound
  <2>3. Grows(fs, d.s)
    BY <1>1, <2>2, WithSound, GrowsOn
  <2>4. Become(d.s) /\ stage' = stage /\ held' = held /\ opened' \subseteq File /\ last' = Plain
    BY <1>6, <2>1 DEF ServeOpen, Inv
  <2> QED BY <2>2, <2>3, <2>4, PlainRequest
<1>7. ASSUME NEW f \in File, NEW k \in Pages, ServeClose(f, k) PROVE Inv'
  <2>1. PICK t : t = FileClose(With(k), f)
    OBVIOUS
  <2>2. Sound(t) /\ Grows(With(k), t)
    BY <1>1, <1>2, <2>1, WithSound, FileCloseSound
  <2>3. Grows(fs, t)
    BY <1>1, <2>2, WithSound, GrowsOn
  <2>4. Become(t) /\ stage' = stage /\ held' = held /\ opened' \subseteq File /\ last' = Closed(f)
    BY <1>7, <2>1 DEF ServeClose, Inv
  <2> QED BY <2>2, <2>3, <2>4, PlainRequest
<1>8. ASSUME NEW f \in File, NEW k \in Pages, ServeRemove(f, k) PROVE Inv'
  <2>1. PICK t : t = FileRemove(With(k), f)
    OBVIOUS
  <2>2. Sound(t) /\ Grows(With(k), t)
    BY <1>1, <1>2, <2>1, WithSound, FileRemoveSound
  <2>3. Grows(fs, t)
    BY <1>1, <2>2, WithSound, GrowsOn
  <2>4. Become(t) /\ stage' = stage /\ held' = held /\ opened' \subseteq File /\ last' = Plain
    BY <1>8, <2>1 DEF ServeRemove, Inv
  <2> QED BY <2>2, <2>3, <2>4, PlainRequest
<1>9. ASSUME NEW f \in File, NEW k \in Pages, NEW n \in FileBno, ServeMap(f, n, k) PROVE Inv'
  BY <1>9, ServeMapSound
<1>10. ASSUME NEW f \in File, NEW k \in Pages, NEW n \in FileBno, ServeDirty(f, n, k) PROVE Inv'
  <2>1. PICK t : t = FileDirty(With(k), f, n)
    OBVIOUS
  <2>2. Sound(t) /\ Grows(With(k), t)
    BY <1>1, <1>2, <2>1, WithSound, FileDirtySound
  <2>3. Grows(fs, t)
    BY <1>1, <2>2, WithSound, GrowsOn
  <2>4. Become(t) /\ stage' = stage /\ held' = held /\ opened' \subseteq File /\ last' = Plain
    BY <1>10, <2>1 DEF ServeDirty, Inv
  <2> QED BY <2>2, <2>3, <2>4, PlainRequest
<1>11. ASSUME NEW f \in File, NEW k \in Pages, NEW size \in Sizes, ServeSetSize(f, size, k) PROVE Inv'
  <2>1. PICK t : t = FileSetSize(With(k), f, size)
    OBVIOUS
  <2>2. Sound(t) /\ Grows(With(k), t)
    BY <1>1, <1>2, <2>1, WithSound, FileSetSizeSound
  <2>3. Grows(fs, t)
    BY <1>1, <2>2, WithSound, GrowsOn
  <2>4. Become(t) /\ stage' = stage /\ held' = held /\ opened' \subseteq File /\ last' = Plain
    BY <1>11, <2>1 DEF ServeSetSize, Inv
  <2> QED BY <2>2, <2>3, <2>4, PlainRequest
<1>12. CASE UNCHANGED vars
  BY <1>12 DEF vars, Inv, HeldSound
<1> QED BY <1>3, <1>4, <1>5, <1>6, <1>7, <1>8, <1>9, <1>10, <1>11, <1>12 DEF Next

-----------------------------------------------------------------------------
(* The image is sound, and the theorems                                    *)

\* Blocks of files come after the reserved ones.
LEMMA ReservedFirst ==
    /\ NBitBlock \in Nat /\ 2 + NBitBlock <= Image.next /\ Image.next <= NBlocks /\ Image.next \in Nat
    /\ Reserved \subseteq Block
    /\ \A b \in Reserved : b < 2 + NBitBlock
<1>1. /\ NBlocks \in Nat /\ BIT2BLK \in Nat \ {0} /\ NBlocks % BIT2BLK # 0
  BY ConstantFacts, FsBlocksAssumption
<1>2. NBitBlock \in Nat /\ NBlocks \div BIT2BLK \in Nat /\ NBlocks \div BIT2BLK < NBitBlock
  BY <1>1 DEF NBitBlock
<1>3. Image.next \in Nat /\ 2 + NBitBlock <= Image.next /\ Image.next <= NBlocks
  <2>1. Image.next \in Nat /\ Image.next >= 2 + NBitBlock
    BY ImageGood, DiskFields DEF Linked
  <2> QED BY <1>2, <2>1, ImageAssumption
<1>4. \A b \in Reserved : b \in Nat /\ b < 2 + NBitBlock
  BY <1>2 DEF Reserved
<1>5. \A b \in Reserved : b \in Block
  <2> SUFFICES ASSUME NEW b \in Reserved PROVE b \in Block
    OBVIOUS
  <2>1. b \in Nat /\ b < 2 + NBitBlock
    BY <1>4
  <2>2. b < NBlocks
    BY <1>1, <1>2, <1>3, <2>1
  <2> QED BY <1>1, <2>1, <2>2 DEF Block
<1> QED BY <1>2, <1>3, <1>4, <1>5

\* Places of the image have blocks of the disk.
LEMMA ImagePlaces ==
  ASSUME NEW p \in Places
  PROVE  Place(Image, p) = 0 \/ Place(Image, p) \in {b \in Block : 2 + NBitBlock <= b /\ b < Image.next}
<1>1. Place(Image, p) # 0 => Place(Image, p) \in 2 + NBitBlock .. Image.next - 1
  BY ImageGood DEF Linked
<1> QED BY <1>1, ReservedFirst, ConstantFacts DEF Block

\* Pointers of the image are blocks of the disk.
LEMMA ImageTypes ==
    /\ Image.size \in [AllFiles -> Nat]
    /\ Image.direct \in [AllFiles -> [0 .. NDIRECT - 1 -> Block]]
    /\ Image.indirect \in [AllFiles -> Block]
    /\ Image.entry \in [Block -> Entries]
<1>1. /\ Image.size \in [AllFiles -> Nat]
      /\ Image.direct \in [AllFiles -> [0 .. NDIRECT - 1 -> Nat]]
      /\ Image.indirect \in [AllFiles -> Nat]
      /\ Image.entry \in [Block -> [NDIRECT .. NINDIRECT - 1 -> Nat]]
  BY ImageGood, DiskFields
<1>2. ASSUME NEW f \in AllFiles PROVE Image.direct[f] \in [0 .. NDIRECT - 1 -> Block]
  <2>1. ASSUME NEW n \in 0 .. NDIRECT - 1 PROVE Image.direct[f][n] \in Block
    <3>1. n \in FileBno /\ n < NDIRECT /\ n # INDIRECT
      BY ConstantFacts DEF FileBno
    <3>2. <<f, n>> \in Places /\ Place(Image, <<f, n>>) = Image.direct[f][n]
      BY <3>1 DEF Places, Place
    <3> QED BY <3>2, ImagePlaces, ConstantFacts
  <2>2. Image.direct[f] \in [0 .. NDIRECT - 1 -> Nat]
    BY <1>1
  <2> QED BY <2>1, <2>2
<1>3. ASSUME NEW f \in AllFiles PROVE Image.indirect[f] \in Block
  <2>1. <<f, INDIRECT>> \in Places /\ Place(Image, <<f, INDIRECT>>) = Image.indirect[f]
    BY DEF Places, Place
  <2> QED BY <2>1, ImagePlaces, ConstantFacts
<1>4. ASSUME NEW b \in Block PROVE Image.entry[b] \in Entries
  <2>1. Image.entry[b] \in [NDIRECT .. NINDIRECT - 1 -> Nat]
    BY <1>1
  <2>2. Entered(Image)
    BY ImageGood DEF Linked
  <2>3. ASSUME NEW n \in NDIRECT .. NINDIRECT - 1 PROVE Image.entry[b][n] \in Block
    <3>1. Image.entry[b][n] \in Nat /\ Image.entry[b][n] < Image.next
      BY <2>1, <2>2 DEF Entered
    <3>2. Image.entry[b][n] \in 0 .. NBlocks - 1
      BY <3>1, ReservedFirst, ConstantFacts
    <3> QED BY <3>2 DEF Block
  <2> QED BY <2>1, <2>3 DEF Entries
<1> QED BY <1>1, <1>2, <1>3, <1>4

\* The server starts on a sound image.
LEMMA InitSound ==
  ASSUME Init
  PROVE  Inv
<1>1. PICK s : s = fs
  OBVIOUS
<1>2. /\ s.free = Free /\ s.size = Image.size /\ s.direct = Image.direct
      /\ s.indirect = Image.indirect /\ s.entry = Image.entry /\ s.named = AllFiles
      /\ s.mapped = Reserved /\ s.dirty = {} /\ s.announced = {} /\ s.pages = 0 /\ s.status = "ok"
  BY <1>1 DEF Init
<1>3. s \in State
  <2>1. s = [free |-> Free, size |-> Image.size, direct |-> Image.direct,
             indirect |-> Image.indirect, entry |-> Image.entry, named |-> AllFiles,
             mapped |-> Reserved, dirty |-> {}, announced |-> {}, owed |-> {}, pages |-> 0, status |-> "ok"]
    BY <1>1 DEF Init
  <2>2. Free \subseteq Block /\ Reserved \subseteq Block
    BY ReservedFirst DEF Free
  <2> QED BY <2>1, <2>2, ImageTypes DEF State
<1>4. \A p : Place(s, p) = Place(Image, p)
  BY <1>2 DEF Place
<1>5. \A b \in Block : b < Image.next => b \notin s.free
  BY <1>2, ReservedFirst, ConstantFacts DEF Free
<1>6. TreeSound(s)
  <2>1. ASSUME NEW p \in Places, Place(s, p) # 0
        PROVE  Place(s, p) \notin s.free \cup Reserved
    <3>1. PICK b \in Block : b = Place(s, p) /\ 2 + NBitBlock <= b /\ b < Image.next
      BY <1>4, <2>1, ImagePlaces
    <3>2. b \notin s.free
      BY <1>5, <3>1
    <3>3. b \notin Reserved
      BY <3>1, ReservedFirst, ConstantFacts
    <3> QED BY <3>1, <3>2, <3>3
  <2>2. \A p, q \in Places : Place(s, p) = Place(s, q) /\ Place(s, p) # 0 => p = q
    BY <1>4, ImageGood DEF Linked
  <2> QED BY <2>1, <2>2 DEF TreeSound
<1>7. HomesSound(s)
  <2> SUFFICES ASSUME NEW f \in AllFiles
               PROVE  /\ Home[f] \in Block \ s.free /\ Home[f] # 0
                      /\ \A p \in DataPlaces : Place(s, p) # Home[f]
    BY DEF HomesSound
  <2>1. CASE f = Root
    <3>1. Home[f] = 1
      BY <2>1, ImageGood DEF Home, Homed
    <3>2. 1 \in Block /\ 1 < Image.next
      BY ReservedFirst, ConstantFacts DEF Block
    <3>3. \A p \in DataPlaces : Place(s, p) # 1
      <4> SUFFICES ASSUME NEW p \in DataPlaces, Place(s, p) = 1 PROVE FALSE
        OBVIOUS
      <4>1. p \in Places
        BY ConstantFacts
      <4>2. 2 + NBitBlock <= 1
        BY <1>4, <4>1, ImagePlaces
      <4> QED BY <4>2, ReservedFirst
    <3> QED BY <1>5, <3>1, <3>2, <3>3
  <2>2. CASE f \in File
    <3>1. Home[f] # 0 /\ \E n \in 0 .. NDIRECT - 1 : Home[f] = Image.direct[Root][n]
      BY <2>2, ImageGood DEF Home, Homed
    <3>2. PICK n \in 0 .. NDIRECT - 1 : Home[f] = Image.direct[Root][n]
      BY <3>1
    <3>3. n \in FileBno /\ n < NDIRECT /\ n # INDIRECT
      BY ConstantFacts DEF FileBno
    <3>4. <<Root, n>> \in Places /\ Place(Image, <<Root, n>>) = Home[f]
      BY <3>2, <3>3, ConstantFacts DEF Places, Place
    <3>5. Home[f] \in Block /\ Home[f] < Image.next
      BY <3>1, <3>4, ImagePlaces
    <3>6. ASSUME NEW p \in DataPlaces, Place(s, p) = Home[f] PROVE FALSE
      <4>1. p \in Places /\ p # <<Root, n>>
        BY ConstantFacts DEF DataPlaces
      <4>2. Place(Image, p) = Place(Image, <<Root, n>>) /\ Place(Image, p) # 0
        BY <1>4, <3>1, <3>4, <3>6
      <4> QED BY <3>4, <4>1, <4>2, ImageGood DEF Linked
    <3> QED BY <1>5, <3>1, <3>5, <3>6
  <2> QED BY <2>1, <2>2, FsBlocksAssumption DEF AllFiles
<1>8. CacheSound(s)
  <2>1. s.free \cap Reserved = {}
    <3> SUFFICES ASSUME NEW b \in Reserved PROVE b \notin s.free
      OBVIOUS
    <3>1. b \in Block /\ b < 2 + NBitBlock
      BY ReservedFirst
    <3>2. b < Image.next
      BY <3>1, ReservedFirst, ConstantFacts
    <3> QED BY <1>5, <3>1, <3>2
  <2> QED BY <1>2, <2>1 DEF CacheSound
<1>9. Sound(fs)
  BY <1>1, <1>2, <1>3, <1>6, <1>7, <1>8 DEF Sound
<1> QED BY <1>9 DEF Init, Inv, HeldSound

\* The invariant is inductive.
LEMMA InvHolds == Spec => []Inv
<1>1. Init => Inv
  BY InitSound
<1>2. Inv /\ [Next]_vars => Inv'
  BY NextSound
<1> QED BY <1>1, <1>2, PTL DEF Spec

\* A place is what BlocksExclusive and the other properties call At.
LEMMA AtIsPlace == \A p : At(p) = Place(fs, p)
BY DEF At, BlockOf, Place

\* Whatever is requested, the server's tables keep their types: every pointer
\* is a block of the disk.
THEOREM TypeCorrect == Spec => []TypeOK
<1>1. Inv => TypeOK
  <2> SUFFICES ASSUME Inv PROVE TypeOK
    OBVIOUS
  <2>1. fs \in State
    BY DEF Inv, Sound
  <2> QED BY <2>1, Fields DEF Inv, TypeOK, Entries
<1> QED BY <1>1, InvHolds, PTL

\* Over allocations, truncations, removals and requests that stop half way, no
\* two pointers of files ever lead to one block, and none to a reserved block.
THEOREM Exclusive == Spec => []BlocksExclusive
<1>1. Inv => BlocksExclusive
  <2> SUFFICES ASSUME Inv PROVE BlocksExclusive
    OBVIOUS
  <2>1. TreeSound(fs)
    BY DEF Inv, Sound
  <2> QED BY <2>1, AtIsPlace DEF BlocksExclusive, TreeSound, Used
<1> QED BY <1>1, InvHolds, PTL

\* The bitmap knows every block that a file uses: alloc_block_num never finds it.
THEOREM Marked == Spec => []UsedIsMarked
<1>1. Inv => UsedIsMarked
  <2> SUFFICES ASSUME Inv PROVE UsedIsMarked
    OBVIOUS
  <2>1. TreeSound(fs)
    BY DEF Inv, Sound
  <2> QED BY <2>1, AtIsPlace DEF UsedIsMarked, TreeSound, Used
<1> QED BY <1>1, InvHolds, PTL

\* No user_panic of fs.c is reached, whatever memory and free blocks are left.
THEOREM NoPanic == Spec => []NeverPanics
<1>1. Inv => NeverPanics
  BY DEF Inv, Sound, NeverPanics
<1> QED BY <1>1, InvHolds, PTL

\* A client's page of a file never becomes a block of another file, nor an
\* indirect block, after others have truncated or removed that file.
THEOREM Unaliased == Spec => []NoAlias
<1>1. Inv => NoAlias
  BY AtIsPlace DEF Inv, HeldSound, NoAlias
<1> QED BY <1>1, InvHolds, PTL

\* The blocks that are not written, by places
LEMMA UnwrittenIs ==
  ASSUME NEW f \in File
  PROVE  Unwritten(f) = {n \in FileBno : n * BY2BLK < fs.size[f] /\ Place(fs, <<f, n>>) \in fs.announced}
<1>1. \A n \in FileBno : BlockOf(f, n) = Place(fs, <<f, n>>)
  BY ConstantFacts DEF BlockOf, Place
<1> QED BY <1>1 DEF Unwritten

\* A byte of a file is in one of its NBlock blocks.
LEMMA WithinSize ==
  ASSUME NEW n \in Nat, NEW size \in Nat, n * BY2BLK < size
  PROVE  n < NBlock(size)
<1>1. BY2BLK \in Nat \ {0}
  BY ConstantFacts
<1>2. n <= size \div BY2BLK /\ size \div BY2BLK \in Nat
  BY <1>1
<1> QED BY <1>2 DEF NBlock

\* A closing step ends with every announced change to the file on the disk.
LEMMA CloseStep ==
  \A f \in File, k \in Pages : Inv /\ ServeClose(f, k) /\ fs'.status = "ok" => Unwritten(f)' = {}
<1>1. ASSUME Inv, NEW f \in File, NEW k \in Pages, ServeClose(f, k), fs'.status = "ok"
      PROVE  Unwritten(f)' = {}
  <2>1. PICK t : t = FileClose(With(k), f)
    OBVIOUS
  <2>2. k \in Nat /\ f \in AllFiles
    BY FsBlocksAssumption, ConstantFacts
  <2>3. Sound(With(k)) /\ Grows(fs, With(k)) /\ SameTree(fs, With(k))
    BY <1>1, <2>2, WithSound
  <2>4. Sound(t) /\ Grows(With(k), t) /\ SameTree(With(k), t)
    BY <2>1, <2>2, <2>3, FileCloseSound
  <2>5. Grows(fs, t)
    BY <2>3, <2>4, GrowsOn
  <2>6. Become(t)
    BY <1>1, <2>1 DEF ServeClose
  <2>7. t.status = "ok" /\ SameTree(t, fs') /\ fs'.announced = t.announced
    BY <1>1, <2>4, <2>5, <2>6, RequestSound
  <2>8. \A n \in FileBno : n < NBlock(With(k).size[f]) => Place(t, <<f, n>>) \notin t.announced
    BY <2>1, <2>2, <2>3, <2>7, FileCloseSound
  <2>9. PICK u : u = fs'
    OBVIOUS
  <2>10. u.size[f] = With(k).size[f] /\ u.size[f] \in Nat
    <3>1. u.size = With(k).size
      BY <2>4, <2>7, <2>9 DEF SameTree
    <3>2. With(k).size[f] \in Nat
      BY <2>2, <2>3, Fields DEF Sound
    <3> QED BY <3>1, <3>2
  <2>11. ASSUME NEW n \in FileBno, n * BY2BLK < u.size[f] PROVE Place(u, <<f, n>>) \notin u.announced
    <3>1. n \in Nat
      BY ConstantFacts
    <3>2. n < NBlock(u.size[f])
      BY <2>10, <2>11, <3>1, WithinSize
    <3>3. Place(u, <<f, n>>) = Place(t, <<f, n>>)
      BY <2>7, <2>9, SamePlaces
    <3> QED BY <2>7, <2>8, <2>9, <2>10, <3>2, <3>3
  <2>12. (Unwritten(f) = {n \in FileBno : n * BY2BLK < fs.size[f] /\ Place(fs, <<f, n>>) \in fs.announced})'
    BY UnwrittenIs, PTL
  <2>13. Unwritten(f)' = {n \in FileBno : n * BY2BLK < u.size[f] /\ Place(u, <<f, n>>) \in u.announced}
    BY <2>9, <2>12
  <2> QED BY <2>11, <2>13
<1> QED BY <1>1

\* After fs_sync no announced change to a block of a regular file is unwritten.
LEMMA SyncStep ==
  \A f \in File : Inv /\ ServeSync => Unwritten(f)' = {}
<1>1. ASSUME Inv, ServeSync, NEW f \in File
      PROVE  Unwritten(f)' = {}
  <2>1. PICK t : t = FsSync(fs)
    OBVIOUS
  <2>2. /\ Sound(t) /\ Grows(fs, t) /\ t.status = fs.status
        /\ t.status = "ok" => \A p \in DataPlaces : Place(t, p) \notin t.announced
    BY <1>1, <2>1, FsSyncSound DEF Inv
  <2>3. Become(t) /\ fs.status = "ok"
    BY <1>1, <2>1 DEF ServeSync, Become
  <2>4. SameTree(t, fs') /\ fs'.announced = t.announced
    BY <1>1, <2>2, <2>3, RequestSound
  <2>5. PICK u : u = fs'
    OBVIOUS
  <2>6. ASSUME NEW n \in FileBno PROVE Place(u, <<f, n>>) \notin u.announced
    <3>1. <<f, n>> \in DataPlaces
      BY DEF DataPlaces
    <3>2. Place(u, <<f, n>>) = Place(t, <<f, n>>)
      BY <2>4, <2>5, SamePlaces
    <3> QED BY <2>2, <2>3, <2>4, <2>5, <3>1, <3>2
  <2>7. (Unwritten(f) = {n \in FileBno : n * BY2BLK < fs.size[f] /\ Place(fs, <<f, n>>) \in fs.announced})'
    BY UnwrittenIs, PTL
  <2>8. Unwritten(f)' = {n \in FileBno : n * BY2BLK < u.size[f] /\ Place(u, <<f, n>>) \in u.announced}
    BY <2>5, <2>7
  <2> QED BY <2>6, <2>8
<1> QED BY <1>1

\* What `last` says of the step that was just taken.
LEMMA LastServed ==
  ASSUME [Next]_vars
  PROVE  \/ UNCHANGED vars
         \/ last' = Plain
         \/ ServeSync /\ last' = Synced
         \/ \E f \in File, k \in Pages : ServeClose(f, k) /\ last' = Closed(f)
BY DEF Next, FsTest, ServeSync, ClientUnmap, ServeOpen, ServeClose, ServeRemove, ServeMap,
       ServeDirty, ServeSetSize

\* What is unwritten does not change when nothing does.
LEMMA UnwrittenStays ==
  ASSUME UNCHANGED vars
  PROVE  \A f : Unwritten(f)' = Unwritten(f)
BY DEF vars, Unwritten, BlockOf

\* The request close of the server ends with every announced change to the file
\* on the disk, whatever was requested before (file_close, file_flush).
THEOREM CloseWrites == Spec => []CloseSaves
<1>1. Init => CloseSaves
  BY DEF Init, CloseSaves, Plain
<1>2. Inv /\ CloseSaves /\ [Next]_vars => CloseSaves'
  <2> SUFFICES ASSUME Inv, CloseSaves, [Next]_vars PROVE CloseSaves'
    OBVIOUS
  <2>1. CASE UNCHANGED vars
    BY <2>1, UnwrittenStays DEF vars, CloseSaves
  <2>2. CASE last' = Plain \/ last' = Synced
    BY <2>2 DEF CloseSaves, Plain, Synced
  <2>3. ASSUME NEW f \in File, NEW k \in Pages, ServeClose(f, k), last' = Closed(f)
        PROVE  CloseSaves'
    <3>1. fs'.status = "ok" => Unwritten(f)' = {}
      BY <2>3, CloseStep
    <3> QED BY <2>3, <3>1 DEF CloseSaves, Closed
  <2> QED BY <2>1, <2>2, <2>3, LastServed
<1> QED BY <1>1, <1>2, InvHolds, PTL DEF Spec

\* The request sync of the server ends with every announced change to a regular
\* file on the disk (fs_sync).
THEOREM SyncWrites == Spec => []SyncSavesFiles
<1>1. Init => SyncSavesFiles
  BY DEF Init, SyncSavesFiles, Plain
<1>2. Inv /\ SyncSavesFiles /\ [Next]_vars => SyncSavesFiles'
  <2> SUFFICES ASSUME Inv, SyncSavesFiles, [Next]_vars PROVE SyncSavesFiles'
    OBVIOUS
  <2>1. CASE UNCHANGED vars
    BY <2>1, UnwrittenStays DEF vars, SyncSavesFiles
  <2>2. CASE last' = Plain \/ \E f \in File : last' = Closed(f)
    BY <2>2 DEF SyncSavesFiles, Plain, Closed
  <2>3. CASE ServeSync /\ last' = Synced
    <3>1. \A f \in File : Unwritten(f)' = {}
      BY <2>3, SyncStep
    <3> QED BY <2>3, <3>1 DEF SyncSavesFiles, Synced
  <2> QED BY <2>1, <2>2, <2>3, LastServed
<1> QED BY <1>1, <1>2, InvHolds, PTL DEF Spec
=============================================================================
