--------------------------- MODULE FsFormatProofs ---------------------------
(***************************************************************************)
(* Proofs about the image that tools/fsformat writes, for every tree of    *)
(* files that fits on the disk.                                            *)
(***************************************************************************)
EXTENDS FsBlocks, FiniteSetTheorems, NaturalsInduction, WellFoundedInduction, TLAPS

-----------------------------------------------------------------------------
(* Loops: FoldLeft over the numbers from m to n - 1                        *)

\* What holds at 0 and is handed on holds up to n.
LEMMA UpTo ==
  ASSUME NEW n \in Nat, NEW P, 0 \in P, \A i \in 0 .. n - 1 : i \in P => i + 1 \in P
  PROVE  \A i \in 0 .. n : i \in P
<1> SUFFICES ASSUME NEW x \in 0 .. n, x \notin P PROVE FALSE
  OBVIOUS
<1> DEFINE Bad == {i \in 0 .. n : i \notin P}
<1>1. Bad \in SUBSET Nat /\ Bad # {}
  OBVIOUS
<1>2. PICK d \in Bad : \A i \in Bad : ~ (<<i, d>> \in OpToRel(<, Nat))
  BY <1>1, NatLessThanWellFounded, WFMin
<1>3. \A i \in Bad : ~ (i < d)
  BY <1>1, <1>2 DEF OpToRel
<1>4. d # 0 /\ d \in 0 .. n /\ d \notin P
  OBVIOUS
<1>5. d - 1 \in 0 .. n - 1 /\ d - 1 + 1 = d /\ d - 1 < d /\ d - 1 \in 0 .. n
  BY <1>4
<1>6. d - 1 \in P
  BY <1>3, <1>5
<1> QED BY <1>4, <1>5, <1>6

\* The largest number of the first i ones is i.
LEMMA MaxIs ==
  ASSUME NEW S, NEW n \in Nat, S \subseteq 1 .. n, n \in S
  PROVE  Max(S) = n
<1>1. n \in S /\ \A y \in S : n >= y
  OBVIOUS
<1>2. \A x \in S : (\A y \in S : x >= y) => x = n
  OBVIOUS
<1> QED BY <1>1, <1>2, Zenon DEF Max

\* Finitely many numbers have a largest one.
LEMMA MaxIn ==
  ASSUME NEW n \in Nat, NEW S, S \subseteq 1 .. n, S # {}
  PROVE  Max(S) \in S /\ Max(S) \in 1 .. n
<1> DEFINE T == {x \in 0 .. n : n - x \in S}
<1>1. T \in SUBSET Nat /\ T # {}
  <2>1. PICK y \in S : y \in 1 .. n
    OBVIOUS
  <2>2. n - y \in 0 .. n /\ n - (n - y) \in S
    BY <2>1
  <2>3. n - y \in T
    BY <2>2
  <2>4. T \in SUBSET Nat
    OBVIOUS
  <2> HIDE DEF T
  <2> QED BY <2>3, <2>4
<1>2. PICK d \in T : \A x \in T : ~ (<<x, d>> \in OpToRel(<, Nat))
  BY <1>1, NatLessThanWellFounded, WFMin
<1>3. \A x \in T : ~ (x < d)
  BY <1>1, <1>2 DEF OpToRel
<1>4. \A y \in S : n - d >= y
  <2> SUFFICES ASSUME NEW y \in S PROVE n - d >= y
    OBVIOUS
  <2>1. y \in 1 .. n /\ n - y \in 0 .. n /\ n - (n - y) = y
    OBVIOUS
  <2>2. ~ (n - y < d)
    BY <1>3, <2>1
  <2> QED BY <2>1, <2>2
<1>5. \E x \in S : \A y \in S : x >= y
  BY <1>4
<1> QED BY <1>5 DEF Max

\* The first numbers, with and without the last of them.
LEMMA FirstOnes ==
  ASSUME NEW k \in Nat, NEW i \in 0 .. k - 1
  PROVE  /\ 1 .. i + 1 \in SUBSET (1 .. k) /\ 1 .. i + 1 # {} /\ i \in 0 .. k /\ i + 1 \in 0 .. k
         /\ Max(1 .. i + 1) = i + 1 /\ (1 .. i + 1) \ {i + 1} = 1 .. i
<1>1. /\ i + 1 \in Nat /\ i + 1 \in 1 .. i + 1 /\ 1 .. i + 1 \subseteq 1 .. i + 1
      /\ (1 .. i + 1) \ {i + 1} = 1 .. i /\ 1 .. i + 1 # {} /\ 1 .. i + 1 \in SUBSET (1 .. k)
      /\ i \in 0 .. k /\ i + 1 \in 0 .. k
  OBVIOUS
<1>2. Max(1 .. i + 1) = i + 1
  BY <1>1, MaxIs
<1> QED BY <1>1, <1>2

\* h folds the step F from w over each set of the numbers from 1 to n, the
\* largest one last.
Folds(h, F, w, n) ==
    \A S \in SUBSET (1 .. n) :
        h[S] = IF S = {} THEN w ELSE F[<<h[S \ {Max(S)}], Max(S)>>]

\* A step on W, from a first state, has a fold over each set of steps.
LEMMA FoldExists ==
  ASSUME NEW n \in Nat, NEW W, NEW w \in W, NEW F \in [W \X Nat -> W]
  PROVE  \E h \in [SUBSET (1 .. n) -> W] : Folds(h, F, w, n)
<1> DEFINE Is(h, k) == h \in [SUBSET (1 .. k) -> W] /\ Folds(h, F, w, k)
           P == {k \in 0 .. n : \E h : Is(h, k)}
<1>1. 0 \in P
  <2>1. 1 .. 0 = {}
    OBVIOUS
  <2> DEFINE g == [S \in SUBSET (1 .. 0) |-> w]
  <2>2. g \in [SUBSET (1 .. 0) -> W] /\ \A S \in SUBSET (1 .. 0) : S = {} /\ g[S] = w
    BY <2>1
  <2>3. Is(g, 0)
    BY <2>2 DEF Folds
  <2> HIDE DEF g, Is
  <2>4. \E h : Is(h, 0)
    BY <2>3
  <2> QED BY <2>4
<1>2. ASSUME NEW k \in 0 .. n - 1, k \in P PROVE k + 1 \in P
  <2>1. PICK h : Is(h, k)
    BY <1>2
  <2> DEFINE m == k + 1
             g == [S \in SUBSET (1 .. m) |->
                     IF m \in S THEN F[<<h[S \ {m}], m>>] ELSE h[S]]
  <2>2. \A S \in SUBSET (1 .. m) : S \ {m} \in SUBSET (1 .. k)
    OBVIOUS
  <2>3. g \in [SUBSET (1 .. m) -> W]
    <3>1. \A S \in SUBSET (1 .. m) : h[S \ {m}] \in W
      BY <2>1, <2>2
    <3>2. \A S \in SUBSET (1 .. m) : m \notin S => h[S] \in W
      <4>1. \A S \in SUBSET (1 .. m) : m \notin S => S \ {m} = S
        OBVIOUS
      <4> QED BY <3>1, <4>1
    <3> QED BY <3>1, <3>2
  <2>4. ASSUME NEW S \in SUBSET (1 .. m)
        PROVE  g[S] = IF S = {} THEN w ELSE F[<<g[S \ {Max(S)}], Max(S)>>]
    <3>1. CASE m \in S
      <4>1. Max(S) = m
        BY <3>1, m \in Nat, MaxIs
      <4>2. g[S \ {m}] = h[S \ {m}]
        OBVIOUS
      <4> QED BY <3>1, <4>1, <4>2
    <3>2. CASE m \notin S
      <4>1. S \in SUBSET (1 .. k) /\ S \ {Max(S)} \in SUBSET (1 .. k)
        BY <2>2, <3>2
      <4>2. g[S] = h[S] /\ g[S \ {Max(S)}] = h[S \ {Max(S)}]
        BY <3>2, <4>1
      <4> QED BY <2>1, <4>1, <4>2 DEF Folds
    <3> QED BY <3>1, <3>2
  <2>5. Is(g, m)
    <3> HIDE DEF g
    <3> QED BY <2>3, <2>4 DEF Folds
  <2>6. m \in 0 .. n
    OBVIOUS
  <2> QED BY <2>5, <2>6
<1>3. n \in P
  <2> HIDE DEF P
  <2> QED BY <1>1, <1>2, UpTo
<1> QED BY <1>3

\* So does g, on which nothing more is known.
FoldsOn(g, F, w, n, W) ==
    /\ g[{}] = w
    /\ \A S \in SUBSET (1 .. n) :
         S # {} /\ g[S \ {Max(S)}] \in W => g[S] = F[<<g[S \ {Max(S)}], Max(S)>>]

\* at goes by steps F from w to what g is for all numbers.
Steps(at, F, w, g, n) ==
    /\ at[0] = w /\ at[n] = g[1 .. n]
    /\ \A i \in 0 .. n - 1 : at[i + 1] = F[<<at[i], i + 1>>]

\* A fold over the first n numbers is a chain of n steps.
LEMMA Chain ==
  ASSUME NEW n \in Nat, NEW W, NEW w \in W, NEW F \in [W \X Nat -> W], NEW g,
         FoldsOn(g, F, w, n, W)
  PROVE  \E at \in [0 .. n -> W] : Steps(at, F, w, g, n)
<1> DEFINE at == [i \in 0 .. n |-> g[1 .. i]]
<1>1. at[0] = w /\ at[n] = g[1 .. n]
  <2>1. 1 .. 0 = {} /\ 0 \in 0 .. n /\ n \in 0 .. n
    OBVIOUS
  <2> QED BY <2>1 DEF FoldsOn
<1>2. \A i \in 0 .. n - 1 : at[i] \in W => at[i + 1] = F[<<at[i], i + 1>>]
  <2> SUFFICES ASSUME NEW i \in 0 .. n - 1, at[i] \in W PROVE at[i + 1] = F[<<at[i], i + 1>>]
    OBVIOUS
  <2>1. /\ 1 .. i + 1 \in SUBSET (1 .. n) /\ 1 .. i + 1 # {} /\ i \in 0 .. n /\ i + 1 \in 0 .. n
        /\ Max(1 .. i + 1) = i + 1 /\ (1 .. i + 1) \ {i + 1} = 1 .. i
    BY FirstOnes
  <2>2. at[i] = g[1 .. i] /\ at[i + 1] = g[1 .. i + 1]
    BY <2>1
  <2> HIDE DEF at
  <2> QED BY <2>1, <2>2 DEF FoldsOn
<1>3. at \in [0 .. n -> W]
  <2> DEFINE P == {i \in 0 .. n : at[i] \in W}
  <2>1. 0 \in P
    <3> HIDE DEF at
    <3> QED BY <1>1
  <2>2. \A i \in 0 .. n - 1 : i \in P => i + 1 \in P
    <3> HIDE DEF at
    <3> SUFFICES ASSUME NEW i \in 0 .. n - 1, at[i] \in W PROVE at[i + 1] \in W /\ i + 1 \in 0 .. n
      OBVIOUS
    <3>1. <<at[i], i + 1>> \in W \X Nat /\ at[i + 1] = F[<<at[i], i + 1>>]
      BY <1>2
    <3> QED BY <3>1
  <2>3. \A i \in 0 .. n : i \in P
    <3> HIDE DEF P
    <3> QED BY <2>1, <2>2, UpTo
  <2> QED BY <2>3
<1> HIDE DEF at
<1>4. \A i \in 0 .. n - 1 : i \in 0 .. n
  OBVIOUS
<1>5. Steps(at, F, w, g, n)
  BY <1>1, <1>2, <1>3, <1>4 DEF Steps
<1> QED BY <1>1, <1>3, <1>5

-----------------------------------------------------------------------------
(* Places of pointers                                                      *)

\* What is at place p; At of FsBlocks is that of fs.
Place(s, p) ==
    IF p[2] = INDIRECT THEN s.indirect[p[1]]
    ELSE IF p[2] < NDIRECT THEN s.direct[p[1]][p[2]]
    ELSE IF s.indirect[p[1]] = 0 THEN 0 ELSE s.entry[s.indirect[p[1]]][p[2]]

Entries == [NDIRECT .. NINDIRECT - 1 -> Block]

\* What the assumptions say of constants.
LEMMA FormatFacts ==
    /\ NBlocks \in Nat \ {0} /\ NDIRECT \in Nat \ {0} /\ NINDIRECT \in Nat /\ NDIRECT < NINDIRECT
    /\ BY2BLK \in Nat \ {0} /\ BIT2BLK \in Nat \ {0}
    /\ 0 \in Block /\ Block \subseteq Nat /\ -1 \notin Block
    /\ Root \in AllFiles /\ File \subseteq AllFiles /\ Root \notin File
    /\ FileBno \subseteq Nat /\ INDIRECT \notin FileBno
    /\ NoEntries \in Entries /\ \A n \in NDIRECT .. NINDIRECT - 1 : NoEntries[n] = 0
<1>1. /\ NBlocks \in Nat \ {0} /\ NDIRECT \in Nat \ {0} /\ NINDIRECT \in Nat /\ NDIRECT < NINDIRECT
      /\ BY2BLK \in Nat \ {0} /\ BIT2BLK \in Nat \ {0}
  BY FsFormatAssumption
<1>2. Root \in AllFiles /\ File \subseteq AllFiles /\ Root \notin File
  BY FsFormatAssumption DEF AllFiles
<1>3. 0 \in Block /\ Block \subseteq Nat /\ -1 \notin Block
  BY <1>1 DEF Block
<1> QED BY <1>1, <1>2, <1>3 DEF FileBno, INDIRECT, NoEntries, Entries

-----------------------------------------------------------------------------
(* The image while it is written                                           *)

\* What can be read where a direct pointer is expected
Direct == Nat \cup {q[n] : q \in [0 .. NDIRECT - 1 -> Nat], n \in Nat}

Disk ==
    [next : Nat, home : [AllFiles -> Direct], size : [AllFiles -> Nat],
     direct : [AllFiles -> [0 .. NDIRECT - 1 -> Nat]], indirect : [AllFiles -> Nat],
     entry : [Block -> [NDIRECT .. NINDIRECT - 1 -> Nat]]]

\* An entry of an indirect block is a block that has been taken.
Entered(d) == \A x \in Block, i \in NDIRECT .. NINDIRECT - 1 : d.entry[x][i] < d.next

\* Places lead to different blocks, which have been taken.
Linked(d) ==
    /\ d.next >= 2 + NBitBlock /\ Entered(d)
    /\ \A p \in Places : Place(d, p) # 0 => Place(d, p) \in 2 + NBitBlock .. d.next - 1
    /\ \A p, q \in Places : Place(d, p) = Place(d, q) /\ Place(d, p) # 0 => p = q
    /\ \A b \in Block : b >= d.next => d.entry[b] = NoEntries

\* The struct Files are in the blocks of the root directory, which has as many
\* as its size says.
Homed(d) ==
    /\ d.home[Root] = 1
    /\ \A f \in File : d.home[f] # 0 => \E n \in 0 .. NDIRECT - 1 : d.home[f] = d.direct[Root][n]
    /\ \A n \in 0 .. NDIRECT - 1 : d.direct[Root][n] # 0 <=> n < d.size[Root] \div BY2BLK

\* The files do not fit.
TooBig(d) == d.next > NBlocks \/ d.size[Root] \div BY2BLK > NDIRECT

Good(d) == d \in Disk /\ (TooBig(d) \/ (Linked(d) /\ Homed(d)))

\* The image never shrinks, and a file once in it stays.
More(d, t) ==
    /\ d.next <= t.next /\ d.size[Root] \div BY2BLK <= t.size[Root] \div BY2BLK
    /\ ~ TooBig(t) => \A f \in File : d.home[f] # 0 => t.home[f] # 0

\* The types of the fields.
LEMMA DiskFields ==
  ASSUME NEW d \in Disk
  PROVE  /\ d.next \in Nat /\ d.home \in [AllFiles -> Direct] /\ d.size \in [AllFiles -> Nat]
         /\ d.direct \in [AllFiles -> [0 .. NDIRECT - 1 -> Nat]] /\ d.indirect \in [AllFiles -> Nat]
         /\ d.entry \in [Block -> [NDIRECT .. NINDIRECT - 1 -> Nat]]
BY DEF Disk

\* save_block_link keeps the types.
LEMMA SaveBlockLinkType ==
  ASSUME NEW d \in Disk, NEW f \in AllFiles, NEW n \in Nat, NEW b \in Nat
  PROVE  LET t == SaveBlockLink(d, f, n, b)
         IN  t \in Disk /\ t.home = d.home /\ t.size = d.size /\ t.next \in {d.next, d.next + 1}
<1>1. CASE n < NDIRECT
  <2> DEFINE t == [d EXCEPT !.direct[f][n] = b]
  <2>1. n \in 0 .. NDIRECT - 1
    BY <1>1, FormatFacts
  <2>2. t \in Disk /\ t.home = d.home /\ t.size = d.size /\ t.next = d.next
    BY <2>1 DEF Disk
  <2>3. SaveBlockLink(d, f, n, b) = t
    BY <1>1 DEF SaveBlockLink
  <2> HIDE DEF t
  <2> QED BY <2>2, <2>3
<1>2. CASE ~ (n < NDIRECT)
  <2> DEFINE i == [s |-> [d EXCEPT !.next = @ + 1], r |-> d.next]
             u == IF d.indirect[f] = 0 THEN [i.s EXCEPT !.indirect[f] = i.r] ELSE d
             t == [u EXCEPT !.entry[u.indirect[f]][n] = b]
  <2>1. SaveBlockLink(d, f, n, b) = t
    BY <1>2 DEF SaveBlockLink, NextBlock, Out
  <2>2. u \in Disk /\ u.home = d.home /\ u.size = d.size /\ u.next \in {d.next, d.next + 1}
    <3>1. CASE d.indirect[f] = 0
      <4> DEFINE w == [d EXCEPT !.next = @ + 1]
      <4>1. w \in Disk /\ w.home = d.home /\ w.size = d.size /\ w.next = d.next + 1 /\ d.next \in Nat
        <5>1. d.next \in Nat /\ d.next + 1 \in Nat
          BY DiskFields
        <5> HIDE DEF u
        <5> QED BY <5>1 DEF Disk
      <4>2. u = [w EXCEPT !.indirect[f] = d.next]
        BY <3>1
      <4> HIDE DEF w
      <4> QED BY <4>1, <4>2 DEF Disk
    <3>2. CASE d.indirect[f] # 0
      BY <3>2
    <3> QED BY <3>1, <3>2
  <2> HIDE DEF u
  <2>3. t \in Disk /\ t.home = u.home /\ t.size = u.size /\ t.next = u.next
    BY <2>2 DEF Disk
  <2> HIDE DEF t
  <2> QED BY <2>1, <2>2, <2>3
<1> QED BY <1>1, <1>2

\* The places get no block but b at q and c at z.
Links(d, t, q, b, z, c) ==
    \A p \in Places : \/ Place(t, p) = Place(d, p)
                      \/ p = q /\ Place(t, p) = b
                      \/ p = z /\ Place(t, p) = c

\* Two blocks that have just been taken are linked, or one.
LEMMA LinkStep ==
  ASSUME NEW d, NEW t, Linked(d), d.next \in Nat, t.next \in Nat, d.next <= t.next,
         NEW q, NEW b, b \in d.next .. t.next - 1, NEW z, NEW c, c \in d.next .. t.next - 1,
         q = z \/ b # c, Links(d, t, q, b, z, c), Entered(t),
         \A x \in Block : x >= t.next => t.entry[x] = d.entry[x]
  PROVE  Linked(t)
<1>1. NBitBlock \in Nat
  BY FormatFacts DEF NBitBlock
<1>2. /\ t.next >= 2 + NBitBlock
      /\ \A x \in Block : x >= t.next => t.entry[x] = NoEntries
  BY <1>1, FormatFacts DEF Linked
<1>3. \A p \in Places : Place(t, p) # 0 => Place(t, p) \in 2 + NBitBlock .. t.next - 1
  BY <1>1 DEF Linked, Links
<1>4. \A p \in Places : Place(d, p) # b /\ Place(d, p) # c
  BY <1>1 DEF Linked
<1>5. \A p, r \in Places : Place(t, p) = Place(t, r) /\ Place(t, p) # 0 => p = r
  BY <1>4 DEF Linked, Links
<1> QED BY <1>2, <1>3, <1>5 DEF Linked

\* What a place is
LEMMA PlaceOf ==
  ASSUME NEW p \in Places
  PROVE  \E g \in AllFiles, i \in FileBno \cup {INDIRECT} : p = <<g, i>>
BY DEF Places

\* The next block becomes a direct block.
LEMMA LinkDirect ==
  ASSUME NEW d \in Disk, Linked(d), NEW f \in AllFiles, NEW n \in 0 .. NDIRECT - 1,
         NEW t \in Disk, t.next = d.next + 1, t.indirect = d.indirect, t.entry = d.entry,
         t.direct = [d.direct EXCEPT ![f] = [d.direct[f] EXCEPT ![n] = d.next]]
  PROVE  Linked(t)
<1>1. /\ d.next \in Nat /\ d.direct \in [AllFiles -> [0 .. NDIRECT - 1 -> Nat]]
      /\ n # INDIRECT /\ n < NDIRECT
  <2>1. n # INDIRECT /\ n < NDIRECT
    BY FormatFacts DEF INDIRECT
  <2> QED BY <2>1, DiskFields
<1>2. ASSUME NEW p \in Places
      PROVE  Place(t, p) = Place(d, p) \/ (p = <<f, n>> /\ Place(t, p) = d.next)
  <2>1. PICK g \in AllFiles, i \in FileBno \cup {INDIRECT} : p = <<g, i>>
    BY PlaceOf
  <2>2. t.direct[g] = IF g = f THEN [d.direct[f] EXCEPT ![n] = d.next] ELSE d.direct[g]
    BY <1>1
  <2>3. CASE i = INDIRECT \/ ~ (i < NDIRECT)
    BY <2>1, <2>3 DEF Place
  <2>4. CASE i # INDIRECT /\ i < NDIRECT
    <3>1. i \in 0 .. NDIRECT - 1
      BY <2>1, <2>4, FormatFacts
    <3>2. d.direct[f] \in [0 .. NDIRECT - 1 -> Nat]
      BY <1>1
    <3>3. t.direct[g][i] = IF g = f /\ i = n THEN d.next ELSE d.direct[g][i]
      BY <2>2, <3>1, <3>2
    <3> QED BY <2>1, <2>4, <3>3 DEF Place
  <2> QED BY <2>3, <2>4
<1>3. d.next \in d.next .. t.next - 1 /\ t.next \in Nat /\ d.next <= t.next
  BY <1>1
<1>4. Links(d, t, <<f, n>>, d.next, <<f, n>>, d.next)
  BY <1>2 DEF Links
<1>5. Entered(t)
  <2>1. \A y \in Block, i \in NDIRECT .. NINDIRECT - 1 : t.entry[y][i] \in Nat /\ t.entry[y][i] < d.next
    <3>1. Entered(d)
      BY DEF Linked
    <3>2. t.entry = d.entry /\ d.entry \in [Block -> [NDIRECT .. NINDIRECT - 1 -> Nat]]
      BY DiskFields
    <3>3. \A y \in Block : t.entry[y] \in [NDIRECT .. NINDIRECT - 1 -> Nat]
      BY <3>2
    <3> QED BY <3>1, <3>2, <3>3 DEF Entered
  <2> QED BY <1>1, <1>3, <2>1 DEF Entered
<1> QED BY <1>1, <1>3, <1>4, <1>5, LinkStep

\* The next block is linked behind an indirect block x of f.
LEMMA LinkBehind ==
  ASSUME NEW d \in Disk, Linked(d), NEW f \in AllFiles, NEW n \in NDIRECT .. NINDIRECT - 1,
         NEW t \in Disk, t.next = d.next + 1, t.indirect = d.indirect, t.direct = d.direct,
         d.indirect[f] # 0, NEW x, x = d.indirect[f], d.next <= NBlocks,
         t.entry = [d.entry EXCEPT ![x] = [d.entry[x] EXCEPT ![n] = d.next]]
  PROVE  Linked(t)
<1>1. /\ d.next \in Nat /\ d.indirect \in [AllFiles -> Nat] /\ n # INDIRECT /\ ~ (n < NDIRECT)
      /\ d.entry \in [Block -> [NDIRECT .. NINDIRECT - 1 -> Nat]]
  <2>1. n # INDIRECT /\ ~ (n < NDIRECT)
    BY FormatFacts DEF INDIRECT
  <2> QED BY <2>1, DiskFields
<1>2. \A g \in AllFiles : <<g, INDIRECT>> \in Places /\ Place(d, <<g, INDIRECT>>) = d.indirect[g]
  BY DEF Places, Place
<1>3. x \in Block /\ x < d.next /\ \A g \in AllFiles : d.indirect[g] = x => g = f
  <2>1. NBitBlock \in Nat
    BY FormatFacts DEF NBitBlock
  <2>2. x \in 2 + NBitBlock .. d.next - 1
    BY <1>2 DEF Linked
  <2>3. ASSUME NEW g \in AllFiles, d.indirect[g] = x PROVE g = f
    <3>1. Place(d, <<g, INDIRECT>>) = Place(d, <<f, INDIRECT>>) /\ Place(d, <<g, INDIRECT>>) # 0
      BY <1>2, <2>3
    <3>2. <<g, INDIRECT>> = <<f, INDIRECT>>
      BY <1>2, <3>1 DEF Linked
    <3> QED BY <3>2
  <2>4. x \in Block /\ x < d.next
    <3>1. x \in Nat /\ x < d.next
      BY <1>1, <2>1, <2>2
    <3>2. x <= NBlocks - 1
      BY <1>1, <3>1, FormatFacts
    <3> QED BY <3>1, <3>2, FormatFacts DEF Block
  <2> QED BY <2>3, <2>4
<1>4. ASSUME NEW p \in Places
      PROVE  Place(t, p) = Place(d, p) \/ (p = <<f, n>> /\ Place(t, p) = d.next)
  <2>1. PICK g \in AllFiles, i \in FileBno \cup {INDIRECT} : p = <<g, i>>
    BY PlaceOf
  <2>2. CASE i = INDIRECT \/ i < NDIRECT \/ d.indirect[g] = 0
    BY <2>1, <2>2 DEF Place
  <2>3. CASE i # INDIRECT /\ ~ (i < NDIRECT) /\ g # f
    <3>1. d.indirect[g] # x
      BY <1>3, <2>1, <2>3
    <3>2. t.entry[d.indirect[g]] = d.entry[d.indirect[g]]
      BY <1>1, <1>3, <3>1
    <3> QED BY <2>1, <2>3, <3>2 DEF Place
  <2>4. CASE i # INDIRECT /\ ~ (i < NDIRECT) /\ g = f
    <3>1. i \in NDIRECT .. NINDIRECT - 1
      BY <2>1, <2>4, FormatFacts DEF FileBno
    <3>2. d.entry[x] \in [NDIRECT .. NINDIRECT - 1 -> Nat]
      BY <1>1, <1>3
    <3>3. t.entry[x] = [d.entry[x] EXCEPT ![n] = d.next]
      BY <1>1, <1>3
    <3>4. t.entry[x][i] = IF i = n THEN d.next ELSE d.entry[x][i]
      BY <3>1, <3>2, <3>3
    <3> QED BY <2>1, <2>4, <3>4 DEF Place
  <2> QED BY <2>2, <2>3, <2>4
<1>5. d.next \in d.next .. t.next - 1 /\ t.next \in Nat /\ d.next <= t.next
  BY <1>1
<1>6. \A b \in Block : b >= t.next => t.entry[b] = d.entry[b]
  <2>1. ASSUME NEW b \in Block, b >= t.next PROVE b # x
    BY <1>1, <1>3, <1>5, <2>1, FormatFacts
  <2> QED BY <1>1, <1>3, <2>1
<1>7. Links(d, t, <<f, n>>, d.next, <<f, n>>, d.next)
  BY <1>4 DEF Links
<1>8. Entered(t)
  <2> SUFFICES ASSUME NEW y \in Block, NEW i \in NDIRECT .. NINDIRECT - 1
               PROVE  t.entry[y][i] < t.next
    BY DEF Entered
  <2>1. d.entry[y][i] \in Nat /\ d.entry[y][i] < d.next
    <3>1. Entered(d)
      BY DEF Linked
    <3>2. d.entry[y] \in [NDIRECT .. NINDIRECT - 1 -> Nat]
      BY <1>1
    <3> QED BY <3>1, <3>2 DEF Entered
  <2>2. t.entry[y] = IF y = x THEN [d.entry[x] EXCEPT ![n] = d.next] ELSE d.entry[y]
    BY <1>1, <1>3
  <2>3. d.entry[x] \in [NDIRECT .. NINDIRECT - 1 -> Nat]
    BY <1>1, <1>3
  <2>4. t.entry[y][i] \in {d.next, d.entry[y][i]}
    BY <2>2, <2>3
  <2>5. d.next < t.next
    BY <1>1
  <2> QED BY <1>1, <1>5, <2>1, <2>4, <2>5
<1> QED BY <1>1, <1>5, <1>6, <1>7, <1>8, LinkStep

\* The next block is linked behind the one after it, the new indirect block of f.
LEMMA LinkIndirect ==
  ASSUME NEW d \in Disk, Linked(d), NEW f \in AllFiles, NEW n \in NDIRECT .. NINDIRECT - 1,
         NEW t \in Disk, t.next = d.next + 2, t.direct = d.direct,
         NEW x, x = d.next + 1, d.indirect[f] = 0, t.next <= NBlocks,
         t.indirect = [d.indirect EXCEPT ![f] = x],
         t.entry = [d.entry EXCEPT ![x] = [d.entry[x] EXCEPT ![n] = d.next]]
  PROVE  Linked(t)
<1>1. /\ d.next \in Nat /\ d.indirect \in [AllFiles -> Nat] /\ n # INDIRECT /\ ~ (n < NDIRECT)
      /\ d.entry \in [Block -> [NDIRECT .. NINDIRECT - 1 -> Nat]]
  <2>1. n # INDIRECT /\ ~ (n < NDIRECT)
    BY FormatFacts DEF INDIRECT
  <2> QED BY <2>1, DiskFields
<1>2. \A g \in AllFiles : <<g, INDIRECT>> \in Places /\ Place(d, <<g, INDIRECT>>) = d.indirect[g]
  BY DEF Places, Place
<1>3. x \in Block /\ d.entry[x] = NoEntries /\ \A g \in AllFiles : d.indirect[g] # x
  <2>1. NBitBlock \in Nat
    BY FormatFacts DEF NBitBlock
  <2>2. x \in Block
    <3>1. NBlocks \in Nat
      BY FormatFacts
    <3>2. x \in Nat /\ x <= NBlocks - 1
      BY <1>1, <3>1
    <3> QED BY <3>1, <3>2 DEF Block
  <2>3. ASSUME NEW g \in AllFiles PROVE d.indirect[g] # x
    <3>1. d.indirect[g] # 0 => d.indirect[g] \in 2 + NBitBlock .. d.next - 1
      <4>1. <<g, INDIRECT>> \in Places /\ Place(d, <<g, INDIRECT>>) = d.indirect[g]
        BY <1>2
      <4>2. \A p \in Places : Place(d, p) # 0 => Place(d, p) \in 2 + NBitBlock .. d.next - 1
        BY DEF Linked
      <4>3. Place(d, <<g, INDIRECT>>) # 0 => Place(d, <<g, INDIRECT>>) \in 2 + NBitBlock .. d.next - 1
        BY <4>1, <4>2
      <4> QED BY <4>1, <4>3
    <3> QED BY <1>1, <2>1, <3>1
  <2>4. d.entry[x] = NoEntries
    BY <1>1, <2>2 DEF Linked
  <2> QED BY <2>2, <2>3, <2>4
<1>4. ASSUME NEW p \in Places
      PROVE  \/ Place(t, p) = Place(d, p)
             \/ p = <<f, n>> /\ Place(t, p) = d.next
             \/ p = <<f, INDIRECT>> /\ Place(t, p) = x
  <2>1. PICK g \in AllFiles, i \in FileBno \cup {INDIRECT} : p = <<g, i>>
    BY PlaceOf
  <2>2. t.indirect[g] = IF g = f THEN x ELSE d.indirect[g]
    BY <1>1
  <2>3. CASE i = INDIRECT \/ i < NDIRECT
    BY <2>1, <2>2, <2>3 DEF Place
  <2>4. CASE i # INDIRECT /\ ~ (i < NDIRECT) /\ g # f
    <3>1. d.indirect[g] # x
      BY <1>3
    <3>2. t.entry[d.indirect[g]] = d.entry[d.indirect[g]]
      BY <1>1, <1>3, <3>1
    <3> QED BY <2>1, <2>2, <2>4, <3>2 DEF Place
  <2>5. CASE i # INDIRECT /\ ~ (i < NDIRECT) /\ g = f
    <3>1. i \in NDIRECT .. NINDIRECT - 1
      BY <2>1, <2>5, FormatFacts DEF FileBno
    <3>2. d.entry[x] \in [NDIRECT .. NINDIRECT - 1 -> Nat]
      BY <1>1, <1>3
    <3>3. t.entry[x] = [d.entry[x] EXCEPT ![n] = d.next]
      BY <1>1, <1>3
    <3>4. t.entry[x][i] = IF i = n THEN d.next ELSE d.entry[x][i]
      BY <3>1, <3>2, <3>3
    <3>5. d.entry[x][i] = 0 /\ x # 0
      BY <1>1, <1>3, <3>1, FormatFacts
    <3>6. Place(d, p) = 0
      BY <2>1, <2>5 DEF Place
    <3>7. Place(t, p) = t.entry[x][i]
      BY <2>1, <2>2, <2>5, <3>5 DEF Place
    <3> QED BY <2>1, <2>5, <3>4, <3>5, <3>6, <3>7
  <2> QED BY <2>3, <2>4, <2>5
<1>5. /\ d.next \in d.next .. t.next - 1 /\ x \in d.next .. t.next - 1 /\ d.next # x
      /\ t.next \in Nat /\ d.next <= t.next
  BY <1>1
<1>6. \A b \in Block : b >= t.next => t.entry[b] = d.entry[b]
  <2>1. \A b \in Block : b >= t.next => b # x
    BY <1>1, <1>5, FormatFacts
  <2>2. \A b \in Block : b # x => t.entry[b] = d.entry[b]
    BY <1>1, <1>3
  <2> QED BY <2>1, <2>2
<1>7. Links(d, t, <<f, n>>, d.next, <<f, INDIRECT>>, x)
  BY <1>4 DEF Links
<1>8. Entered(t)
  <2> SUFFICES ASSUME NEW y \in Block, NEW i \in NDIRECT .. NINDIRECT - 1
               PROVE  t.entry[y][i] < t.next
    BY DEF Entered
  <2>1. d.entry[y][i] \in Nat /\ d.entry[y][i] < d.next
    <3>1. Entered(d)
      BY DEF Linked
    <3>2. d.entry[y] \in [NDIRECT .. NINDIRECT - 1 -> Nat]
      BY <1>1
    <3> QED BY <3>1, <3>2 DEF Entered
  <2>2. t.entry[y] = IF y = x THEN [d.entry[x] EXCEPT ![n] = d.next] ELSE d.entry[y]
    BY <1>1, <1>3
  <2>3. d.entry[x] \in [NDIRECT .. NINDIRECT - 1 -> Nat]
    BY <1>1, <1>3
  <2>4. t.entry[y][i] \in {d.next, d.entry[y][i]}
    BY <2>2, <2>3
  <2>5. d.next < t.next
    BY <1>1
  <2> QED BY <1>1, <1>5, <2>1, <2>4, <2>5
<1> QED BY <1>1, <1>5, <1>6, <1>7, <1>8, LinkStep

\* A block of a regular file is taken and linked.
LEMMA LinkBlockGood ==
  ASSUME NEW d, Good(d), NEW f \in File, NEW n \in FileBno
  PROVE  LET t == LinkBlock(d, f, n)
         IN  Good(t) /\ More(d, t) /\ t.home = d.home /\ t.size = d.size
<1> DEFINE w == [d EXCEPT !.next = @ + 1]
           t == SaveBlockLink(w, f, n, d.next)
<1>1. /\ d \in Disk /\ d.next \in Nat /\ d.next + 1 \in Nat
      /\ n \in Nat /\ n <= NINDIRECT - 1 /\ f \in AllFiles /\ Root \in AllFiles /\ f # Root
  BY DiskFields, FormatFacts DEF Good, FileBno
<1>2. LinkBlock(d, f, n) = t
  BY DEF LinkBlock, NextBlock, Out
<1>3. /\ w \in Disk /\ w.next = d.next + 1 /\ w.home = d.home /\ w.size = d.size
      /\ w.direct = d.direct /\ w.indirect = d.indirect /\ w.entry = d.entry
  BY <1>1 DEF Disk
<1> HIDE DEF w
<1>4. t \in Disk /\ t.home = d.home /\ t.size = d.size /\ t.next \in {d.next + 1, d.next + 2}
  <2>1. t \in Disk /\ t.home = w.home /\ t.size = w.size /\ t.next \in {w.next, w.next + 1}
    BY <1>1, <1>3, SaveBlockLinkType
  <2> HIDE DEF t
  <2>2. w.next + 1 = d.next + 2
    BY <1>1, <1>3
  <2> QED BY <1>3, <2>1, <2>2
<1>5. ASSUME ~ TooBig(t), Linked(d)
      PROVE  Linked(t) /\ t.direct[Root] = d.direct[Root]
  <2>1. d.next <= NBlocks /\ t.next <= NBlocks
    BY <1>1, <1>4, <1>5, FormatFacts DEF TooBig
  <2>2. CASE n < NDIRECT
    <3>1. n \in 0 .. NDIRECT - 1
      BY <1>1, <2>2, FormatFacts
    <3>2. t = [w EXCEPT !.direct[f][n] = d.next]
      BY <2>2 DEF SaveBlockLink
    <3>3. /\ t.next = d.next + 1 /\ t.indirect = d.indirect /\ t.entry = d.entry
          /\ t.direct = [d.direct EXCEPT ![f] = [d.direct[f] EXCEPT ![n] = d.next]]
      BY <1>3, <3>2 DEF Disk
    <3> HIDE DEF t
    <3>4. Linked(t)
      BY <1>1, <1>4, <1>5, <3>1, <3>3, LinkDirect
    <3>5. t.direct[Root] = d.direct[Root]
      BY <1>1, <3>3, DiskFields
    <3> QED BY <3>4, <3>5
  <2>3. CASE ~ (n < NDIRECT) /\ d.indirect[f] # 0
    <3>1. n \in NDIRECT .. NINDIRECT - 1
      BY <1>1, <2>3, FormatFacts
    <3>2. t = [w EXCEPT !.entry[w.indirect[f]][n] = d.next]
      BY <1>3, <2>3 DEF SaveBlockLink
    <3> DEFINE x == d.indirect[f]
    <3>3. /\ t.next = d.next + 1 /\ t.indirect = d.indirect /\ t.direct = d.direct
          /\ t.entry = [d.entry EXCEPT ![x] = [d.entry[x] EXCEPT ![n] = d.next]]
      BY <1>3, <3>2 DEF Disk
    <3> HIDE DEF t
    <3>4. Linked(t)
      BY <1>1, <1>4, <1>5, <2>1, <2>3, <3>1, <3>3, LinkBehind
    <3> QED BY <3>3, <3>4
  <2>4. CASE ~ (n < NDIRECT) /\ d.indirect[f] = 0
    <3>1. n \in NDIRECT .. NINDIRECT - 1
      BY <1>1, <2>4, FormatFacts
    <3> DEFINE x == d.next + 1
               y == [w EXCEPT !.next = @ + 1]
               v == [y EXCEPT !.indirect[f] = w.next]
    <3>2. t = [v EXCEPT !.entry[v.indirect[f]][n] = d.next]
      BY <1>3, <2>4 DEF SaveBlockLink, NextBlock, Out
    <3>3. /\ y \in Disk /\ y.next = d.next + 2
          /\ y.direct = d.direct /\ y.indirect = d.indirect /\ y.entry = d.entry
      <4>1. w.next + 1 \in Nat /\ w.next + 1 = d.next + 2
        BY <1>1, <1>3
      <4> HIDE DEF t
      <4> QED BY <1>3, <4>1 DEF Disk
    <3> HIDE DEF y
    <3>4. /\ v \in Disk /\ v.next = d.next + 2 /\ v.direct = d.direct /\ v.entry = d.entry
          /\ v.indirect = [d.indirect EXCEPT ![f] = x]
      <4> HIDE DEF t
      <4> QED BY <1>1, <1>3, <3>3 DEF Disk
    <3>5. v.indirect[f] = x
      BY <1>1, <3>4, DiskFields
    <3> HIDE DEF v
    <3>6. /\ t.next = d.next + 2 /\ t.direct = d.direct /\ t.indirect = [d.indirect EXCEPT ![f] = x]
          /\ t.entry = [d.entry EXCEPT ![x] = [d.entry[x] EXCEPT ![n] = d.next]]
      <4>1. t.next = v.next /\ t.direct = v.direct /\ t.indirect = v.indirect
            /\ t.entry = [v.entry EXCEPT ![x] = [v.entry[x] EXCEPT ![n] = d.next]]
        BY <3>2, <3>4, <3>5 DEF Disk
      <4> HIDE DEF t
      <4> QED BY <3>4, <4>1
    <3> HIDE DEF t, x
    <3>7. Linked(t)
      <4>1. x = d.next + 1
        BY DEF x
      <4> QED BY <1>1, <1>4, <1>5, <2>1, <2>4, <3>1, <3>6, <4>1, LinkIndirect
    <3> QED BY <3>6, <3>7
  <2> QED BY <2>2, <2>3, <2>4
<1> HIDE DEF t
<1>6. More(d, t)
  <2>1. d.size[Root] \div BY2BLK \in Nat
    <3>1. d.size[Root] \in Nat
      BY <1>1, DiskFields
    <3> QED BY <3>1, FormatFacts
  <2>2. d.next <= t.next
    BY <1>1, <1>4
  <2> QED BY <1>4, <2>1, <2>2 DEF More
<1>7. TooBig(d) => TooBig(t)
  BY <1>1, <1>4, FormatFacts DEF TooBig
<1>8. ASSUME ~ TooBig(t), Homed(d), Linked(d) PROVE Homed(t)
  BY <1>4, <1>5, <1>8 DEF Homed
<1> QED BY <1>2, <1>4, <1>5, <1>6, <1>7, <1>8 DEF Good

\* More of More is more.
LEMMA MoreOn ==
  ASSUME NEW d \in Disk, NEW t \in Disk, NEW u \in Disk, More(d, t), More(t, u)
  PROVE  More(d, u)
<1>1. /\ d.next \in Nat /\ t.next \in Nat /\ u.next \in Nat
      /\ d.size[Root] \in Nat /\ t.size[Root] \in Nat /\ u.size[Root] \in Nat
  BY DiskFields, FormatFacts
<1>2. /\ d.size[Root] \div BY2BLK \in Nat /\ t.size[Root] \div BY2BLK \in Nat
      /\ u.size[Root] \div BY2BLK \in Nat
  BY <1>1, FormatFacts
<1>3. d.next <= u.next
  BY <1>1 DEF More
<1>4. d.size[Root] \div BY2BLK <= u.size[Root] \div BY2BLK
  BY <1>2 DEF More
<1>5. TooBig(t) => TooBig(u)
  BY <1>1, <1>2, FormatFacts DEF More, TooBig
<1> QED BY <1>3, <1>4, <1>5 DEF More

\* Nothing is less than itself.
LEMMA MoreItself ==
  ASSUME NEW d \in Disk
  PROVE  More(d, d)
<1>1. d.next \in Nat /\ d.size[Root] \in Nat
  BY DiskFields, FormatFacts
<1>2. d.size[Root] \div BY2BLK \in Nat
  BY <1>1, FormatFacts
<1> QED BY <1>1, <1>2 DEF More

\* at goes through the loop of write_file from s.
LinkSteps(at, s, f, k) ==
    /\ at[0] = s /\ at[k] = LinkBlocks(s, f, k)
    /\ \A i \in 0 .. k - 1 : at[i + 1] = LinkBlock(at[i], f, i)

\* The loop of write_file.
LEMMA LinkLoop ==
  ASSUME NEW W, NEW s \in W, NEW f, NEW k \in Nat,
         \A x \in W, n \in 0 .. k - 1 : LinkBlock(x, f, n) \in W
  PROVE  \E at \in [0 .. k -> W] : LinkSteps(at, s, f, k)
<1> DEFINE F == [x \in W \X Nat |-> IF x[2] \in 1 .. k THEN LinkBlock(x[1], f, x[2] - 1) ELSE x[1]]
           q == Upto(0, k)
           Is(g) == g = [S \in SUBSET (DOMAIN q) |->
                           IF S = {} THEN s ELSE LinkBlock(g[S \ {Max(S)}], f, q[Max(S)])]
<1>1. F \in [W \X Nat -> W]
  <2> SUFFICES ASSUME NEW x \in W, NEW i \in 1 .. k PROVE LinkBlock(x, f, i - 1) \in W
    OBVIOUS
  <2>1. i - 1 \in 0 .. k - 1
    OBVIOUS
  <2> QED BY <2>1
<1>2. DOMAIN q = 1 .. k /\ \A i \in 1 .. k : q[i] = i - 1
  BY DEF Upto
<1>3. LinkBlocks(s, f, k) = (CHOOSE g : Is(g))[DOMAIN q]
  BY DEF LinkBlocks, FoldLeft, MapThenFoldSet
<1>4. ASSUME NEW S \in SUBSET (1 .. k), S # {}, NEW x \in W
      PROVE  F[<<x, Max(S)>>] = LinkBlock(x, f, q[Max(S)])
  <2>1. Max(S) \in 1 .. k
    BY <1>4, MaxIn
  <2>2. Max(S) \in Nat /\ q[Max(S)] = Max(S) - 1
    BY <1>2, <2>1
  <2> QED BY <2>1, <2>2
<1>5. PICK h \in [SUBSET (1 .. k) -> W] : Folds(h, F, s, k)
  <2> HIDE DEF F
  <2> QED BY <1>1, FoldExists
<1>6. Is(h)
  <2>1. ASSUME NEW S \in SUBSET (1 .. k)
        PROVE  h[S] = IF S = {} THEN s ELSE LinkBlock(h[S \ {Max(S)}], f, q[Max(S)])
    <3> HIDE DEF F, q
    <3>1. S \ {Max(S)} \in SUBSET (1 .. k) /\ h[S \ {Max(S)}] \in W
      OBVIOUS
    <3> QED BY <1>4, <1>5, <3>1 DEF Folds
  <2> HIDE DEF F, q
  <2> QED BY <1>2, <2>1
<1> DEFINE g == CHOOSE x : Is(x)
<1>7. Is(g)
  <2> HIDE DEF Is
  <2> QED BY <1>6
<1> HIDE DEF F
<1>8. /\ g[{}] = s
      /\ \A S \in SUBSET (1 .. k) : S # {} =>
            g[S] = LinkBlock(g[S \ {Max(S)}], f, q[Max(S)])
  <2> HIDE DEF g, q
  <2> QED BY <1>2, <1>7
<1>9. LinkBlocks(s, f, k) = g[1 .. k]
  <2> HIDE DEF Is
  <2> QED BY <1>2, <1>3
<1> HIDE DEF g, q, Is
<1>10. PICK at \in [0 .. k -> W] : Steps(at, F, s, g, k)
  <2>1. FoldsOn(g, F, s, k, W)
    BY <1>4, <1>8 DEF FoldsOn
  <2> QED BY <1>1, <2>1, Chain
<1>11. ASSUME NEW i \in 0 .. k - 1
       PROVE  at[i + 1] = LinkBlock(at[i], f, i)
  <2>1. i + 1 \in Nat /\ i + 1 \in 1 .. k /\ i \in 0 .. k /\ (i + 1) - 1 = i
    OBVIOUS
  <2>2. at[i] \in W
    BY <2>1
  <2> QED BY <1>10, <2>1, <2>2 DEF F, Steps
<1>12. at[0] = s /\ at[k] = g[1 .. k]
  BY <1>10 DEF Steps
<1>13. LinkSteps(at, s, f, k)
  BY <1>9, <1>11, <1>12 DEF LinkSteps
<1> QED BY <1>13

\* at goes through the files of the image.
ImageSteps(at, k) ==
    /\ at[0] = InitDisk /\ at[k] = Image
    /\ \A i \in 0 .. k - 1 : at[i + 1] = WriteDirectory(at[i], Source[i + 1])

\* The loop over the files.
LEMMA ImageLoop ==
  ASSUME NEW W, InitDisk \in W, NEW k \in Nat, k = Len(Source),
         \A x \in W, n \in 1 .. k : WriteDirectory(x, Source[n]) \in W
  PROVE  \E at \in [0 .. k -> W] : ImageSteps(at, k)
<1> DEFINE F == [x \in W \X Nat |-> IF x[2] \in 1 .. k THEN WriteDirectory(x[1], Source[x[2]]) ELSE x[1]]
           q == Source
           Is(g) == g = [S \in SUBSET (DOMAIN q) |->
                           IF S = {} THEN InitDisk ELSE WriteDirectory(g[S \ {Max(S)}], q[Max(S)])]
<1>1. F \in [W \X Nat -> W]
  <2> SUFFICES ASSUME NEW x \in W, NEW i \in 1 .. k PROVE WriteDirectory(x, Source[i]) \in W
    OBVIOUS
  <2>1. i \in 1 .. k
    OBVIOUS
  <2> QED BY <2>1
<1>2. DOMAIN q = 1 .. k
  BY FsFormatAssumption
<1>3. Image = (CHOOSE g : Is(g))[DOMAIN q]
  BY DEF Image, FoldLeft, MapThenFoldSet
<1>4. ASSUME NEW S \in SUBSET (1 .. k), S # {}, NEW x \in W
      PROVE  F[<<x, Max(S)>>] = WriteDirectory(x, q[Max(S)])
  <2>1. Max(S) \in 1 .. k
    BY <1>4, MaxIn
  <2>2. Max(S) \in Nat
    BY <2>1
  <2> QED BY <2>1, <2>2
<1>5. PICK h \in [SUBSET (1 .. k) -> W] : Folds(h, F, InitDisk, k)
  <2> HIDE DEF F
  <2> QED BY <1>1, FoldExists
<1>6. Is(h)
  <2>1. ASSUME NEW S \in SUBSET (1 .. k)
        PROVE  h[S] = IF S = {} THEN InitDisk ELSE WriteDirectory(h[S \ {Max(S)}], q[Max(S)])
    <3> HIDE DEF F, q
    <3>1. S \ {Max(S)} \in SUBSET (1 .. k) /\ h[S \ {Max(S)}] \in W
      OBVIOUS
    <3> QED BY <1>4, <1>5, <3>1 DEF Folds
  <2> HIDE DEF F, q
  <2> QED BY <1>2, <2>1
<1> DEFINE g == CHOOSE x : Is(x)
<1>7. Is(g)
  <2> HIDE DEF Is
  <2> QED BY <1>6
<1> HIDE DEF F
<1>8. /\ g[{}] = InitDisk
      /\ \A S \in SUBSET (1 .. k) : S # {} =>
            g[S] = WriteDirectory(g[S \ {Max(S)}], q[Max(S)])
  <2> HIDE DEF g, q
  <2> QED BY <1>2, <1>7
<1>9. Image = g[1 .. k]
  <2> HIDE DEF Is
  <2> QED BY <1>2, <1>3
<1> HIDE DEF g, q, Is
<1>10. PICK at \in [0 .. k -> W] : Steps(at, F, InitDisk, g, k)
  <2>1. FoldsOn(g, F, InitDisk, k, W)
    BY <1>4, <1>8 DEF FoldsOn
  <2> QED BY <1>1, <2>1, Chain
<1>11. ASSUME NEW i \in 0 .. k - 1
       PROVE  at[i + 1] = WriteDirectory(at[i], Source[i + 1])
  <2>1. i + 1 \in Nat /\ i + 1 \in 1 .. k /\ i \in 0 .. k
    OBVIOUS
  <2>2. at[i] \in W
    BY <2>1
  <2> QED BY <1>10, <2>1, <2>2 DEF F, Steps
<1>12. at[0] = InitDisk /\ at[k] = g[1 .. k]
  BY <1>10 DEF Steps
<1>13. ImageSteps(at, k)
  BY <1>9, <1>11, <1>12 DEF ImageSteps
<1> QED BY <1>13

\* One block more
LEMMA DivNext ==
  ASSUME NEW x \in Nat, NEW y \in Nat \ {0}
  PROVE  x \div y \in Nat /\ (x + y) \div y = x \div y + 1
OBVIOUS

\* A block is added to the root directory.
LEMMA MakeLinkBlockGood ==
  ASSUME NEW d, Good(d), NEW n, n = d.size[Root] \div BY2BLK
  PROVE  LET o == MakeLinkBlock(d, Root, n)
         IN  /\ Good(o.s) /\ More(d, o.s) /\ o.s.home = d.home /\ o.r \in Nat
             /\ ~ TooBig(o.s) =>
                  o.r # 0 /\ \E m \in 0 .. NDIRECT - 1 : o.r = o.s.direct[Root][m]
<1> DEFINE u == SaveBlockLink(d, Root, n, d.next)
           v == [u EXCEPT !.size[Root] = @ + BY2BLK]
           t == [v EXCEPT !.next = @ + 1]
<1>1. /\ d \in Disk /\ d.next \in Nat /\ Root \in AllFiles /\ Root \notin File
      /\ BY2BLK \in Nat \ {0} /\ NDIRECT \in Nat /\ d.size \in [AllFiles -> Nat]
      /\ d.direct \in [AllFiles -> [0 .. NDIRECT - 1 -> Nat]]
  BY DiskFields, FormatFacts DEF Good
<1>2. d.size[Root] \in Nat /\ n \in Nat /\ (d.size[Root] + BY2BLK) \div BY2BLK = n + 1
  <2>1. d.size[Root] \in Nat
    BY <1>1
  <2> HIDE DEF u, v, t
  <2> QED BY <1>1, <2>1, DivNext
<1>3. MakeLinkBlock(d, Root, n) = [s |-> t, r |-> v.next]
  BY DEF MakeLinkBlock, NextBlock, Out
<1>4. /\ u \in Disk /\ u.home = d.home /\ u.size = d.size /\ u.next \in {d.next, d.next + 1}
  <2> HIDE DEF v, t
  <2>1. d \in Disk /\ Root \in AllFiles /\ n \in Nat /\ d.next \in Nat
    BY <1>1, <1>2
  <2> DEFINE q == SaveBlockLink(d, Root, n, d.next)
  <2>2. /\ q \in Disk /\ q.home = d.home /\ q.size = d.size
        /\ q.next \in {d.next, d.next + 1}
    <3> HIDE DEF u
    <3> QED BY <2>1, SaveBlockLinkType, ZenonT(30)
  <2> HIDE DEF q
  <2>3. u = q
    BY DEF q
  <2> HIDE DEF u
  <2> QED BY <2>2, <2>3
<1>5. n < NDIRECT => /\ u.next = d.next /\ u.indirect = d.indirect /\ u.entry = d.entry
                     /\ u.direct = [d.direct EXCEPT ![Root] = [d.direct[Root] EXCEPT ![n] = d.next]]
  <2> SUFFICES ASSUME n < NDIRECT
               PROVE  /\ u.next = d.next /\ u.indirect = d.indirect /\ u.entry = d.entry
                      /\ u.direct = [d.direct EXCEPT ![Root] = [d.direct[Root] EXCEPT ![n] = d.next]]
    OBVIOUS
  <2>1. u = [d EXCEPT !.direct[Root][n] = d.next]
    BY DEF SaveBlockLink
  <2> HIDE DEF u, v, t
  <2> QED BY <1>1, <2>1 DEF Disk
<1> HIDE DEF u
<1>6. /\ v \in Disk /\ v.home = d.home /\ v.next = u.next
      /\ v.size = [d.size EXCEPT ![Root] = d.size[Root] + BY2BLK]
      /\ v.direct = u.direct /\ v.indirect = u.indirect /\ v.entry = u.entry
  <2>1. d.size[Root] + BY2BLK \in Nat
    <3>1. d.size[Root] \in Nat /\ BY2BLK \in Nat
      BY <1>1, <1>2
    <3> HIDE DEF v, t
    <3> QED BY <3>1
  <2> HIDE DEF t
  <2> QED BY <1>1, <1>4, <2>1 DEF Disk
<1> HIDE DEF v
<1>7. /\ t \in Disk /\ t.home = d.home /\ t.next = v.next + 1 /\ t.size = v.size
      /\ t.direct = u.direct /\ t.indirect = u.indirect /\ t.entry = u.entry
  <2>1. v.next \in Nat /\ v.next + 1 \in Nat
    BY <1>6, DiskFields
  <2> QED BY <1>6, <2>1 DEF Disk
<1> HIDE DEF t
<1>8. t.size[Root] \div BY2BLK = n + 1 /\ d.next < t.next /\ v.next \in Nat /\ t.next \in Nat
  <2>1. t.size[Root] = d.size[Root] + BY2BLK
    BY <1>1, <1>6, <1>7
  <2>2. v.next \in {d.next, d.next + 1} /\ t.next = v.next + 1
    BY <1>4, <1>6, <1>7
  <2>3. t.size[Root] \div BY2BLK = n + 1
    BY <1>2, <2>1
  <2>4. d.next < t.next /\ v.next \in Nat /\ t.next \in Nat
    BY <1>1, <2>2
  <2> QED BY <2>3, <2>4
<1>9. More(d, t)
  <2>1. d.next <= t.next
    BY <1>1, <1>8
  <2> QED BY <1>2, <1>7, <1>8, <2>1 DEF More
<1>10. TooBig(d) => TooBig(t)
  <2>1. t.next \in Nat
    BY <1>7, DiskFields
  <2> QED BY <1>1, <1>2, <1>8, <2>1, FormatFacts DEF TooBig
<1>11. ASSUME ~ TooBig(t), Linked(d), Homed(d)
       PROVE  /\ Linked(t) /\ Homed(t) /\ v.next # 0
              /\ \E m \in 0 .. NDIRECT - 1 : v.next = t.direct[Root][m]
  <2>1. n \in 0 .. NDIRECT - 1 /\ n < NDIRECT
    BY <1>1, <1>2, <1>8, <1>11 DEF TooBig
  <2>2. /\ t.next = d.next + 1 /\ t.indirect = d.indirect /\ t.entry = d.entry /\ v.next = d.next
        /\ t.direct = [d.direct EXCEPT ![Root] = [d.direct[Root] EXCEPT ![n] = d.next]]
    BY <1>5, <1>6, <1>7, <2>1
  <2>3. Linked(t)
    <3>1. /\ d \in Disk /\ Linked(d) /\ Root \in AllFiles /\ n \in 0 .. NDIRECT - 1 /\ t \in Disk
          /\ t.next = d.next + 1 /\ t.indirect = d.indirect /\ t.entry = d.entry
          /\ t.direct = [d.direct EXCEPT ![Root] = [d.direct[Root] EXCEPT ![n] = d.next]]
      BY <1>1, <1>7, <1>11, <2>1, <2>2
    <3> QED BY <3>1, LinkDirect
  <2>4. d.next # 0
    <3>1. NBitBlock \in Nat
      BY FormatFacts DEF NBitBlock
    <3> QED BY <1>1, <1>11, <3>1 DEF Linked
  <2>5. \A m \in 0 .. NDIRECT - 1 :
            t.direct[Root][m] = IF m = n THEN d.next ELSE d.direct[Root][m]
    <3>1. t.direct[Root] = [d.direct[Root] EXCEPT ![n] = d.next]
      BY <1>1, <2>2
    <3>2. d.direct[Root] \in [0 .. NDIRECT - 1 -> Nat]
      BY <1>1
    <3> QED BY <3>1, <3>2
  <2>6. d.direct[Root][n] = 0
    BY <1>2, <1>11, <2>1 DEF Homed
  <2>7. \A m \in 0 .. NDIRECT - 1 : t.direct[Root][m] # 0 <=> m < n + 1
    <3>1. \A m \in 0 .. NDIRECT - 1 : d.direct[Root][m] # 0 <=> m < n
      BY <1>11 DEF Homed
    <3> QED BY <1>2, <2>4, <2>5, <3>1
  <2>8. ASSUME NEW f \in File, t.home[f] # 0
        PROVE  \E m \in 0 .. NDIRECT - 1 : t.home[f] = t.direct[Root][m]
    <3>1. PICK m \in 0 .. NDIRECT - 1 : d.home[f] = d.direct[Root][m]
      BY <1>7, <1>11, <2>8 DEF Homed
    <3>2. m # n
      BY <1>7, <2>6, <2>8, <3>1
    <3> QED BY <1>7, <2>5, <3>1, <3>2
  <2>9. Homed(t)
    BY <1>7, <1>8, <1>11, <2>7, <2>8 DEF Homed
  <2>10. v.next = t.direct[Root][n]
    BY <2>1, <2>2, <2>5
  <2> QED BY <2>1, <2>2, <2>3, <2>4, <2>9, <2>10
<1>12. Good(t)
  BY <1>7, <1>10, <1>11 DEF Good
<1>13. ~ TooBig(t) => v.next # 0 /\ \E m \in 0 .. NDIRECT - 1 : v.next = t.direct[Root][m]
  BY <1>10, <1>11 DEF Good
<1> DEFINE o == MakeLinkBlock(d, Root, n)
<1>14. o.s = t /\ o.r = v.next
  BY <1>3
<1> HIDE DEF o
<1>15. v.next \in Nat
  BY <1>8
<1>16. /\ Good(o.s) /\ More(d, o.s) /\ o.s.home = d.home /\ o.r \in Nat
       /\ ~ TooBig(o.s) => o.r # 0 /\ \E m \in 0 .. NDIRECT - 1 : o.r = o.s.direct[Root][m]
  BY <1>7, <1>9, <1>12, <1>13, <1>14, <1>15
<1> QED BY <1>16 DEF o

\* An image with the same pointers has the same places.
LEMMA SameLinks ==
  ASSUME NEW d, NEW t, Linked(d), t.next = d.next,
         t.direct = d.direct, t.indirect = d.indirect, t.entry = d.entry
  PROVE  Linked(t)
<1>1. \A p \in Places : Place(t, p) = Place(d, p)
  BY DEF Place
<1> QED BY <1>1 DEF Linked, Entered

\* Block b is one of the root directory.
InRoot(d, b) == b # 0 /\ \E m \in 0 .. NDIRECT - 1 : b = d.direct[Root][m]

\* t is d with the struct File of f in block b.
HomeIs(d, t, f, b) ==
    /\ t.next = d.next /\ t.size = d.size
    /\ t.direct = d.direct /\ t.indirect = d.indirect /\ t.entry = d.entry
    /\ t.home = [d.home EXCEPT ![f] = b]

\* The struct File of f is put into block b of the root directory.
LEMMA HomeGood ==
  ASSUME NEW d, Good(d), NEW f \in File, NEW b,
         ~ TooBig(d) => InRoot(d, b),
         NEW t \in Disk, HomeIs(d, t, f, b)
  PROVE  Good(t) /\ More(d, t) /\ (~ TooBig(t) => t.home[f] # 0)
<1>1. /\ d \in Disk /\ d.home \in [AllFiles -> Direct] /\ f \in AllFiles /\ Root # f
      /\ File \subseteq AllFiles /\ Root \in AllFiles
  BY DiskFields, FormatFacts DEF Good
<1>2. TooBig(t) <=> TooBig(d)
  BY DEF TooBig, HomeIs
<1>3. t.home[Root] = d.home[Root] /\ \A g \in File : t.home[g] = IF g = f THEN b ELSE d.home[g]
  BY <1>1 DEF HomeIs
<1>4. ASSUME Linked(d), Homed(d), ~ TooBig(d) PROVE Linked(t) /\ Homed(t)
  <2>1. Linked(t)
    BY <1>4, SameLinks DEF HomeIs
  <2>2. ASSUME NEW g \in File, t.home[g] # 0
        PROVE  \E n \in 0 .. NDIRECT - 1 : t.home[g] = t.direct[Root][n]
    <3>1. CASE g = f
      BY <1>3, <1>4, <3>1 DEF InRoot, HomeIs
    <3>2. CASE g # f
      BY <1>3, <1>4, <2>2, <3>2 DEF Homed, HomeIs
    <3> QED BY <3>1, <3>2
  <2> QED BY <1>3, <1>4, <2>1, <2>2 DEF Homed, HomeIs
<1>5. More(d, d)
  BY <1>1, MoreItself
<1>6. More(d, t)
  BY <1>2, <1>3, <1>5 DEF More, InRoot, HomeIs
<1> QED BY <1>1, <1>2, <1>3, <1>4, <1>6 DEF Good, InRoot

\* A regular file is entered in the root directory.
LEMMA CreateFileGood ==
  ASSUME NEW d, Good(d), NEW f \in File
  PROVE  LET t == CreateFile(d, Root, f)
         IN  Good(t) /\ More(d, t) /\ (~ TooBig(t) => t.home[f] # 0)
<1> DEFINE n    == d.size[Root] \div BY2BLK
           final == d.direct[Root][n - 1]
           room == Cardinality({g \in AllFiles : d.home[g] = final}) < FILE2BLK
           mk   == MakeLinkBlock(d, Root, n)
           o    == IF n > 0 /\ room THEN Out(d, final) ELSE mk
           t    == [o.s EXCEPT !.home[f] = o.r]
<1>1. CreateFile(d, Root, f) = t
  BY DEF CreateFile
<1>2. /\ d \in Disk /\ f \in AllFiles /\ Root \in AllFiles /\ NDIRECT \in Nat \ {0}
      /\ d.direct \in [AllFiles -> [0 .. NDIRECT - 1 -> Nat]]
  BY DiskFields, FormatFacts DEF Good
<1>3. n \in Nat
  <2>1. d.size[Root] \in Nat
    BY <1>2, DiskFields
  <2> QED BY <2>1, FormatFacts
<1>4. /\ Good(o.s) /\ More(d, o.s) /\ o.r \in Direct
      /\ ~ TooBig(o.s) => InRoot(o.s, o.r)
  <2>1. CASE n > 0 /\ room
    <3>1. o.s = d /\ o.r = final
      BY <2>1 DEF Out
    <3>2. n - 1 \in Nat /\ n > 0
      BY <1>3, <2>1
    <3>3. final \in Direct
      <4>1. d.direct[Root] \in [0 .. NDIRECT - 1 -> Nat]
        BY <1>2
      <4> HIDE DEF n
      <4> QED BY <3>2, <4>1 DEF Direct
    <3>4. ASSUME ~ TooBig(d)
          PROVE  InRoot(d, final)
      <4>1. n <= NDIRECT
        BY <1>2, <1>3, <3>4 DEF TooBig
      <4>2. n - 1 \in 0 .. NDIRECT - 1 /\ n - 1 < n
        <5> HIDE DEF n
        <5> QED BY <1>2, <1>3, <3>2, <4>1
      <4>3. Homed(d)
        BY <3>4 DEF Good
      <4>4. d.direct[Root][n - 1] # 0
        BY <4>2, <4>3 DEF Homed
      <4> HIDE DEF n
      <4> QED BY <4>2, <4>4 DEF InRoot
    <3> HIDE DEF o, final
    <3> QED BY <1>2, <3>1, <3>3, <3>4, MoreItself
  <2>2. CASE ~ (n > 0 /\ room)
    <3>1. o = mk
      BY <2>2
    <3>2. /\ Good(mk.s) /\ More(d, mk.s) /\ mk.r \in Nat
          /\ ~ TooBig(mk.s) => InRoot(mk.s, mk.r)
      BY MakeLinkBlockGood DEF InRoot
    <3> HIDE DEF o, mk
    <3> QED BY <3>1, <3>2 DEF Direct
  <2> HIDE DEF o, room
  <2> QED BY <2>1, <2>2
<1> HIDE DEF o
<1>5. o.s \in Disk
  BY <1>4 DEF Good
<1>6. t \in Disk /\ HomeIs(o.s, t, f, o.r)
  BY <1>2, <1>4, <1>5 DEF Disk, HomeIs
<1> HIDE DEF t
<1>7. Good(t) /\ More(o.s, t) /\ (~ TooBig(t) => t.home[f] # 0)
  BY <1>4, <1>6, HomeGood
<1>8. More(d, t)
  BY <1>2, <1>4, <1>5, <1>6, <1>7, MoreOn
<1> QED BY <1>1, <1>7, <1>8

\* The number of blocks of a file that is not too large
LEMMA FileBlocks ==
  ASSUME NEW x \in 0 .. NINDIRECT * BY2BLK
  PROVE  LET k == (x + BY2BLK - 1) \div BY2BLK
         IN  k \in Nat /\ \A n \in 0 .. k - 1 : n \in FileBno
<1> DEFINE k == (x + BY2BLK - 1) \div BY2BLK
<1>1. NINDIRECT \in Nat /\ BY2BLK \in Nat \ {0}
  BY FormatFacts
<1>2. k \in Nat
  BY <1>1
<1>3. \A n \in 0 .. k - 1 : n < NINDIRECT
  BY <1>1
<1> QED BY <1>1, <1>2, <1>3 DEF FileBno

\* What does not fit stays so.
LEMMA MoreBig ==
  ASSUME NEW d \in Disk, NEW t \in Disk, More(d, t), TooBig(d)
  PROVE  TooBig(t)
<1>1. d.next \in Nat /\ t.next \in Nat /\ d.size[Root] \in Nat /\ t.size[Root] \in Nat
  BY DiskFields, FormatFacts
<1>2. d.size[Root] \div BY2BLK \in Nat /\ t.size[Root] \div BY2BLK \in Nat
  BY <1>1, FormatFacts
<1> QED BY <1>1, <1>2, FormatFacts DEF More, TooBig

\* t is d with another size of f.
SizeIs(d, t, f) ==
    /\ t.next = d.next /\ t.home = d.home
    /\ t.direct = d.direct /\ t.indirect = d.indirect /\ t.entry = d.entry
    /\ t.size[Root] = d.size[Root]

\* The size of a regular file is set.
LEMMA SizeGood ==
  ASSUME NEW d, Good(d), NEW t \in Disk, NEW f \in File, SizeIs(d, t, f)
  PROVE  Good(t) /\ More(d, t) /\ (TooBig(t) <=> TooBig(d))
<1>1. TooBig(t) <=> TooBig(d)
  BY DEF TooBig, SizeIs
<1>2. Linked(d) => Linked(t)
  BY SameLinks DEF SizeIs
<1>3. Homed(d) => Homed(t)
  BY DEF Homed, SizeIs
<1>4. More(d, d)
  BY MoreItself DEF Good
<1>5. More(d, t)
  BY <1>1, <1>4 DEF More, SizeIs
<1> QED BY <1>1, <1>2, <1>3, <1>5 DEF Good

\* write_directory of a regular file
LEMMA WriteDirectoryGood ==
  ASSUME NEW d, Good(d), NEW e, e.file \in File, e.dir = Root, e.size \in 0 .. NINDIRECT * BY2BLK
  PROVE  LET u == WriteDirectory(d, e)
         IN  Good(u) /\ More(d, u) /\ (~ TooBig(u) => u.home[e.file] # 0)
<1> DEFINE f == e.file
           c == CreateFile(d, Root, f)
           t == [c EXCEPT !.size[f] = e.size]
           k == (e.size + BY2BLK - 1) \div BY2BLK
           u == LinkBlocks(t, f, k)
           W == {x \in Disk : Good(x) /\ More(t, x)}
<1>1. WriteDirectory(d, e) = u
  BY FsBlocksAssumption DEF WriteDirectory, WriteFile
<1>2. d \in Disk /\ f \in File /\ f \in AllFiles /\ Root # f /\ Root \in AllFiles
  BY FormatFacts DEF Good
<1>3. k \in Nat /\ (\A n \in 0 .. k - 1 : n \in FileBno) /\ e.size \in Nat
  <2>1. k \in Nat /\ (\A n \in 0 .. k - 1 : n \in FileBno)
    BY FileBlocks
  <2> HIDE DEF k
  <2> QED BY <2>1, FormatFacts
<1> HIDE DEF k
<1>4. Good(c) /\ More(d, c) /\ (~ TooBig(c) => c.home[f] # 0)
  BY <1>2, CreateFileGood
<1> HIDE DEF c
<1>5. c \in Disk
  BY <1>4 DEF Good
<1>6. t \in Disk /\ SizeIs(c, t, f)
  <2> HIDE DEF f
  <2> QED BY <1>2, <1>3, <1>5 DEF Disk, SizeIs
<1> HIDE DEF t
<1>7. Good(t) /\ More(c, t) /\ (TooBig(t) <=> TooBig(c)) /\ t.home = c.home
  BY <1>2, <1>4, <1>6, SizeGood DEF SizeIs
<1>8. t \in W
  BY <1>6, <1>7, MoreItself
<1>9. \A x \in W, n \in 0 .. k - 1 : LinkBlock(x, f, n) \in W
  <2> SUFFICES ASSUME NEW x \in W, NEW n \in 0 .. k - 1 PROVE LinkBlock(x, f, n) \in W
    OBVIOUS
  <2>1. PICK y : y = LinkBlock(x, f, n)
    OBVIOUS
  <2>2. n \in FileBno /\ Good(x) /\ x \in Disk /\ More(t, x)
    BY <1>3
  <2>3. Good(y) /\ More(x, y)
    <3> HIDE DEF W
    <3> QED BY <1>2, <2>1, <2>2, LinkBlockGood
  <2>4. y \in Disk
    BY <2>3 DEF Good
  <2>5. More(t, y)
    <3> HIDE DEF W
    <3> QED BY <1>6, <2>2, <2>3, <2>4, MoreOn
  <2> QED BY <2>1, <2>3, <2>4, <2>5
<1>10. PICK at \in [0 .. k -> W] : LinkSteps(at, t, f, k)
  <2> HIDE DEF W, f
  <2> QED BY <1>3, <1>8, <1>9, LinkLoop
<1>11. u \in W
  <2>1. k \in 0 .. k /\ at[k] = u
    BY <1>3, <1>10 DEF LinkSteps
  <2> HIDE DEF W, u
  <2> QED BY <2>1
<1>12. u \in Disk /\ Good(u) /\ More(t, u)
  <2> HIDE DEF u
  <2> QED BY <1>11
<1> HIDE DEF u, W
<1>13. More(d, t)
  BY <1>2, <1>4, <1>5, <1>6, <1>7, MoreOn
<1>14. More(d, u)
  BY <1>2, <1>6, <1>12, <1>13, MoreOn
<1>15. ~ TooBig(u) => u.home[f] # 0
  <2> SUFFICES ASSUME ~ TooBig(u) PROVE u.home[f] # 0
    OBVIOUS
  <2>1. ~ TooBig(t)
    BY <1>6, <1>12, MoreBig
  <2>2. t.home[f] # 0
    BY <1>4, <1>7, <2>1
  <2> HIDE DEF f
  <2> QED BY <1>2, <1>12, <2>2 DEF More
<1> QED BY <1>1, <1>12, <1>14, <1>15

\* init_disk
LEMMA InitGood == Good(InitDisk)
<1>1. NBitBlock \in Nat
  BY FormatFacts DEF NBitBlock
<1>2. Nat \subseteq Direct
  BY DEF Direct
<1>3. InitDisk \in Disk
  BY <1>1, <1>2, FormatFacts DEF InitDisk, Disk, NoEntries
<1>4. \A p \in Places : Place(InitDisk, p) = 0
  <2> SUFFICES ASSUME NEW p \in Places PROVE Place(InitDisk, p) = 0
    OBVIOUS
  <2>1. PICK g \in AllFiles, i \in FileBno \cup {INDIRECT} : p = <<g, i>>
    BY PlaceOf
  <2>2. InitDisk.indirect[g] = 0
    BY DEF InitDisk
  <2>3. CASE i = INDIRECT \/ ~ (i < NDIRECT)
    BY <2>1, <2>2, <2>3 DEF Place
  <2>4. CASE i # INDIRECT /\ i < NDIRECT
    <3>1. i \in 0 .. NDIRECT - 1
      BY <2>1, <2>4, FormatFacts
    <3>2. InitDisk.direct[g][i] = 0
      BY <3>1 DEF InitDisk
    <3> QED BY <2>1, <2>4, <3>2 DEF Place
  <2> QED BY <2>3, <2>4
<1>5. Linked(InitDisk)
  <2>1. InitDisk.next = 2 + NBitBlock
    BY DEF InitDisk
  <2>2. \A b \in Block : InitDisk.entry[b] = NoEntries
    BY DEF InitDisk
  <2>3. Entered(InitDisk)
    BY <1>1, <2>1, <2>2, FormatFacts DEF Entered
  <2> QED BY <1>1, <1>4, <2>1, <2>2, <2>3 DEF Linked
<1>6. Homed(InitDisk)
  <2>1. InitDisk.home[Root] = 1 /\ \A f \in File : InitDisk.home[f] = 0
    BY FormatFacts DEF InitDisk
  <2>2. InitDisk.size[Root] \div BY2BLK = 0
    <3>1. InitDisk.size[Root] = 0
      BY FormatFacts DEF InitDisk
    <3>2. 0 \div BY2BLK = 0
      BY FormatFacts
    <3> QED BY <3>1, <3>2
  <2>3. \A n \in 0 .. NDIRECT - 1 : InitDisk.direct[Root][n] = 0 /\ ~ (n < 0)
    BY FormatFacts DEF InitDisk
  <2> QED BY <2>1, <2>2, <2>3 DEF Homed
<1> QED BY <1>3, <1>5, <1>6 DEF Good

\* The image is sound, and every file is in it.
LEMMA ImageGood ==
    /\ Image \in Disk /\ Linked(Image) /\ Homed(Image)
    /\ \A f \in File : Image.home[f] # 0
<1> DEFINE k == Len(Source)
           W == {x \in Disk : Good(x)}
<1>1. /\ k \in Nat /\ DOMAIN Source = 1 .. k
      /\ \A i \in 1 .. k : /\ Source[i].file \in File /\ Source[i].dir = Root
                           /\ Source[i].size \in 0 .. NINDIRECT * BY2BLK
  <2> DEFINE T == [file : File, dir : {Root}, size : 0 .. NINDIRECT * BY2BLK]
  <2>1. Source \in Seq(T)
    <3>1. File \cup Dir = File /\ Dir \cup {Root} = {Root}
      BY FsBlocksAssumption
    <3> QED BY <3>1, FsFormatAssumption
  <2>2. k \in Nat /\ DOMAIN Source = 1 .. k
        /\ \A i \in 1 .. k : Source[i] \in T
    <3> HIDE DEF T
    <3> QED BY <2>1
  <2> HIDE DEF k
  <2> QED BY <2>2
<1> HIDE DEF k
<1>2. ASSUME NEW x \in W, NEW n \in 1 .. k
      PROVE  LET y == WriteDirectory(x, Source[n])
             IN  /\ y \in W /\ More(x, y)
                 /\ ~ TooBig(y) => y.home[Source[n].file] # 0
  <2>1. Good(x)
    OBVIOUS
  <2>2. PICK e : e = Source[n]
    OBVIOUS
  <2>3. e.file \in File /\ e.dir = Root /\ e.size \in 0 .. NINDIRECT * BY2BLK
    BY <1>1, <2>2
  <2>4. PICK y : y = WriteDirectory(x, e)
    OBVIOUS
  <2>5. Good(y) /\ More(x, y) /\ (~ TooBig(y) => y.home[e.file] # 0)
    <3> HIDE DEF W
    <3> QED BY <2>1, <2>3, <2>4, WriteDirectoryGood
  <2> QED BY <2>2, <2>4, <2>5 DEF Good
<1>3. InitDisk \in W
  BY InitGood DEF Good
<1>4. PICK at \in [0 .. k -> W] : ImageSteps(at, k)
  <2>1. \A x \in W, n \in 1 .. k : WriteDirectory(x, Source[n]) \in W
    BY <1>2
  <2>2. k = Len(Source)
    BY DEF k
  <2> HIDE DEF W
  <2> QED BY <1>1, <1>3, <2>1, <2>2, ImageLoop
<1>5. /\ k \in 0 .. k /\ at[k] = Image
      /\ \A i \in 0 .. k - 1 : at[i + 1] = WriteDirectory(at[i], Source[i + 1])
  BY <1>1, <1>4 DEF ImageSteps
<1>6. Image \in Disk /\ Good(Image)
  BY <1>5
<1>7. ~ TooBig(Image)
  <2>1. Image.next \in Nat /\ Image.size[Root] \in Nat
    BY <1>6, DiskFields, FormatFacts
  <2>2. Image.size[Root] \div BY2BLK \in Nat
    BY <2>1, FormatFacts
  <2> QED BY <2>1, <2>2, ImageAssumption, FormatFacts DEF TooBig
<1>8. ASSUME NEW f \in File PROVE Image.home[f] # 0
  <2>1. PICK m \in 1 .. k : Source[m].file = f
    BY <1>1, FsBlocksAssumption
  <2> DEFINE P == {i \in 0 .. k : i >= m => (TooBig(at[i]) \/ at[i].home[f] # 0)}
  <2>2. 0 \in P
    BY <1>1
  <2>3. ASSUME NEW i \in 0 .. k - 1, i \in P PROVE i + 1 \in P
    <3>1. i \in 0 .. k /\ i + 1 \in 0 .. k /\ i + 1 \in 1 .. k
      BY <1>1
    <3>2. at[i] \in W /\ at[i + 1] \in W
      BY <3>1
    <3>3. /\ More(at[i], at[i + 1])
          /\ ~ TooBig(at[i + 1]) => at[i + 1].home[Source[i + 1].file] # 0
      <4> HIDE DEF W, P
      <4> QED BY <1>2, <1>5, <3>1, <3>2
    <3>4. ASSUME i + 1 >= m, ~ TooBig(at[i + 1]) PROVE at[i + 1].home[f] # 0
      <4>1. CASE i + 1 = m
        BY <2>1, <3>3, <3>4, <4>1
      <4>2. CASE i + 1 # m
        <5>1. i >= m
          BY <1>1, <3>1, <3>4, <4>2
        <5>2. ~ TooBig(at[i])
          <6>1. at[i] \in Disk /\ at[i + 1] \in Disk
            BY <3>2
          <6> HIDE DEF W, P
          <6> QED BY <3>3, <3>4, <6>1, MoreBig
        <5>3. at[i].home[f] # 0
          BY <2>3, <5>1, <5>2
        <5> QED BY <3>3, <3>4, <5>3 DEF More
      <4> QED BY <4>1, <4>2
    <3> QED BY <3>1, <3>4
  <2>4. k \in P
    <3> HIDE DEF P
    <3> QED BY <1>1, <1>5, <2>2, <2>3, UpTo
  <2> QED BY <1>1, <1>5, <1>7, <2>4
<1> QED BY <1>6, <1>7, <1>8 DEF Good
=============================================================================
