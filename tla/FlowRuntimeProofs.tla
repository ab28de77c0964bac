------------------------- MODULE FlowRuntimeProofs -------------------------
(***************************************************************************)
(* What is proved of the flow runtime, for every set of drafts, prompts    *)
(* and limits: the helper's interpreter of the compiled tape goes where    *)
(* the server's simulator goes on the drawing; the compiler's bound on the *)
(* automated time of a call is a bound, and the interpreter's turns are    *)
(* enough; and the tablet refuses nothing that the server publishes.       *)
(*                                                                         *)
(* The address of a block is its rank in the compiler's walk; the walk is  *)
(* a strict total order, so addresses are a bijection (PcTellsBlock,       *)
(* AddressOfBlock) and the path is kept step by step (PathInv).  The turns *)
(* are paid for by the depth and by the returns that are left (Paid), the  *)
(* time by maximum_cost of where the call is (Within).  The walks of the   *)
(* tablet's check are the positions of the drawing (WalksAreBlocks).       *)
(***************************************************************************)
EXTENDS FlowRuntime, TLAPS, FiniteSetTheorems, WellFoundedInduction, SequenceTheorems

\* A set of numbers that is not empty has a least one.
LEMMA Least ==
    ASSUME NEW T \in SUBSET Nat, T # {}
    PROVE  \E m \in T : \A k \in T : m <= k
  <1> DEFINE F == {0 .. x : x \in T}
  <1>1. F \subseteq FiniteSubsetsOf(Nat) /\ F # {}
    <2>1. \A x \in T : 0 .. x \in SUBSET Nat
      OBVIOUS
    <2>2. \A x \in T : IsFiniteSet(0 .. x)
      BY FS_Interval
    <2> QED
      BY <2>1, <2>2 DEF FiniteSubsetsOf
  <1>2. PICK s \in F : \A y \in F : ~(<<y, s>> \in StrictSubsetOrdering(Nat))
    <2> HIDE DEF F
    <2> QED
      BY <1>1, WFMin, FS_StrictSubsetOrderingWellFounded
  <1>3. PICK m \in T : s = 0 .. m
    OBVIOUS
  <1>4. ASSUME NEW k \in T, k < m PROVE FALSE
    <2>1. 0 .. k \in F /\ 0 .. k \in SUBSET Nat /\ s \in SUBSET Nat
      BY <1>3
    <2>2. m \in 0 .. m /\ m \notin 0 .. k
      BY <1>4
    <2>3. 0 .. k \subseteq 0 .. m /\ 0 .. k # 0 .. m
      BY <1>4, <2>2
    <2>4. <<0 .. k, s>> \in StrictSubsetOrdering(Nat)
      BY <1>3, <2>1, <2>3 DEF StrictSubsetOrdering
    <2> QED
      BY <1>2, <2>1, <2>4
  <1> QED
    BY <1>4

Position == Seq(STRING)

\* Two positions have the same block above them at a depth when they agree up
\* to there.
LEMMA UpAgrees ==
    ASSUME NEW p \in Position, NEW q \in Position, NEW n \in Nat, n <= Len(p), n <= Len(q)
    PROVE  Up(p, n) = Up(q, n) <=> \A i \in 1 .. n : p[i] = q[i]
  <1>1. /\ Up(p, n) \in Seq(STRING) /\ Len(Up(p, n)) = n /\ \A i \in 1 .. n : Up(p, n)[i] = p[i]
        /\ Up(q, n) \in Seq(STRING) /\ Len(Up(q, n)) = n /\ \A i \in 1 .. n : Up(q, n)[i] = q[i]
    BY DEF Position, Up
  <1>2. (\A i \in 1 .. n : p[i] = q[i]) => Up(p, n) = Up(q, n)
    BY <1>1, SeqEqual
  <1> QED
    BY <1>1, <1>2

\* All of a position is the position.
LEMMA UpAll ==
    ASSUME NEW p \in Position
    PROVE  Up(p, Len(p)) = p
  BY SubSeqFull DEF Position, Up

\* A block is above another when its position begins the other's.
LEMMA AboveAgrees ==
    ASSUME NEW p \in Position, NEW q \in Position
    PROVE  Above(p, q) <=> Len(p) < Len(q) /\ \A i \in 1 .. Len(p) : p[i] = q[i]
  <1>1. Len(p) \in Nat /\ Len(q) \in Nat
    BY DEF Position
  <1> QED
    BY <1>1, UpAgrees, UpAll DEF Above

\* Where two positions part, and which one comes first.
Parts(d, p, q, n) ==
    /\ n \in 1 .. Len(p) /\ n <= Len(q) /\ \A i \in 1 .. n - 1 : p[i] = q[i]
    /\ p[n] # q[n]
    /\ EdgeRank(d[Up(p, n - 1)], p[n]) < EdgeRank(d[Up(p, n - 1)], q[n])

\* What the compiler visits first: a block above, or the lower edge where two positions part.
LEMMA BeforeParts ==
    ASSUME NEW d, NEW p \in Position, NEW q \in Position
    PROVE  Before(d, p, q) <=> Above(p, q) \/ \E n \in Nat : Parts(d, p, q, n)
  <1>1. Len(p) \in Nat /\ Len(q) \in Nat
    BY DEF Position
  <1>2. ASSUME NEW n \in 1 .. Len(p), n <= Len(q)
        PROVE  Up(p, n - 1) = Up(q, n - 1) <=> \A i \in 1 .. n - 1 : p[i] = q[i]
    <2>1. n - 1 \in Nat /\ n - 1 <= Len(p) /\ n - 1 <= Len(q)
      BY <1>1, <1>2
    <2> QED
      BY <2>1, UpAgrees
  <1> QED
    BY <1>1, <1>2 DEF Before, Parts

\* The keypad has twelve keys.
LEMMA Keypad ==
    /\ DOMAIN DTMF_ORDER = 1 .. 12 /\ Len(DTMF_ORDER) = 12
  BY DEF DTMF_ORDER

\* The types of blocks, and the edges that each owns.
LEMMA OwnedEdges ==
    /\ DOMAIN Owned = {"play_prompt", "collect_digit", "schedule_branch", "record_message",
                       "external_call", "return_to_menu", "end_call"}
    /\ \A t \in DOMAIN Owned : DOMAIN Owned[t] \subseteq Nat \ {0}
  BY DEF Owned

\* The edges of a block are ordered: no two have the same rank.
LEMMA RankOfEdge ==
    ASSUME NEW b, IsBlock(b), BlockComplete(b), NEW e \in Edges(b), NEW f \in Edges(b)
    PROVE  /\ EdgeRank(b, e) \in Nat
           /\ EdgeRank(b, e) = EdgeRank(b, f) => e = f
  <1> DEFINE Key(x) == CHOOSE i \in DOMAIN DTMF_ORDER : DTMF_ORDER[i] = b.keys[x]
             Side(x) == CHOOSE i \in DOMAIN Owned[b.type] : Owned[b.type][i] = x
  <1>1. \A x \in DOMAIN b.keys : Key(x) \in 1 .. 12 /\ DTMF_ORDER[Key(x)] = b.keys[x]
    BY Keypad DEF IsBlock
  <1>2. \A x \in Edges(b) \ DOMAIN b.keys : Side(x) \in Nat \ {0} /\ Owned[b.type][Side(x)] = x
    BY OwnedEdges DEF Edges, Elements, IsBlock
  <1>3. \A x, y \in DOMAIN b.keys : b.keys[x] = b.keys[y] => x = y
    BY DEF IsBlock, BlockComplete
  <1>4. \A x \in Edges(b) : EdgeRank(b, x) = IF x \in DOMAIN b.keys THEN Key(x) ELSE 12 + Side(x)
    BY Keypad DEF EdgeRank
  <1> HIDE DEF Key, Side
  <1> QED
    BY <1>1, <1>2, <1>3, <1>4

\* A draft that the validator passes.
Sound(d) == IsDraft(d) /\ WellDrawn(d)

\* What is known of a block of a draft that passed.
LEMMA SoundPositions ==
    ASSUME NEW d, Sound(d), NEW p \in DOMAIN d
    PROVE  /\ p \in Position /\ Len(p) \in Nat
           /\ IsBlock(d[p]) /\ BlockComplete(d[p])
           /\ \A n \in 1 .. Len(p) : Up(p, n - 1) \in DOMAIN d /\ p[n] \in Edges(d[Up(p, n - 1)])
  BY DEF Sound, IsDraft, WellDrawn, Position

\* The walk of the compiler visits the blocks in a strict order...
LEMMA BeforeIrreflexive ==
    ASSUME NEW d, NEW p \in Position
    PROVE  ~Before(d, p, p)
  <1>1. Len(p) \in Nat
    BY DEF Position
  <1>2. ~Above(p, p) /\ \A n \in Nat : ~Parts(d, p, p, n)
    BY <1>1 DEF Above, Parts
  <1> QED
    BY <1>2, BeforeParts

\* Where two positions part, they part at edges of one block, of different rank.
LEMMA RankWhereParted ==
    ASSUME NEW d, Sound(d), NEW p \in DOMAIN d, NEW q \in DOMAIN d, NEW n \in 1 .. Len(p),
           n <= Len(q), \A i \in 1 .. n - 1 : p[i] = q[i]
    PROVE  /\ Up(p, n - 1) = Up(q, n - 1)
           /\ LET b == d[Up(p, n - 1)] IN
                /\ EdgeRank(b, p[n]) \in Nat /\ EdgeRank(b, q[n]) \in Nat
                /\ EdgeRank(b, p[n]) = EdgeRank(b, q[n]) => p[n] = q[n]
  <1>1. Len(p) \in Nat /\ Len(q) \in Nat /\ p \in Position /\ q \in Position
    BY SoundPositions
  <1>2. n - 1 \in Nat /\ n - 1 <= Len(p) /\ n - 1 <= Len(q) /\ n \in 1 .. Len(q)
    BY <1>1
  <1>3. Up(p, n - 1) = Up(q, n - 1)
    BY <1>1, <1>2, UpAgrees
  <1>4. /\ Up(p, n - 1) \in DOMAIN d
        /\ p[n] \in Edges(d[Up(p, n - 1)]) /\ q[n] \in Edges(d[Up(p, n - 1)])
    BY <1>2, <1>3, SoundPositions
  <1>5. IsBlock(d[Up(p, n - 1)]) /\ BlockComplete(d[Up(p, n - 1)])
    BY <1>4, SoundPositions
  <1> QED
    BY <1>3, <1>4, <1>5, RankOfEdge

\* ...that is transitive,
LEMMA BeforeTransitive ==
    ASSUME NEW d, Sound(d), NEW p \in DOMAIN d, NEW q \in DOMAIN d, NEW r \in DOMAIN d,
           Before(d, p, q), Before(d, q, r)
    PROVE  Before(d, p, r)
  <1>1. /\ Len(p) \in Nat /\ Len(q) \in Nat /\ Len(r) \in Nat
        /\ p \in Position /\ q \in Position /\ r \in Position
    BY SoundPositions
  <1>2. CASE Above(p, q) /\ Above(q, r)
    <2>1. Above(p, r)
      BY <1>1, <1>2, AboveAgrees
    <2> QED
      BY <1>1, <2>1, BeforeParts
  <1>3. ASSUME Above(p, q), NEW n \in Nat, Parts(d, q, r, n) PROVE Before(d, p, r)
    <2>1. CASE n > Len(p)
      <3>1. Above(p, r)
        BY <1>1, <1>3, <2>1, AboveAgrees DEF Parts
      <3> QED
        BY <1>1, <3>1, BeforeParts
    <2>2. CASE n <= Len(p)
      <3>1. n \in 1 .. Len(p) /\ n <= Len(r) /\ p[n] = q[n] /\ \A i \in 1 .. n - 1 : p[i] = q[i]
        BY <1>1, <1>3, <2>2, AboveAgrees DEF Parts
      <3>2. Up(p, n - 1) = Up(q, n - 1)
        BY <1>1, <1>3, <3>1, RankWhereParted DEF Parts
      <3>3. Parts(d, p, r, n)
        BY <1>3, <3>1, <3>2 DEF Parts
      <3> QED
        BY <1>1, <3>3, BeforeParts
    <2> QED
      BY <1>1, <2>1, <2>2
  <1>4. ASSUME NEW n \in Nat, Parts(d, p, q, n), Above(q, r) PROVE Before(d, p, r)
    <2>1. n <= Len(r) /\ q[n] = r[n] /\ \A i \in 1 .. n - 1 : q[i] = r[i]
      BY <1>1, <1>4, AboveAgrees DEF Parts
    <2>2. Parts(d, p, r, n)
      BY <1>4, <2>1 DEF Parts
    <2> QED
      BY <1>1, <2>2, BeforeParts
  <1>5. ASSUME NEW n \in Nat, Parts(d, p, q, n), NEW m \in Nat, Parts(d, q, r, m)
        PROVE  Before(d, p, r)
    <2>1. /\ n \in 1 .. Len(p) /\ n <= Len(q) /\ \A i \in 1 .. n - 1 : p[i] = q[i]
          /\ m \in 1 .. Len(q) /\ m <= Len(r) /\ \A i \in 1 .. m - 1 : q[i] = r[i]
      BY <1>5 DEF Parts
    <2>2. CASE n < m
      <3>1. Parts(d, p, r, n)
        BY <1>1, <1>5, <2>1, <2>2 DEF Parts
      <3> QED
        BY <1>1, <3>1, BeforeParts
    <2>3. CASE n = m
      <3>1. \A i \in 1 .. n - 1 : p[i] = r[i]
        BY <2>1, <2>3
      <3>2. Up(p, n - 1) = Up(q, n - 1)
        BY <2>1, RankWhereParted
      <3>3. LET b == d[Up(p, n - 1)] IN
              EdgeRank(b, p[n]) \in Nat /\ EdgeRank(b, q[n]) \in Nat /\ EdgeRank(b, r[n]) \in Nat
        <4>1. n <= Len(r)
          BY <2>1, <2>3
        <4> QED
          BY <2>1, <3>1, <4>1, RankWhereParted
      <3>4. EdgeRank(d[Up(p, n - 1)], p[n]) < EdgeRank(d[Up(p, n - 1)], r[n])
        BY <1>5, <2>3, <3>2, <3>3 DEF Parts
      <3>5. Parts(d, p, r, n)
        BY <2>1, <2>3, <3>1, <3>3, <3>4 DEF Parts
      <3> QED
        BY <1>1, <3>5, BeforeParts
    <2>4. CASE m < n
      <3>1. m \in 1 .. Len(p) /\ p[m] = q[m] /\ (\A i \in 1 .. m - 1 : p[i] = q[i])
            /\ \A i \in 1 .. m - 1 : p[i] = r[i]
        BY <1>1, <2>1, <2>4
      <3>2. Up(p, m - 1) = Up(q, m - 1)
        BY <1>1, <2>1, <3>1, RankWhereParted
      <3>3. Parts(d, p, r, m)
        BY <1>5, <2>1, <3>1, <3>2 DEF Parts
      <3> QED
        BY <1>1, <3>3, BeforeParts
    <2> QED
      BY <1>1, <2>1, <2>2, <2>3, <2>4
  <1> QED
    BY <1>1, <1>2, <1>3, <1>4, <1>5, BeforeParts

\* ...and total,
LEMMA BeforeTotal ==
    ASSUME NEW d, Sound(d), NEW p \in DOMAIN d, NEW q \in DOMAIN d, p # q
    PROVE  Before(d, p, q) \/ Before(d, q, p)
  <1>1. /\ Len(p) \in Nat /\ Len(q) \in Nat
        /\ p \in Position /\ q \in Position
    BY SoundPositions
  <1> DEFINE T == {n \in 1 .. Len(p) : n <= Len(q) /\ p[n] # q[n]}
  <1>2. CASE T = {}
    <2>1. \A n \in 1 .. Len(p) : n <= Len(q) => p[n] = q[n]
      BY <1>2
    <2>2. Len(p) # Len(q)
      BY <1>1, <2>1, SeqEqual DEF Position
    <2>3. Above(p, q) \/ Above(q, p)
      BY <1>1, <2>1, <2>2, AboveAgrees
    <2> QED
      BY <1>1, <2>3, BeforeParts
  <1>3. CASE T # {}
    <2>1. PICK n \in T : \A k \in T : n <= k
      <3>1. T \in SUBSET Nat
        BY <1>1
      <3> HIDE DEF T
      <3> QED
        BY <1>3, <3>1, Least
    <2>2. n \in 1 .. Len(p) /\ n \in 1 .. Len(q) /\ p[n] # q[n] /\ n \in Nat
      BY <1>1, <2>1
    <2>3. \A i \in 1 .. n - 1 : p[i] = q[i]
      <3> SUFFICES ASSUME NEW i \in 1 .. n - 1, p[i] # q[i] PROVE FALSE
        OBVIOUS
      <3>1. i \in T
        BY <1>1, <2>2
      <3> QED
        BY <2>1, <2>2, <3>1
    <2>4. /\ Up(p, n - 1) = Up(q, n - 1)
          /\ LET b == d[Up(p, n - 1)] IN
               /\ EdgeRank(b, p[n]) \in Nat /\ EdgeRank(b, q[n]) \in Nat
               /\ EdgeRank(b, p[n]) = EdgeRank(b, q[n]) => p[n] = q[n]
      BY <1>1, <2>2, <2>3, RankWhereParted
    <2>5. Parts(d, p, q, n) \/ Parts(d, q, p, n)
      BY <2>2, <2>3, <2>4 DEF Parts
    <2> QED
      BY <1>1, <2>2, <2>5, BeforeParts
  <1> QED
    BY <1>2, <1>3

\* ...so that an address is where one block is, and the entry is the root.
Earlier(d, p) == {q \in DOMAIN d : Before(d, q, p)}

\* A block that is visited earlier has the lower address.
LEMMA PcGrows ==
    ASSUME NEW d, Sound(d), NEW p \in DOMAIN d, NEW q \in DOMAIN d, Before(d, p, q)
    PROVE  Pc(d, p) < Pc(d, q)
  <1>1. p \in Earlier(d, q) /\ p \notin Earlier(d, p)
    BY SoundPositions, BeforeIrreflexive DEF Earlier
  <1>2. Earlier(d, p) \subseteq Earlier(d, q)
    BY BeforeTransitive DEF Earlier
  <1>3. IsFiniteSet(Earlier(d, q))
    <2>1. Earlier(d, q) \in SUBSET DOMAIN d /\ IsFiniteSet(DOMAIN d)
      BY DEF Earlier, Sound, IsDraft
    <2> QED
      BY <2>1, FS_Subset
  <1>4. /\ IsFiniteSet(Earlier(d, p)) /\ Cardinality(Earlier(d, p)) <= Cardinality(Earlier(d, q))
        /\ Cardinality(Earlier(d, q)) # Cardinality(Earlier(d, p))
    BY <1>1, <1>2, <1>3, FS_Subset
  <1>5. Cardinality(Earlier(d, p)) \in Nat /\ Cardinality(Earlier(d, q)) \in Nat
    BY <1>3, <1>4, FS_CardinalityType
  <1> QED
    BY <1>4, <1>5 DEF Pc, Earlier

\* An address is below the number of blocks.
LEMMA PcOfBlock ==
    ASSUME NEW d, Sound(d), NEW p \in DOMAIN d
    PROVE  Pc(d, p) \in 0 .. Cardinality(DOMAIN d) - 1
  <1>1. IsFiniteSet(DOMAIN d) /\ Cardinality(DOMAIN d) \in Nat
    BY FS_CardinalityType DEF Sound, IsDraft
  <1>2. Earlier(d, p) \in SUBSET (DOMAIN d \ {p})
    BY SoundPositions, BeforeIrreflexive DEF Earlier
  <1>3. IsFiniteSet(DOMAIN d \ {p}) /\ Cardinality(DOMAIN d \ {p}) = Cardinality(DOMAIN d) - 1
    BY <1>1, FS_RemoveElement
  <1>4. IsFiniteSet(Earlier(d, p)) /\ Cardinality(Earlier(d, p)) <= Cardinality(DOMAIN d) - 1
    BY <1>2, <1>3, FS_Subset
  <1>5. Cardinality(Earlier(d, p)) \in Nat
    BY <1>4, FS_CardinalityType
  <1> QED
    BY <1>1, <1>4, <1>5 DEF Pc, Earlier

\* No two blocks have one address.
LEMMA PcTellsBlock ==
    ASSUME NEW d, Sound(d), NEW p \in DOMAIN d, NEW q \in DOMAIN d, Pc(d, p) = Pc(d, q)
    PROVE  p = q
  <1>1. Pc(d, p) \in Nat
    BY PcOfBlock
  <1> QED
    BY <1>1, PcGrows, BeforeTotal

\* The root is at address 0, where the interpreter enters.
LEMMA PcOfRoot ==
    ASSUME NEW d, Sound(d)
    PROVE  <<>> \in DOMAIN d /\ Pc(d, <<>>) = 0
  <1>1. PICK p \in DOMAIN d : TRUE
    BY DEF Sound, WellDrawn
  <1>2. <<>> \in DOMAIN d
    <2>1. CASE Len(p) = 0
      BY <2>1, SoundPositions, EmptySeq DEF Position
    <2>2. CASE Len(p) # 0
      <3>1. 1 \in 1 .. Len(p)
        BY <2>2, SoundPositions
      <3>2. Up(p, 0) \in DOMAIN d
        BY <3>1, SoundPositions
      <3>3. Up(p, 0) \in Seq(STRING) /\ Len(Up(p, 0)) = 0
        BY SoundPositions DEF Up, Position
      <3> QED
        BY <3>2, <3>3, EmptySeq
    <2> QED
      BY <2>1, <2>2
  <1>3. Earlier(d, <<>>) = {}
    <2> SUFFICES ASSUME NEW q \in DOMAIN d, Before(d, q, <<>>) PROVE FALSE
      BY DEF Earlier
    <2>1. q \in Position /\ Len(q) \in Nat /\ <<>> \in Position /\ Len(<<>>) = 0
      BY SoundPositions DEF Position
    <2> QED
      BY <2>1, BeforeParts DEF Above, Parts
  <1> QED
    BY <1>2, <1>3, FS_EmptySet DEF Pc, Earlier

\* The instruction at the address of a block is the block's.
LEMMA TapeOfBlock ==
    ASSUME NEW d, Sound(d), NEW p \in DOMAIN d
    PROVE  Pc(d, p) \in DOMAIN Tape(d) /\ Tape(d)[Pc(d, p)] = Instruction(d, p)
  <1>1. Pc(d, p) \in 0 .. Cardinality(DOMAIN d) - 1
    BY PcOfBlock
  <1>2. (CHOOSE q \in DOMAIN d : Pc(d, q) = Pc(d, p)) = p
    BY PcTellsBlock
  <1> QED
    BY <1>1, <1>2 DEF Tape

\* The menu that a return belongs to is one of the menus above it.
LEMMA OwnerIsMenu ==
    ASSUME NEW d, Sound(d), NEW p \in DOMAIN d, Menus(d, p) # {}
    PROVE  /\ OwnerMenu(d, p) \in Menus(d, p)
           /\ \A q \in Menus(d, p) : Len(q) <= Len(OwnerMenu(d, p))
  <1> DEFINE T == {Len(p) - Len(q) : q \in Menus(d, p)}
  <1>1. \A q \in Menus(d, p) : Len(q) \in Nat /\ Len(q) < Len(p)
    BY SoundPositions DEF Menus, Ancestors, Above
  <1>2. Len(p) \in Nat
    BY SoundPositions
  <1>3. T \in SUBSET Nat /\ T # {}
    BY <1>1, <1>2
  <1>4. PICK m \in T : \A k \in T : m <= k
    <2> HIDE DEF T
    <2> QED
      BY <1>3, Least
  <1>5. PICK q \in Menus(d, p) : m = Len(p) - Len(q)
    BY <1>4
  <1>6. \A r \in Menus(d, p) : Len(r) <= Len(q)
    <2> SUFFICES ASSUME NEW r \in Menus(d, p) PROVE Len(r) <= Len(q)
      OBVIOUS
    <2>1. Len(p) - Len(r) \in T
      OBVIOUS
    <2>2. m <= Len(p) - Len(r)
      BY <1>4, <2>1
    <2> QED
      BY <1>1, <1>2, <1>5, <2>2
  <1> QED
    BY <1>6 DEF OwnerMenu

\* A menu above a block is a block of the drawing.
LEMMA MenuIsBlock ==
    ASSUME NEW d, NEW p, NEW q \in Menus(d, p)
    PROVE  q \in DOMAIN d /\ d[q].type = "collect_digit"
  BY DEF Menus, Ancestors

\* What stands behind an edge, and where the instruction says it is.
LEMMA BehindEdge ==
    ASSUME NEW d, Sound(d), NEW p \in DOMAIN d, NEW e \in Edges(d[p])
    PROVE  Append(p, e) \in DOMAIN d
  BY DEF Sound, WellDrawn

\* The fields of a compiled block, by name.
LEMMA InstructionFields ==
    ASSUME NEW d, NEW p
    PROVE  LET i == Instruction(d, p) IN
           /\ i.id = d[p].id /\ i.op = d[p].type /\ i.prompt = d[p].prompt /\ i.barge = d[p].barge
           /\ i.attempts = d[p].attempts /\ i.returns = d[p].returns
           /\ DOMAIN i.branches = Elements(d[p].keys)
           /\ DOMAIN i.to = Elements(Owned[d[p].type])
           /\ \A e \in Elements(Owned[d[p].type]) : i.to[e] = Pc(d, Append(p, e))
           /\ d[p].type = "return_to_menu" => i.menu = Pc(d, OwnerMenu(d, p))
  BY DEF Instruction, MenuPc

\* The branch of a digit leads behind the edge that has it for a key.
LEMMA BranchOfKey ==
    ASSUME NEW d, Sound(d), NEW p \in DOMAIN d, d[p].type = "collect_digit",
           NEW e \in DOMAIN d[p].keys
    PROVE  /\ Instruction(d, p).branches[d[p].keys[e]] = Pc(d, Append(p, e))
           /\ (CHOOSE f \in {g \in DOMAIN d[p].keys : d[p].keys[g] = d[p].keys[e]} : TRUE) = e
  <1>1. \A f \in DOMAIN d[p].keys : d[p].keys[f] = d[p].keys[e] => f = e
    BY SoundPositions DEF BlockComplete
  <1>2. (CHOOSE f \in DOMAIN d[p].keys : d[p].keys[f] = d[p].keys[e]) = e
    BY <1>1
  <1>3. {g \in DOMAIN d[p].keys : d[p].keys[g] = d[p].keys[e]} = {e}
    BY <1>1
  <1>4. d[p].keys[e] \in Elements(d[p].keys)
    BY DEF Elements
  <1> QED
    BY <1>2, <1>3, <1>4 DEF Instruction

\* Every address of the tape is a block's.
LEMMA AddressOfBlock ==
    ASSUME NEW d, Sound(d), NEW n \in DOMAIN Tape(d)
    PROVE  \E p \in DOMAIN d : Pc(d, p) = n /\ Tape(d)[n] = Instruction(d, p)
  <1> DEFINE N == Cardinality(DOMAIN d)
             T == 0 .. N - 1
             f == [p \in DOMAIN d |-> Pc(d, p)]
  <1>1. IsFiniteSet(DOMAIN d) /\ N \in Nat
    BY FS_CardinalityType DEF Sound, IsDraft
  <1>2. f \in Injection(DOMAIN d, T)
    <2>1. f \in [DOMAIN d -> T]
      BY PcOfBlock
    <2>2. \A p, q \in DOMAIN d : f[p] = f[q] => p = q
      BY PcTellsBlock
    <2> QED
      BY <2>1, <2>2 DEF Injection, IsInjective
  <1>3. IsFiniteSet(T) /\ Cardinality(T) = N
    <2>1. 0 \in Int /\ N - 1 \in Int
      BY <1>1
    <2>2. IsFiniteSet(T) /\ Cardinality(T) = IF 0 > N - 1 THEN 0 ELSE (N - 1) - 0 + 1
      BY <2>1, FS_Interval
    <2> QED
      BY <1>1, <2>2
  <1>4. f \in Surjection(DOMAIN d, T)
    <2> HIDE DEF f, T
    <2> QED
      BY <1>2, <1>3, FS_Injection
  <1>5. n \in T
    BY DEF Tape
  <1>6. PICK p \in DOMAIN d : Pc(d, p) = n
    BY <1>4, <1>5 DEF Surjection
  <1> QED
    BY <1>6, TapeOfBlock

-----------------------------------------------------------------------------
\* What runs was drawn soundly and compiled from the drawing, and holds only
\* blocks that the simulator of its version knows.
Compiled ==
    Started =>
       /\ Sound(flow) /\ program.tape = Tape(flow) /\ program.version \in Versions
       /\ program.version = 2 => Typed(flow, {"record_message", "external_call"}) = {}
       /\ program.version = 3 => Typed(flow, {"external_call"}) = {}

Answers == {"going", "complete", "invalid"}
Drawings == Typed(flow, {"collect_digit"})

\* The interpreter is at the address of the block the simulator is at.
Together ==
    Started =>
       /\ sim \in [at : DOMAIN flow, status : Answers, attempt : Nat, returns : [Drawings -> Nat]]
       /\ pc = Pc(flow, sim.at) /\ attempt = sim.attempt
       /\ attempt < flow[sim.at].attempts
       /\ flow[sim.at].type # "collect_digit" => attempt = 0
       /\ Running => sim.status = "going"
       /\ outcome = "complete" => sim.status = "complete"

\* Both have returned to a menu as often, and no more often than it allows.
Returned ==
    Started =>
       /\ returns \in [MenuPcs -> Nat]
       /\ \A p \in Drawings : returns[Pc(flow, p)] = sim.returns[p]
                               /\ sim.returns[p] <= flow[p].returns

\* Turns and time are counted.
Counted ==
    /\ outcome \in Outcomes
    /\ transitions \in 0 .. MaximumTransitions /\ elapsed \in Nat /\ overtime \in Nat
    /\ ~Started => pc = 0 /\ attempt = 0 /\ transitions = 0 /\ elapsed = 0 /\ overtime = 0

PathInv == Compiled /\ Together /\ Returned /\ Counted

\* Nothing has been published at first.
LEMMA InitPath ==
    ASSUME Init
    PROVE  PathInv
  BY RuntimeAssumption DEF Init, PathInv, Compiled, Together, Returned, Counted, Started, Running,
                           Outcomes

\* A program that may be published comes from a draft that passed.
LEMMA PublishedIsSound ==
    ASSUME NEW v \in Versions, NEW d \in Flows, NEW p \in Programs(v, d)
    PROVE  /\ Sound(d) /\ p.tape = Tape(d) /\ p.version = v
           /\ v = 2 => Typed(d, {"record_message", "external_call"}) = {}
           /\ v = 3 => Typed(d, {"external_call"}) = {}
  <1>1. IsDraft(d)
    BY FlowsAssumption
  <1>2. CASE v = 2
    BY <1>1, <1>2 DEF Programs, ValidV2, CompileFlow, Sound
  <1>3. CASE v = 3
    BY <1>1, <1>3 DEF Programs, ValidV3, CompileFlowV3, Sound
  <1>4. CASE v = 4
    BY <1>1, <1>4 DEF Programs, ValidV4, CompileFlowV4, Sound
  <1> QED
    BY <1>2, <1>3, <1>4 DEF Versions

\* A menu of the drawing is a menu of the tape, and conversely.
LEMMA MenusOfTape ==
    ASSUME NEW d, Sound(d)
    PROVE  /\ \A p \in Typed(d, {"collect_digit"}) :
                Pc(d, p) \in {n \in DOMAIN Tape(d) : Tape(d)[n].op = "collect_digit"}
           /\ \A n \in {m \in DOMAIN Tape(d) : Tape(d)[m].op = "collect_digit"} :
                \E p \in Typed(d, {"collect_digit"}) :
                    Pc(d, p) = n /\ Tape(d)[n].returns = d[p].returns
  <1>1. ASSUME NEW p \in Typed(d, {"collect_digit"})
        PROVE  Pc(d, p) \in DOMAIN Tape(d) /\ Tape(d)[Pc(d, p)].op = "collect_digit"
    <2>1. p \in DOMAIN d /\ d[p].type = "collect_digit"
      BY DEF Typed
    <2> QED
      BY <2>1, TapeOfBlock, InstructionFields
  <1>2. ASSUME NEW n \in DOMAIN Tape(d), Tape(d)[n].op = "collect_digit"
        PROVE  \E p \in Typed(d, {"collect_digit"}) :
                    Pc(d, p) = n /\ Tape(d)[n].returns = d[p].returns
    <2>1. PICK p \in DOMAIN d : Pc(d, p) = n /\ Tape(d)[n] = Instruction(d, p)
      BY AddressOfBlock
    <2>2. d[p].type = "collect_digit" /\ Tape(d)[n].returns = d[p].returns
      BY <1>2, <2>1, InstructionFields
    <2> QED
      BY <2>1, <2>2 DEF Typed
  <1> QED
    BY <1>1, <1>2

\* A call starts at the entry, and so does the simulation.
LEMMA PublishPath ==
    ASSUME PathInv, NEW v \in Versions, NEW d \in Flows, Publish(v, d)
    PROVE  PathInv'
  <1>1. PICK p \in Programs(v, d) :
            /\ flow' = d /\ program' = p
            /\ outcome' = IF ProgramAccepted(p) THEN "running" ELSE "refused"
            /\ returns' = [n \in {m \in DOMAIN p.tape : p.tape[m].op = "collect_digit"} |-> 0]
    BY DEF Publish
  <1>2. /\ Sound(d) /\ p.tape = Tape(d) /\ p.version = v
        /\ v = 2 => Typed(d, {"record_message", "external_call"}) = {}
        /\ v = 3 => Typed(d, {"external_call"}) = {}
    BY PublishedIsSound
  <1>3. /\ sim' = StartAt(d) /\ pc' = 0 /\ attempt' = 0 /\ outcome' \in {"running", "refused"}
        /\ transitions' = transitions /\ elapsed' = elapsed /\ overtime' = overtime /\ ~Started
    BY <1>1 DEF Publish, PathInv, Counted, Started
  <1>4. <<>> \in DOMAIN d /\ Pc(d, <<>>) = 0 /\ IsBlock(d[<<>>])
    BY <1>2, PcOfRoot, SoundPositions
  <1>5. Compiled'
    BY <1>1, <1>2 DEF Compiled
  <1>6. Together'
    <2>1. /\ sim' \in [at : DOMAIN d, status : Answers, attempt : Nat,
                       returns : [Typed(d, {"collect_digit"}) -> Nat]]
          /\ sim'.at = <<>> /\ sim'.attempt = 0 /\ sim'.status = "going"
      <3> DEFINE none == [m \in Typed(d, {"collect_digit"}) |-> 0]
                 root == <<>>
      <3>1. none \in [Typed(d, {"collect_digit"}) -> Nat] /\ root \in DOMAIN d
        BY <1>4
      <3>2. sim' = [at |-> root, status |-> "going", attempt |-> 0, returns |-> none]
        BY <1>3 DEF StartAt
      <3>3. root = <<>>
        OBVIOUS
      <3> HIDE DEF none, root
      <3>4. sim'.at = root /\ sim'.attempt = 0 /\ sim'.status = "going" /\ sim'.returns = none
        BY <3>2
      <3>5. sim' \in [at : DOMAIN d, status : Answers, attempt : Nat,
                       returns : [Typed(d, {"collect_digit"}) -> Nat]]
        BY <3>1, <3>2 DEF Answers
      <3> QED
        BY <3>3, <3>4, <3>5
    <2>2. 0 < d[<<>>].attempts
      BY <1>4 DEF IsBlock
    <2> QED
      BY <1>1, <1>3, <1>4, <2>1, <2>2 DEF Together, Drawings, Running
  <1>7. Returned'
    <2>1. returns' \in [MenuPcs' -> Nat]
      BY <1>1 DEF MenuPcs
    <2>2. \A m \in Typed(d, {"collect_digit"}) :
            returns'[Pc(d, m)] = 0 /\ sim'.returns[m] = 0 /\ 0 <= d[m].returns
      <3> SUFFICES ASSUME NEW m \in Typed(d, {"collect_digit"})
                   PROVE  returns'[Pc(d, m)] = 0 /\ sim'.returns[m] = 0 /\ 0 <= d[m].returns
        OBVIOUS
      <3>1. Pc(d, m) \in {n \in DOMAIN Tape(d) : Tape(d)[n].op = "collect_digit"}
        BY <1>2, MenusOfTape
      <3>2. IsBlock(d[m])
        BY <1>2, SoundPositions DEF Typed
      <3> QED
        BY <1>1, <1>2, <1>3, <3>1, <3>2 DEF StartAt, IsBlock
    <2> QED
      BY <1>1, <2>1, <2>2 DEF Returned, Drawings
  <1>8. Counted'
    BY <1>3 DEF PathInv, Counted, Outcomes, Started
  <1> QED
    BY <1>5, <1>6, <1>7, <1>8 DEF PathInv

-----------------------------------------------------------------------------
\* Where the interpreter is, on the tape and in the drawing.
LEMMA Standing ==
    ASSUME PathInv, Running
    PROVE  /\ Started /\ Sound(flow) /\ program.tape = Tape(flow)
           /\ sim.at \in DOMAIN flow /\ IsBlock(flow[sim.at]) /\ BlockComplete(flow[sim.at])
           /\ pc \in DOMAIN program.tape
           /\ Here = Instruction(flow, sim.at) /\ Here.op = flow[sim.at].type
  <1>1. Started
    BY DEF Running, Started
  <1>2. Sound(flow) /\ program.tape = Tape(flow) /\ sim.at \in DOMAIN flow /\ pc = Pc(flow, sim.at)
    BY <1>1 DEF PathInv, Compiled, Together
  <1>3. pc \in DOMAIN program.tape /\ Here = Instruction(flow, sim.at)
    BY <1>2, TapeOfBlock DEF Here
  <1> QED
    BY <1>1, <1>2, <1>3, SoundPositions, InstructionFields

\* The program does not change.
LEMMA CompiledKept ==
    ASSUME Compiled, Started, UNCHANGED <<flow, program>>
    PROVE  Compiled'
  BY DEF Compiled

\* A turn of the loop is counted, and there was one left.
LEMMA TurnCounted ==
    ASSUME PathInv, NEW op, Turn(op), elapsed' \in Nat, overtime' \in Nat,
           outcome' \in Outcomes, Started'
    PROVE  Counted'
  BY RuntimeAssumption DEF PathInv, Counted, Turn, MayTurn

\* The simulator's state with another block and count of attempts in it, or
\* another answer.
LEMMA Placed ==
    ASSUME NEW A, NEW R, NEW s \in [at : A, status : Answers, attempt : Nat, returns : R],
           NEW q \in A, NEW n \in Nat, NEW t, t = [s EXCEPT !.at = q, !.attempt = n]
    PROVE  /\ t \in [at : A, status : Answers, attempt : Nat, returns : R]
           /\ t.at = q /\ t.attempt = n /\ t.returns = s.returns /\ t.status = s.status
  OBVIOUS

\* After an answer of the simulator the two are together again...
LEMMA Replied ==
    ASSUME NEW A, NEW R, NEW s \in [at : A, status : Answers, attempt : Nat, returns : R],
           NEW a \in Answers, NEW t, t = [s EXCEPT !.status = a]
    PROVE  /\ t \in [at : A, status : Answers, attempt : Nat, returns : R]
           /\ t.at = s.at /\ t.attempt = s.attempt /\ t.returns = s.returns /\ t.status = a
  OBVIOUS

\* ...and after another attempt at a menu...
LEMMA Retried ==
    ASSUME NEW A, NEW R, NEW s \in [at : A, status : Answers, attempt : Nat, returns : R],
           NEW n \in Nat, NEW t, t = [s EXCEPT !.attempt = n]
    PROVE  /\ t \in [at : A, status : Answers, attempt : Nat, returns : R]
           /\ t.at = s.at /\ t.attempt = n /\ t.returns = s.returns /\ t.status = s.status
  OBVIOUS

\* ...and after a return.
LEMMA WentBack ==
    ASSUME NEW A, NEW R, NEW s \in [at : A, status : Answers, attempt : Nat, returns : R],
           NEW q \in A, NEW r \in R, NEW t, t = [s EXCEPT !.at = q, !.returns = r]
    PROVE  /\ t \in [at : A, status : Answers, attempt : Nat, returns : R]
           /\ t.at = q /\ t.attempt = s.attempt /\ t.returns = r /\ t.status = s.status
  OBVIOUS

\* Along an edge: the address of what is behind it here, the block behind it
\* there.
LEMMA FollowKeeps ==
    ASSUME PathInv, Running, NEW e \in Edges(flow[sim.at]),
           pc' = Pc(flow, Append(sim.at, e)), attempt' = 0, sim' = Follow(flow, sim, e),
           UNCHANGED <<flow, program, returns, outcome>>
    PROVE  Compiled' /\ Together' /\ Returned' /\ Started'
  <1>1. Started /\ Sound(flow) /\ sim.at \in DOMAIN flow
    BY Standing
  <1>2. Append(sim.at, e) \in DOMAIN flow
    BY <1>1, BehindEdge
  <1>3. sim' = [sim EXCEPT !.at = Append(sim.at, e), !.attempt = 0]
    BY <1>2 DEF Follow
  <1>4. /\ sim \in [at : DOMAIN flow, status : Answers, attempt : Nat, returns : [Drawings -> Nat]]
        /\ sim.status = "going"
    BY <1>1 DEF PathInv, Together
  <1> DEFINE q == Append(sim.at, e)
  <1>5. /\ sim' \in [at : DOMAIN flow, status : Answers, attempt : Nat, returns : [Drawings -> Nat]]
        /\ sim'.at = q /\ sim'.attempt = 0 /\ sim'.status = "going" /\ sim'.returns = sim.returns
    <2>1. q \in DOMAIN flow
      BY <1>2
    <2>2. sim' = [sim EXCEPT !.at = q, !.attempt = 0]
      BY <1>3
    <2> HIDE DEF q
    <2>3. 0 \in Nat
      OBVIOUS
    <2> QED
      BY <1>4, <2>1, <2>2, <2>3, Placed
  <1>6. 0 < flow[q].attempts
    BY <1>1, <1>2, SoundPositions DEF IsBlock
  <1>7. Started' /\ Running'
    BY <1>1 DEF Started, Running
  <1>8. Compiled'
    BY <1>1, CompiledKept DEF PathInv
  <1>9. Together'
    BY <1>5, <1>6, <1>7 DEF Together, Running, Drawings
  <1>10. Returned'
    BY <1>1, <1>5 DEF PathInv, Returned, Drawings, MenuPcs
  <1> QED
    BY <1>7, <1>8, <1>9, <1>10

\* An end is an end for both: the interpreter stops where it is.
LEMMA EndKeeps ==
    ASSUME PathInv, Running, NEW status \in Answers, sim' = Ended(sim, status),
           outcome' = "complete" => status = "complete", outcome' \in Outcomes \ {"running"},
           UNCHANGED <<flow, program, pc, attempt, returns>>, Started'
    PROVE  Compiled' /\ Together' /\ Returned'
  <1>1. Started
    BY Standing
  <1>2. sim \in [at : DOMAIN flow, status : Answers, attempt : Nat, returns : [Drawings -> Nat]]
    BY <1>1 DEF PathInv, Together
  <1>3. /\ sim' \in [at : DOMAIN flow, status : Answers, attempt : Nat, returns : [Drawings -> Nat]]
        /\ sim'.at = sim.at /\ sim'.attempt = sim.attempt /\ sim'.status = status
        /\ sim'.returns = sim.returns
    BY <1>2, Replied DEF Ended
  <1>4. Compiled'
    BY <1>1, CompiledKept DEF PathInv
  <1>5. Together'
    BY <1>1, <1>3 DEF PathInv, Together, Running, Drawings
  <1>6. Returned'
    BY <1>1, <1>3 DEF PathInv, Returned, Drawings, MenuPcs
  <1> QED
    BY <1>4, <1>5, <1>6

\* The interpreter gives up or is interrupted, and the simulator is not told.
LEMMA StopKeeps ==
    ASSUME PathInv, Running, outcome' \in Outcomes \ {"running", "complete"}, Started',
           UNCHANGED <<flow, program, pc, attempt, returns, sim>>
    PROVE  Compiled' /\ Together' /\ Returned'
  <1>1. Started
    BY Standing
  <1>2. Compiled'
    BY <1>1, CompiledKept DEF PathInv
  <1>3. Together'
    BY <1>1 DEF PathInv, Together, Running, Drawings
  <1>4. Returned'
    BY <1>1 DEF PathInv, Returned, Drawings, MenuPcs
  <1> QED
    BY <1>2, <1>3, <1>4

\* Where a field of an instruction leads.
LEMMA WayOut ==
    ASSUME PathInv, Running, NEW e \in Elements(Owned[flow[sim.at].type])
    PROVE  e \in Edges(flow[sim.at]) /\ Here.to[e] = Pc(flow, Append(sim.at, e))
  <1>1. Here = Instruction(flow, sim.at)
    BY Standing
  <1> QED
    BY <1>1, InstructionFields DEF Edges

\* The edges that the interpreter follows by name.
LEMMA NamedEdges ==
    /\ "next" \in Elements(Owned["play_prompt"])
    /\ "next" \in Elements(Owned["record_message"])
    /\ "next" \in Elements(Owned["external_call"])
    /\ "on_open" \in Elements(Owned["schedule_branch"])
    /\ "on_unavailable" \in Elements(Owned["record_message"])
    /\ "on_timeout" \in Elements(Owned["collect_digit"])
    /\ "on_invalid" \in Elements(Owned["collect_digit"])
    /\ "on_return_limit" \in Elements(Owned["collect_digit"])
  BY DEF Elements, Owned

\* What the simulator does with an event, whatever the version.
LEMMA Answered ==
    ASSUME PathInv, Running, NEW event
    PROVE  LET s == Simulate(program.version, flow, sim, event)
               type == flow[sim.at].type IN
           /\ type = "play_prompt" => s = Follow(flow, sim, "next")
           /\ type = "end_call" => s = Ended(sim, "complete")
           /\ type = "return_to_menu" => s = SimulateReturn(flow, sim)
           /\ type = "schedule_branch" => s = Follow(flow, sim, event)
           /\ type = "collect_digit" => s = SimulateMenu(flow, sim, event)
           /\ type = "external_call" => s = Follow(flow, sim, event)
           /\ type = "record_message" =>
                s = IF event = "hangup" THEN Ended(sim, "complete")
                    ELSE Follow(flow, sim, IF event = "recorded" THEN "next" ELSE "on_unavailable")
  <1>1. Started /\ sim.at \in DOMAIN flow
    BY Standing
  <1>2. /\ program.version \in {2, 3, 4}
        /\ program.version = 2 => Typed(flow, {"record_message", "external_call"}) = {}
        /\ program.version = 3 => Typed(flow, {"external_call"}) = {}
    BY <1>1 DEF PathInv, Compiled, Versions
  <1>3. CASE program.version = 2
    <2>1. flow[sim.at].type \notin {"record_message", "external_call"}
      BY <1>1, <1>2, <1>3 DEF Typed
    <2> QED
      BY <1>3, <2>1 DEF Simulate, SimulateV2
  <1>4. CASE program.version = 3
    <2>1. flow[sim.at].type # "external_call"
      BY <1>1, <1>2, <1>4 DEF Typed
    <2> QED
      BY <1>4, <2>1 DEF Simulate, SimulateV2, SimulateV3
  <1>5. CASE program.version = 4
    BY <1>5 DEF Simulate, SimulateV2, SimulateV3, SimulateV4
  <1> QED
    BY <1>2, <1>3, <1>4, <1>5

\* Time is a number.
LEMMA TimeIsCounted ==
    /\ \A i : PromptMs(i) \in Nat
    /\ TimeoutMs \in Nat /\ RecordMs \in Nat /\ BeepMs \in Nat /\ WatchdogMs \in Nat
    /\ AnswerMs \in Nat /\ MaximumSessionMs \in Nat /\ AllowedMs \in Nat
    /\ \A e : LongestMs(e) \in Nat
  BY FlowAssumption, RuntimeAssumption DEF PromptMs, AllowedMs, LongestMs

\* Each instruction takes the interpreter where the drawing takes the simulator: a prompt.
LEMMA PlayPromptPath ==
    ASSUME PathInv, PlayPrompt
    PROVE  PathInv'
  <1>1. Running /\ Here.op = "play_prompt" /\ Turn("play_prompt") /\ elapsed \in Nat
    BY DEF PlayPrompt, Turn, PathInv, Counted
  <1>2. flow[sim.at].type = "play_prompt"
    BY <1>1, Standing
  <1>3. "next" \in Edges(flow[sim.at]) /\ Here.to["next"] = Pc(flow, Append(sim.at, "next"))
    BY <1>1, <1>2, WayOut, NamedEdges
  <1>4. sim' = Follow(flow, sim, "next")
    BY <1>1, <1>2, Answered DEF PlayPrompt, Simulated
  <1>5. Compiled' /\ Together' /\ Returned' /\ Started'
    BY <1>1, <1>3, <1>4, FollowKeeps DEF PlayPrompt, Goto
  <1>6. Counted'
    <2>1. elapsed' \in Nat /\ overtime' \in Nat /\ outcome' \in Outcomes
      BY <1>1, TimeIsCounted DEF PlayPrompt, Spend, PathInv, Counted
    <2> QED
      BY <1>1, <1>5, <2>1, TurnCounted
  <1> QED
    BY <1>5, <1>6 DEF PathInv

\* A branch by schedule.
LEMMA ScheduleBranchPath ==
    ASSUME PathInv, NEW e \in Elements(Owned["schedule_branch"]), ScheduleBranch(e)
    PROVE  PathInv'
  <1>1. Running /\ Here.op = "schedule_branch" /\ Turn("schedule_branch") /\ elapsed \in Nat
    BY DEF ScheduleBranch, Turn, PathInv, Counted
  <1>2. flow[sim.at].type = "schedule_branch"
    BY <1>1, Standing
  <1>3. e \in Edges(flow[sim.at]) /\ Here.to[e] = Pc(flow, Append(sim.at, e))
    BY <1>1, <1>2, WayOut
  <1>4. sim' = Follow(flow, sim, e)
    BY <1>1, <1>2, Answered DEF ScheduleBranch, Simulated
  <1>5. Compiled' /\ Together' /\ Returned' /\ Started'
    BY <1>1, <1>3, <1>4, FollowKeeps DEF ScheduleBranch, Goto
  <1>6. Counted'
    <2>1. elapsed' \in Nat /\ overtime' \in Nat /\ outcome' \in Outcomes
      BY <1>1 DEF ScheduleBranch, PathInv, Counted
    <2> QED
      BY <1>1, <1>5, <2>1, TurnCounted
  <1> QED
    BY <1>5, <1>6 DEF PathInv

\* The end of the call.
LEMMA EndCallPath ==
    ASSUME PathInv, EndCall
    PROVE  PathInv'
  <1>1. Running /\ Here.op = "end_call" /\ Turn("end_call") /\ elapsed \in Nat
    BY DEF EndCall, Turn, PathInv, Counted
  <1>2. flow[sim.at].type = "end_call"
    BY <1>1, Standing
  <1>3. sim' = Ended(sim, "complete")
    BY <1>1, <1>2, Answered DEF EndCall, Simulated
  <1>4. outcome' = "complete" /\ Started' /\ "complete" \in Outcomes \ {"running"}
    BY DEF EndCall, Started, Outcomes
  <1>5. Compiled' /\ Together' /\ Returned'
    <2>1. "complete" \in Answers
      BY DEF Answers
    <2> QED
      BY <1>1, <1>3, <1>4, <2>1, EndKeeps DEF EndCall
  <1>6. Counted'
    BY <1>1, <1>4, TurnCounted DEF EndCall, PathInv, Counted
  <1> QED
    BY <1>5, <1>6 DEF PathInv

\* The interpreter gives up.
LEMMA CutShortPath ==
    ASSUME PathInv, CutShort
    PROVE  PathInv'
  <1>1. /\ Running /\ outcome' = "cut_short" /\ Started'
        /\ "cut_short" \in Outcomes \ {"running", "complete"}
    BY DEF CutShort, Started, Outcomes
  <1>2. Compiled' /\ Together' /\ Returned'
    BY <1>1, StopKeeps DEF CutShort
  <1>3. Counted'
    BY <1>1 DEF PathInv, Counted, CutShort
  <1> QED
    BY <1>2, <1>3 DEF PathInv

\* The caller hangs up, or the audio fails.
LEMMA InterruptedPath ==
    ASSUME PathInv, NEW end \in {"remote_hangup", "broken_off"}, Interrupted(end)
    PROVE  PathInv'
  <1>1. /\ Running /\ outcome' = end /\ Started'
        /\ end \in Outcomes \ {"running", "complete"}
    BY DEF Interrupted, Started, Outcomes
  <1>2. Compiled' /\ Together' /\ Returned'
    BY <1>1, StopKeeps DEF Interrupted
  <1>3. Counted'
    BY <1>1 DEF PathInv, Counted, Interrupted
  <1> QED
    BY <1>2, <1>3 DEF PathInv

\* An external call.
LEMMA ExternalCallPath ==
    ASSUME PathInv, NEW e \in Elements(Owned["external_call"]), ExternalCall(e)
    PROVE  PathInv'
  <1>1. Running /\ Here.op = "external_call" /\ Turn("external_call") /\ elapsed \in Nat
        /\ overtime \in Nat
    BY DEF ExternalCall, Turn, PathInv, Counted
  <1>2. flow[sim.at].type = "external_call"
    BY <1>1, Standing
  <1>3. PICK ms \in 0 .. LongestMs(e) :
            /\ elapsed' = elapsed + ms
            /\ overtime' = IF ms > AllowedMs THEN overtime + (LongestMs(e) - AllowedMs) ELSE overtime
            /\ IF Expired(elapsed + ms) THEN outcome' = "cut_short" /\ UNCHANGED <<pc, attempt, sim>>
               ELSE Goto(Here.to[e]) /\ Simulated(e) /\ UNCHANGED outcome
    BY DEF ExternalCall, Spend
  <1>4. elapsed' \in Nat /\ overtime' \in Nat
    BY <1>1, <1>3, TimeIsCounted
  <1>5. UNCHANGED <<flow, program, returns>>
    BY DEF ExternalCall
  <1>6. CASE Expired(elapsed + ms)
    <2>1. /\ outcome' = "cut_short" /\ UNCHANGED <<pc, attempt, sim>> /\ Started'
          /\ "cut_short" \in Outcomes \ {"running", "complete"}
      BY <1>3, <1>6 DEF Started, Outcomes
    <2>2. Compiled' /\ Together' /\ Returned'
      BY <1>1, <1>5, <2>1, StopKeeps
    <2>3. Counted'
      BY <1>1, <1>4, <2>1, TurnCounted
    <2> QED
      BY <2>2, <2>3 DEF PathInv
  <1>7. CASE ~Expired(elapsed + ms)
    <2>1. e \in Edges(flow[sim.at]) /\ Here.to[e] = Pc(flow, Append(sim.at, e))
      BY <1>1, <1>2, WayOut
    <2>2. sim' = Follow(flow, sim, e)
      BY <1>1, <1>2, <1>3, <1>7, Answered DEF Simulated
    <2>3. Compiled' /\ Together' /\ Returned' /\ Started'
      BY <1>1, <1>3, <1>5, <1>7, <2>1, <2>2, FollowKeeps DEF Goto
    <2>4. Counted'
      <3>1. outcome' \in Outcomes
        BY <1>3, <1>7 DEF PathInv, Counted
      <3> QED
        BY <1>1, <1>4, <2>3, <3>1, TurnCounted
    <2> QED
      BY <2>3, <2>4 DEF PathInv
  <1> QED
    BY <1>6, <1>7

\* A recording.
LEMMA RecordMessagePath ==
    ASSUME PathInv, NEW result \in {"recorded", "unavailable", "spoiled", "hangup"},
           RecordMessage(result)
    PROVE  PathInv'
  <1>1. Running /\ Here.op = "record_message" /\ Turn("record_message") /\ elapsed \in Nat
        /\ overtime \in Nat
    BY DEF RecordMessage, Turn, PathInv, Counted
  <1>2. flow[sim.at].type = "record_message"
    BY <1>1, Standing
  <1>3. /\ "next" \in Edges(flow[sim.at]) /\ Here.to["next"] = Pc(flow, Append(sim.at, "next"))
        /\ "on_unavailable" \in Edges(flow[sim.at])
        /\ Here.to["on_unavailable"] = Pc(flow, Append(sim.at, "on_unavailable"))
    BY <1>1, <1>2, WayOut, NamedEdges
  <1>4. elapsed' \in Nat /\ overtime' \in Nat
    <2>1. /\ result = "recorded" => \E ms \in {0, RecordMs} : elapsed' = elapsed + (BeepMs + ms)
          /\ result = "unavailable" => \E ms \in {0, BeepMs} : elapsed' = elapsed + ms
          /\ result = "spoiled" => elapsed' = elapsed + (BeepMs + RecordMs)
          /\ result = "hangup" => elapsed' = elapsed
          /\ overtime' = IF result = "spoiled" THEN overtime + RecordMs ELSE overtime
      BY DEF RecordMessage, Spend
    <2> QED
      BY <1>1, <2>1, TimeIsCounted
  <1>5. UNCHANGED <<flow, program, returns>>
    BY DEF RecordMessage
  <1>6. CASE result = "hangup"
    <2>1. sim' = Ended(sim, "complete")
      BY <1>1, <1>2, <1>6, Answered DEF RecordMessage, Simulated
    <2>2. /\ outcome' = "remote_hangup" /\ Started' /\ UNCHANGED <<pc, attempt>>
          /\ "remote_hangup" \in Outcomes \ {"running"} /\ "complete" \in Answers
      BY <1>6 DEF RecordMessage, Started, Outcomes, Answers
    <2>3. Compiled' /\ Together' /\ Returned'
      BY <1>1, <1>5, <2>1, <2>2, EndKeeps
    <2>4. Counted'
      BY <1>1, <1>4, <2>2, TurnCounted
    <2> QED
      BY <2>3, <2>4 DEF PathInv
  <1>7. CASE result # "hangup"
    <2>1. PICK e \in {"next", "on_unavailable"} :
            Goto(Here.to[e]) /\ sim' = Follow(flow, sim, e) /\ UNCHANGED outcome
      <3>1. CASE result = "recorded"
        <4>1. Goto(Here.to["next"]) /\ Simulated("recorded") /\ UNCHANGED outcome
          BY <3>1 DEF RecordMessage
        <4>2. sim' = Follow(flow, sim, "next")
          BY <1>1, <1>2, <4>1, Answered DEF Simulated
        <4> QED
          BY <4>1, <4>2
      <3>2. CASE result \in {"unavailable", "spoiled"}
        <4>1. Goto(Here.to["on_unavailable"]) /\ Simulated("unavailable") /\ UNCHANGED outcome
          BY <3>2 DEF RecordMessage
        <4>2. sim' = Follow(flow, sim, "on_unavailable")
          BY <1>1, <1>2, <4>1, Answered DEF Simulated
        <4> QED
          BY <4>1, <4>2
      <3> QED
        BY <1>7, <3>1, <3>2
    <2>2. Compiled' /\ Together' /\ Returned' /\ Started'
      BY <1>1, <1>3, <1>5, <2>1, FollowKeeps DEF Goto
    <2>3. Counted'
      <3>1. outcome' \in Outcomes
        BY <2>1 DEF PathInv, Counted
      <3> QED
        BY <1>1, <1>4, <2>2, <3>1, TurnCounted
    <2> QED
      BY <2>2, <2>3 DEF PathInv
  <1> QED
    BY <1>6, <1>7

\* A digit that has a branch, and one that has none.
LEMMA CollectDigitPath ==
    ASSUME PathInv, NEW event \in {"0", "1", "2", "timeout"}, CollectDigit(event)
    PROVE  PathInv'
  <1>1. Running /\ Here.op = "collect_digit" /\ Turn("collect_digit") /\ elapsed \in Nat
    BY DEF CollectDigit, Turn, PathInv, Counted
  <1> DEFINE b == flow[sim.at]
  <1>2. /\ Started /\ Sound(flow) /\ sim.at \in DOMAIN flow /\ b.type = "collect_digit"
        /\ Here = Instruction(flow, sim.at) /\ IsBlock(b)
    BY <1>1, Standing
  <1>3. /\ DOMAIN Here.branches = Elements(b.keys) /\ Here.attempts = b.attempts
    BY <1>2, InstructionFields
  <1>4. elapsed' \in Nat
    <2>1. PICK ms \in AttemptMs(event) : elapsed' = elapsed + ms
      BY DEF CollectDigit, Spend
    <2>2. ms \in Nat
      BY TimeIsCounted DEF AttemptMs
    <2> QED
      BY <1>1, <2>1, <2>2
  <1>5. UNCHANGED <<flow, program, returns, outcome>> /\ outcome' \in Outcomes /\ overtime' \in Nat
    BY DEF CollectDigit, PathInv, Counted
  <1>6. sim' = SimulateMenu(flow, sim, event)
    BY <1>1, <1>2, Answered DEF CollectDigit, Simulated
  <1>7. attempt = sim.attempt /\ attempt \in Nat /\ attempt < b.attempts /\ b.attempts \in Nat
    BY <1>2 DEF PathInv, Together, IsBlock
  <1>8. CASE event \in DOMAIN Here.branches
    <2>1. PICK e \in DOMAIN b.keys : b.keys[e] = event
      BY <1>3, <1>8 DEF Elements
    <2>2. /\ Here.branches[event] = Pc(flow, Append(sim.at, e))
          /\ (CHOOSE f \in {g \in DOMAIN b.keys : b.keys[g] = event} : TRUE) = e
      BY <1>2, <2>1, BranchOfKey
    <2>3. sim' = Follow(flow, sim, e)
      BY <1>6, <2>1, <2>2 DEF SimulateMenu
    <2>4. Goto(Here.branches[event]) /\ e \in Edges(b)
      BY <1>8, <2>1 DEF CollectDigit, Edges
    <2>5. Compiled' /\ Together' /\ Returned' /\ Started'
      BY <1>1, <1>5, <2>2, <2>3, <2>4, FollowKeeps DEF Goto
    <2>6. Counted'
      BY <1>1, <1>4, <1>5, <2>5, TurnCounted
    <2> QED
      BY <2>5, <2>6 DEF PathInv
  <1>9. CASE event \notin DOMAIN Here.branches
    <2>1. {e \in DOMAIN b.keys : b.keys[e] = event} = {}
      BY <1>3, <1>9 DEF Elements
    <2>2. CASE attempt + 1 = b.attempts
      <3> DEFINE e == IF event = "timeout" THEN "on_timeout" ELSE "on_invalid"
      <3>1. e \in Edges(b) /\ Here.to[e] = Pc(flow, Append(sim.at, e))
        BY <1>1, <1>2, WayOut, NamedEdges
      <3>2. Goto(Here.to[e])
        BY <1>3, <1>9, <1>7, <2>2 DEF CollectDigit
      <3>3. sim' = Follow(flow, sim, e)
        BY <1>6, <1>7, <2>1, <2>2 DEF SimulateMenu
      <3>4. Compiled' /\ Together' /\ Returned' /\ Started'
        BY <1>1, <1>5, <3>1, <3>2, <3>3, FollowKeeps DEF Goto
      <3>5. Counted'
        BY <1>1, <1>4, <1>5, <3>4, TurnCounted
      <3> QED
        BY <3>4, <3>5 DEF PathInv
    <2>3. CASE attempt + 1 # b.attempts
      <3>1. attempt' = attempt + 1 /\ pc' = pc
        BY <1>3, <1>9, <2>3 DEF CollectDigit
      <3>2. sim' = [sim EXCEPT !.attempt = sim.attempt + 1]
        BY <1>6, <1>7, <2>1, <2>3 DEF SimulateMenu
      <3>3. /\ sim \in [at : DOMAIN flow, status : Answers, attempt : Nat,
                        returns : [Drawings -> Nat]]
            /\ sim.status = "going"
        BY <1>1, <1>2 DEF PathInv, Together
      <3>4. /\ sim' \in [at : DOMAIN flow, status : Answers, attempt : Nat,
                         returns : [Drawings -> Nat]]
            /\ sim'.at = sim.at /\ sim'.attempt = sim.attempt + 1 /\ sim'.returns = sim.returns
            /\ sim'.status = sim.status
        <4>1. sim.attempt + 1 \in Nat
          BY <1>7
        <4> QED
          BY <3>2, <3>3, <4>1, Retried
      <3>5. Started' /\ Running'
        BY <1>1, <1>2, <1>5 DEF Started, Running
      <3>6. Compiled'
        BY <1>2, <1>5, CompiledKept DEF PathInv
      <3>7. Together'
        BY <1>2, <1>5, <1>7, <2>3, <3>1, <3>3, <3>4, <3>5 DEF PathInv, Together, Drawings, Running
      <3>8. Returned'
        BY <1>2, <1>5, <3>4 DEF PathInv, Returned, Drawings, MenuPcs
      <3>9. Counted'
        BY <1>1, <1>4, <1>5, <3>5, TurnCounted
      <3> QED
        BY <3>6, <3>7, <3>8, <3>9 DEF PathInv
    <2> QED
      BY <2>2, <2>3
  <1> QED
    BY <1>8, <1>9

\* A return: both go to the nearest menu above, or on past its limit.
LEMMA ReturnToMenuPath ==
    ASSUME PathInv, ReturnToMenu
    PROVE  PathInv'
  <1>1. Running /\ Here.op = "return_to_menu" /\ Turn("return_to_menu") /\ elapsed \in Nat
    BY DEF ReturnToMenu, Turn, PathInv, Counted
  <1> DEFINE p == sim.at
             m == OwnerMenu(flow, p)
             SimType == [at : DOMAIN flow, status : Answers, attempt : Nat,
                         returns : [Drawings -> Nat]]
  <1>2. /\ Started /\ Sound(flow) /\ p \in DOMAIN flow /\ flow[p].type = "return_to_menu"
        /\ Here = Instruction(flow, p) /\ program.tape = Tape(flow)
    BY <1>1, Standing
  <1>3. Menus(flow, p) # {}
    BY <1>2 DEF Sound, WellDrawn, Typed, ReturnsToMenu
  <1>4. m \in DOMAIN flow /\ flow[m].type = "collect_digit" /\ m \in Drawings
    BY <1>2, <1>3, OwnerIsMenu, MenuIsBlock DEF Drawings, Typed
  <1>5. IsBlock(flow[m])
    BY <1>2, <1>4, SoundPositions
  <1>6. Here.menu = Pc(flow, m)
    BY <1>2, InstructionFields
  <1>7. Here.menu \in DOMAIN program.tape /\ program.tape[Here.menu] = Instruction(flow, m)
    BY <1>2, <1>4, <1>6, TapeOfBlock
  <1>8. /\ program.tape[Here.menu].op = "collect_digit"
        /\ program.tape[Here.menu].returns = flow[m].returns
        /\ program.tape[Here.menu].to["on_return_limit"] = Pc(flow, Append(m, "on_return_limit"))
    BY <1>4, <1>7, InstructionFields, NamedEdges
  <1>9. /\ sim \in SimType /\ sim.status = "going" /\ attempt = sim.attempt /\ attempt = 0
    BY <1>1, <1>2 DEF PathInv, Together
  <1>10. /\ returns[Here.menu] = sim.returns[m] /\ sim.returns[m] \in Nat
         /\ sim.returns[m] <= flow[m].returns /\ flow[m].returns \in Nat
    BY <1>2, <1>4, <1>5, <1>6, <1>9 DEF PathInv, Returned, IsBlock
  <1>11. sim' = SimulateReturn(flow, sim)
    BY <1>1, <1>2, Answered DEF ReturnToMenu, Simulated
  <1>12. UNCHANGED <<flow, program, elapsed, overtime, outcome>>
    BY DEF ReturnToMenu
  <1>13. Started' /\ Running' /\ Compiled'
    BY <1>1, <1>2, <1>12, CompiledKept DEF Started, Running, PathInv
  <1>14. Counted'
    BY <1>1, <1>12, <1>13, TurnCounted DEF PathInv, Counted
  <1>15. CASE sim.returns[m] < flow[m].returns
    <2>1. /\ returns' = [returns EXCEPT ![Here.menu] = @ + 1]
          /\ pc' = Here.menu /\ attempt' = 0
      BY <1>8, <1>10, <1>15 DEF ReturnToMenu, ReturnAllowed, Goto
    <2> DEFINE r == [sim.returns EXCEPT ![m] = @ + 1]
    <2>2. sim' = [sim EXCEPT !.at = m, !.returns = r]
      BY <1>3, <1>10, <1>11, <1>15 DEF SimulateReturn
    <2>3. r \in [Drawings -> Nat]
      <3>1. sim.returns \in [Drawings -> Nat] /\ sim.returns[m] + 1 \in Nat
        BY <1>9, <1>10
      <3> QED
        BY <3>1
    <2>4. /\ sim' \in SimType /\ sim'.at = m /\ sim'.attempt = sim.attempt /\ sim'.returns = r
          /\ sim'.status = sim.status
      <3> HIDE DEF r, m
      <3> QED
        BY <1>4, <1>9, <2>2, <2>3, WentBack
    <2>5. 0 < flow[m].attempts
      BY <1>5 DEF IsBlock
    <2>6. Together'
      <3> HIDE DEF r, m
      <3> QED
        BY <1>4, <1>6, <1>9, <1>12, <1>13, <2>1, <2>4, <2>5 DEF Together, Drawings, Running
    <2>7. Returned'
      <3>1. returns' \in [MenuPcs' -> Nat]
        <4>1. returns \in [MenuPcs -> Nat] /\ returns[Here.menu] + 1 \in Nat
          BY <1>2, <1>10 DEF PathInv, Returned
        <4>2. returns' \in [MenuPcs -> Nat]
          BY <2>1, <4>1
        <4> QED
          BY <1>12, <4>2 DEF MenuPcs
      <3>2. ASSUME NEW q \in Drawings
            PROVE  returns'[Pc(flow, q)] = r[q] /\ r[q] <= flow[q].returns
        <4>1. q \in DOMAIN flow
          BY DEF Drawings, Typed
        <4>2. returns[Pc(flow, q)] = sim.returns[q] /\ sim.returns[q] <= flow[q].returns
          BY <1>2 DEF PathInv, Returned
        <4>3. CASE q = m
          <5>1. Here.menu \in DOMAIN returns
            BY <1>2, <1>7, <1>8 DEF PathInv, Returned, MenuPcs
          <5>2. returns'[Pc(flow, q)] = returns[Pc(flow, q)] + 1
            BY <1>6, <2>1, <4>3, <5>1
          <5>3. r[q] = sim.returns[q] + 1
            BY <1>4, <1>9, <4>3
          <5> QED
            BY <1>10, <1>15, <4>2, <4>3, <5>2, <5>3
        <4>4. CASE q # m
          <5>1. Pc(flow, q) # Here.menu
            BY <1>2, <1>4, <1>6, <4>1, <4>4, PcTellsBlock
          <5>2. returns'[Pc(flow, q)] = returns[Pc(flow, q)]
            <6>1. Pc(flow, q) \in DOMAIN returns
              BY <1>2, MenusOfTape DEF PathInv, Returned, MenuPcs, Drawings
            <6> QED
              BY <2>1, <5>1, <6>1
          <5>3. r[q] = sim.returns[q]
            BY <1>9, <4>4
          <5> QED
            BY <4>2, <5>2, <5>3
        <4> QED
          BY <4>3, <4>4
      <3> QED
        BY <1>12, <2>4, <3>1, <3>2 DEF Returned, Drawings
    <2> QED
      BY <1>13, <1>14, <2>6, <2>7 DEF PathInv
  <1>16. CASE ~(sim.returns[m] < flow[m].returns)
    <2> DEFINE q == Append(m, "on_return_limit")
    <2>1. pc' = Pc(flow, q) /\ attempt' = 0 /\ returns' = returns
      BY <1>8, <1>10, <1>16 DEF ReturnToMenu, ReturnAllowed, Goto
    <2>2. q \in DOMAIN flow
      BY <1>2, <1>4, BehindEdge, NamedEdges DEF Edges
    <2> DEFINE s == [sim EXCEPT !.at = m]
    <2>3. s \in SimType /\ s.at = m /\ s.attempt = 0 /\ s.returns = sim.returns /\ s.status = "going"
      <3> HIDE DEF m
      <3> QED
        BY <1>4, <1>9
    <2>4. sim' = Follow(flow, s, "on_return_limit")
      BY <1>3, <1>10, <1>11, <1>16 DEF SimulateReturn
    <2>5. sim' = [s EXCEPT !.at = q, !.attempt = 0]
      <3> HIDE DEF s, m
      <3> QED
        BY <2>2, <2>3, <2>4 DEF Follow
    <2>6. /\ sim' \in SimType /\ sim'.at = q /\ sim'.attempt = 0 /\ sim'.returns = sim.returns
          /\ sim'.status = "going"
      <3> HIDE DEF s, q
      <3>1. 0 \in Nat
        OBVIOUS
      <3> QED
        BY <2>2, <2>3, <2>5, <3>1, Placed
    <2>7. 0 < flow[q].attempts
      BY <1>2, <2>2, SoundPositions DEF IsBlock
    <2>8. Together'
      <3> HIDE DEF s, q
      <3> QED
        BY <1>12, <1>13, <2>1, <2>6, <2>7 DEF Together, Drawings, Running
    <2>9. Returned'
      BY <1>2, <1>12, <2>1, <2>6 DEF PathInv, Returned, Drawings, MenuPcs
    <2> QED
      BY <1>13, <1>14, <2>8, <2>9 DEF PathInv
  <1> QED
    BY <1>15, <1>16

\* Every step keeps the interpreter and the simulator together.
LEMMA NextPath ==
    ASSUME PathInv, [Next]_vars
    PROVE  PathInv'
  <1>1. CASE UNCHANGED vars
    BY <1>1 DEF vars, PathInv, Compiled, Together, Returned, Counted, Started, Running, Drawings,
                MenuPcs
  <1> QED
    BY <1>1, PublishPath, CutShortPath, PlayPromptPath, ReturnToMenuPath, EndCallPath,
       CollectDigitPath, ScheduleBranchPath, RecordMessagePath, ExternalCallPath, InterruptedPath
       DEF Next

\* They stay together.
LEMMA PathIsKept == Spec => []PathInv
  BY InitPath, NextPath, PTL DEF Spec

\* What the invariant says of the types.
LEMMA PathTyped ==
    ASSUME PathInv
    PROVE  TypeOK
  <1>1. CASE Started
    <2>1. Sound(flow) /\ program.tape = Tape(flow) /\ sim.at \in DOMAIN flow /\ pc = Pc(flow, sim.at)
      BY <1>1 DEF PathInv, Compiled, Together
    <2>2. \A p \in DOMAIN flow : IsBlock(flow[p])
      BY <2>1, SoundPositions
    <2>3. pc \in DOMAIN program.tape /\ attempt < Here.attempts
      <3>1. pc \in DOMAIN program.tape /\ Here = Instruction(flow, sim.at)
        BY <2>1, TapeOfBlock DEF Here
      <3> QED
        BY <1>1, <3>1, InstructionFields DEF PathInv, Together
    <2>4. ASSUME NEW m \in MenuPcs PROVE returns[m] <= program.tape[m].returns
      <3>1. PICK p \in Typed(flow, {"collect_digit"}) :
                Pc(flow, p) = m /\ Tape(flow)[m].returns = flow[p].returns
        BY <2>1, MenusOfTape DEF MenuPcs
      <3> QED
        BY <1>1, <2>1, <3>1 DEF PathInv, Returned, Drawings
    <2> QED
      BY <2>2, <2>3, <2>4 DEF TypeOK, PathInv, Counted
  <1>2. CASE ~Started
    BY <1>2 DEF TypeOK, PathInv, Counted
  <1> QED
    BY <1>1, <1>2

\* What the invariant says of the path.
LEMMA PathIsSame ==
    ASSUME PathInv
    PROVE  SamePath
  <1>1. CASE Running
    <2>1. Started /\ Here = Instruction(flow, sim.at)
      BY <1>1, Standing
    <2>2. DOMAIN sim.returns = Drawings
      BY <2>1 DEF PathInv, Together
    <2> QED
      BY <1>1, <2>1, <2>2, InstructionFields DEF SamePath, PathInv, Together, Returned, Running
  <1>2. CASE ~Running
    BY <1>2 DEF SamePath, PathInv, Together, Started
  <1> QED
    BY <1>1, <1>2

\* The interpreter stays on the tape, gives a menu no more attempts than it has and returns to
\* it no more often than it allows (RunConfiguredProgramV2).
THEOREM InterpreterIsTyped == Spec => []TypeOK
  BY PathIsKept, PathTyped, PTL

\* The compiled tape does what was drawn: the helper is at the block the simulator is at, has
\* used as many attempts and returned to each menu as often, and completes a call only where the
\* simulator does (compile_flow_v4, simulate_v4 and RunConfiguredProgramV2).
THEOREM DeviceFollowsDrawing == Spec => []SamePath
  BY PathIsKept, PathIsSame, PTL

-----------------------------------------------------------------------------
\* The limits passed on the way to a position, and the returns made.
Limits(p) == {n \in 1 .. Len(p) : p[n] = "on_return_limit"}
UsedOf(d, r) == {x \in Typed(d, {"collect_digit"}) \X (1 .. 3) : x[2] <= r[x[1]]}
Used == UsedOf(flow, sim.returns)

\* Turns are paid for: a return gives the walk its depth anew, and so does a
\* limit, which is never left again.
Paid ==
    Running =>
        transitions <= MaximumDepth * (Cardinality(Used) + Cardinality(Limits(sim.at)))
                         + Len(sim.at) + (IF attempt = 0 THEN 0 ELSE 1)

\* The numbers from one to n are n.
LEMMA UpTo ==
    ASSUME NEW n \in Nat
    PROVE  IsFiniteSet(1 .. n) /\ Cardinality(1 .. n) = n
  <1>1. IsFiniteSet(1 .. n) /\ Cardinality(1 .. n) = IF 1 > n THEN 0 ELSE n - 1 + 1
    BY FS_Interval
  <1> QED
    BY <1>1

\* A position has passed at most as many return limits as it has edges.
LEMMA LimitsCounted ==
    ASSUME NEW p \in Position
    PROVE  IsFiniteSet(Limits(p)) /\ Cardinality(Limits(p)) \in Nat /\ Cardinality(Limits(p)) <= Len(p)
  <1>1. Len(p) \in Nat
    BY DEF Position
  <1>2. IsFiniteSet(1 .. Len(p)) /\ Cardinality(1 .. Len(p)) = Len(p)
    BY <1>1, UpTo
  <1>3. Limits(p) \in SUBSET (1 .. Len(p))
    BY DEF Limits
  <1>4. IsFiniteSet(Limits(p)) /\ Cardinality(Limits(p)) <= Len(p)
    BY <1>2, <1>3, FS_Subset
  <1> QED
    BY <1>4, FS_CardinalityType

\* Along an edge the limits stay.
LEMMA LimitsStay ==
    ASSUME NEW p \in Position, NEW e, Append(p, e) \in Position
    PROVE  /\ Len(Append(p, e)) = Len(p) + 1
           /\ Cardinality(Limits(p)) <= Cardinality(Limits(Append(p, e)))
  <1>1. /\ Append(p, e) \in Position /\ Len(p) \in Nat /\ Len(Append(p, e)) = Len(p) + 1
        /\ \A n \in 1 .. Len(p) : Append(p, e)[n] = p[n]
    <2>1. p \in Seq(STRING) /\ Len(p) \in Nat
      BY DEF Position
    <2>2. /\ Len(Append(p, e)) = Len(p) + 1
          /\ \A n \in 1 .. Len(p) : Append(p, e)[n] = p[n]
      BY <2>1
    <2> QED
      BY <2>1, <2>2 DEF Position
  <1>2. Limits(p) \in SUBSET Limits(Append(p, e))
    BY <1>1 DEF Limits
  <1> QED
    BY <1>1, <1>2, LimitsCounted, FS_Subset

\* Only a menu has a return limit.
LEMMA LimitOfMenu ==
    ASSUME NEW b, IsBlock(b), "on_return_limit" \in Edges(b)
    PROVE  b.type = "collect_digit"
  <1>1. \A t \in DOMAIN Owned : "on_return_limit" \in Elements(Owned[t]) => t = "collect_digit"
    BY DEF Owned, Elements
  <1> QED
    BY <1>1 DEF IsBlock, Edges

\* The menu of a return has all the limits of the way above it, so that a
\* return never leaves what is behind a limit.
LEMMA LimitsAbove ==
    ASSUME NEW d, Sound(d), NEW p \in Typed(d, {"return_to_menu"})
    PROVE  LET m == OwnerMenu(d, p) IN
           /\ m \in DOMAIN d /\ d[m].type = "collect_digit" /\ m \in Position
           /\ \A n \in Limits(p) : n \in Limits(m)
           /\ Append(m, "on_return_limit") \in DOMAIN d
  <1> DEFINE m == OwnerMenu(d, p)
  <1>1. /\ p \in DOMAIN d /\ p \in Position /\ Len(p) \in Nat
        /\ Menus(d, p) # {} /\ p[Len(m) + 1] # "on_return_limit"
    BY SoundPositions DEF Typed, Sound, WellDrawn, ReturnsToMenu
  <1>2. m \in Menus(d, p) /\ \A q \in Menus(d, p) : Len(q) <= Len(m)
    BY <1>1, OwnerIsMenu
  <1>3. m \in DOMAIN d /\ d[m].type = "collect_digit"
    BY <1>2, MenuIsBlock
  <1>4. m \in Position /\ Len(m) \in Nat /\ Above(m, p)
    BY <1>2, <1>3, SoundPositions DEF Menus, Ancestors
  <1>5. Len(m) < Len(p) /\ \A i \in 1 .. Len(m) : m[i] = p[i]
    BY <1>1, <1>4, AboveAgrees
  <1>6. ASSUME NEW n \in Limits(p) PROVE n \in Limits(m)
    <2>1. n \in 1 .. Len(p) /\ p[n] = "on_return_limit"
      BY DEF Limits
    <2> DEFINE u == Up(p, n - 1)
    <2>2. u \in DOMAIN d /\ p[n] \in Edges(d[u])
      BY <1>1, <2>1, SoundPositions
    <2>3. d[u].type = "collect_digit"
      BY <2>1, <2>2, LimitOfMenu, SoundPositions
    <2>4. u \in Position /\ Len(u) = n - 1
      BY <1>1, <2>1 DEF Up, Position
    <2>5. Above(u, p)
      <3>1. \A i \in 1 .. n - 1 : u[i] = p[i]
        BY <1>1, <2>1 DEF Up, Position
      <3> QED
        BY <1>1, <2>1, <2>4, <3>1, AboveAgrees
    <2>6. u \in Menus(d, p)
      BY <2>2, <2>3, <2>5 DEF Menus, Ancestors
    <2>7. n - 1 <= Len(m)
      BY <1>2, <2>4, <2>6
    <2>8. n - 1 # Len(m)
      BY <1>1, <1>4, <2>1
    <2> QED
      BY <1>4, <1>5, <2>1, <2>7, <2>8 DEF Limits
  <1>7. Append(m, "on_return_limit") \in DOMAIN d
    BY <1>3, BehindEdge, NamedEdges DEF Edges
  <1> QED
    BY <1>3, <1>4, <1>6, <1>7

\* Edges have names.
LEMMA EdgeIsName ==
    ASSUME NEW d, Sound(d), NEW p \in DOMAIN d, NEW e \in Edges(d[p])
    PROVE  e \in STRING
  <1>1. Append(p, e) \in DOMAIN d /\ p \in Seq(STRING) /\ Len(p) \in Nat
    BY BehindEdge, SoundPositions DEF Position
  <1>2. Append(p, e) \in Seq(STRING)
    BY <1>1, SoundPositions DEF Position
  <1>3. Len(Append(p, e)) = Len(p) + 1 /\ Append(p, e)[Len(p) + 1] = e
    BY <1>1, AppendProperties
  <1>4. Append(p, e)[Len(p) + 1] \in STRING
    BY <1>1, <1>2, <1>3
  <1> QED
    BY <1>3, <1>4

\* Each menu has four blocks behind it that are behind no other.
LEMMA MenusAreFew ==
    ASSUME NEW d, Sound(d)
    PROVE  LET k == Cardinality(Typed(d, {"collect_digit"})) IN
           /\ IsFiniteSet(Typed(d, {"collect_digit"})) /\ k \in Nat /\ 4 * k + 1 <= MaximumBlocks
  <1> DEFINE M == Typed(d, {"collect_digit"})
             Out(m, i) == IF i = 1 THEN CHOOSE e \in DOMAIN d[m].keys : TRUE
                          ELSE Owned["collect_digit"][i - 1]
             f == [x \in M \X (1 .. 4) |-> Append(x[1], Out(x[1], x[2]))]
             Below == DOMAIN d \ {<<>>}
  <1>1. IsFiniteSet(DOMAIN d) /\ Cardinality(DOMAIN d) \in Nat /\ Cardinality(DOMAIN d) <= MaximumBlocks
    BY FS_CardinalityType DEF Sound, IsDraft, WellDrawn
  <1>2. M \in SUBSET DOMAIN d
    BY DEF Typed
  <1>3. IsFiniteSet(M) /\ Cardinality(M) \in Nat
    BY <1>1, <1>2, FS_Subset, FS_CardinalityType
  <1>4. ASSUME NEW m \in M
        PROVE  /\ m \in DOMAIN d /\ m \in Position
               /\ \A i \in 1 .. 4 : Out(m, i) \in Edges(d[m])
               /\ \A i, j \in 1 .. 4 : Out(m, i) = Out(m, j) => i = j
    <2>1. m \in DOMAIN d /\ d[m].type = "collect_digit" /\ m \in Position /\ IsBlock(d[m])
          /\ BlockComplete(d[m])
      BY SoundPositions DEF Typed
    <2>2. Out(m, 1) \in DOMAIN d[m].keys
      BY <2>1 DEF BlockComplete
    <2>3. Out(m, 1) \notin Elements(Owned["collect_digit"])
      BY <2>1, <2>2 DEF IsBlock
    <2>4. /\ Out(m, 2) = "on_timeout" /\ Out(m, 3) = "on_invalid" /\ Out(m, 4) = "on_return_limit"
      BY DEF Owned
    <2>5. \A i \in 1 .. 4 : i \in {1, 2, 3, 4}
      OBVIOUS
    <2> HIDE DEF Out
    <2>6. \A i \in 1 .. 4 : Out(m, i) \in Edges(d[m])
      BY <2>1, <2>2, <2>4, <2>5, NamedEdges DEF Edges
    <2>7. \A i, j \in 1 .. 4 : Out(m, i) = Out(m, j) => i = j
      BY <2>3, <2>4, <2>5, NamedEdges
    <2> QED
      BY <2>1, <2>6, <2>7
  <1> HIDE DEF Out
  <1>5. \A m \in M : \A i \in 1 .. 4 : Append(m, Out(m, i)) \in Below /\ Out(m, i) \in STRING
    <2> SUFFICES ASSUME NEW m \in M, NEW i \in 1 .. 4
                 PROVE  Append(m, Out(m, i)) \in Below /\ Out(m, i) \in STRING
      OBVIOUS
    <2>1. Append(m, Out(m, i)) \in DOMAIN d /\ Out(m, i) \in STRING
      BY <1>4, BehindEdge, EdgeIsName
    <2>2. Append(m, Out(m, i)) # <<>>
      BY <1>4, <2>1 DEF Position
    <2> QED
      BY <2>1, <2>2
  <1>6. f \in Injection(M \X (1 .. 4), Below)
    <2>1. f \in [M \X (1 .. 4) -> Below]
      BY <1>5
    <2>2. ASSUME NEW x \in M \X (1 .. 4), NEW y \in M \X (1 .. 4), f[x] = f[y] PROVE x = y
      <3>1. Append(x[1], Out(x[1], x[2])) = Append(y[1], Out(y[1], y[2]))
        BY <2>2
      <3>2. /\ x[1] \in Seq(STRING) /\ y[1] \in Seq(STRING)
            /\ Out(x[1], x[2]) \in STRING /\ Out(y[1], y[2]) \in STRING
        BY <1>4, <1>5 DEF Position
      <3>3. x[1] = y[1] /\ Out(x[1], x[2]) = Out(y[1], y[2])
        BY <3>1, <3>2, AppendInjective
      <3>4. x[2] = y[2]
        BY <1>4, <3>3
      <3> QED
        BY <3>3, <3>4
    <2> QED
      BY <2>1, <2>2 DEF Injection, IsInjective
  <1>7. IsFiniteSet(Below) /\ Cardinality(Below) = Cardinality(DOMAIN d) - 1
    BY <1>1, PcOfRoot, FS_RemoveElement
  <1>8. Cardinality(M \X (1 .. 4)) <= Cardinality(Below)
    <2> HIDE DEF f, Below, M
    <2> QED
      BY <1>6, <1>7, FS_Injection
  <1>9. Cardinality(M \X (1 .. 4)) = Cardinality(M) * 4
    <2>1. PICK n \in Nat : n = 4
      OBVIOUS
    <2>2. IsFiniteSet(1 .. n) /\ Cardinality(1 .. n) = n
      BY UpTo
    <2> HIDE DEF M
    <2>3. Cardinality(M \X (1 .. n)) = Cardinality(M) * n
      BY <1>3, <2>2, FS_Product
    <2> QED
      BY <2>1, <2>3
  <1> HIDE DEF M, Below
  <1>10. 4 * Cardinality(M) + 1 <= MaximumBlocks
    BY <1>1, <1>3, <1>7, <1>8, <1>9, FlowAssumption
  <1> QED
    BY <1>3, <1>10 DEF M

-----------------------------------------------------------------------------
\* A menu takes at most three returns.
LEMMA ThreeReturns == IsFiniteSet(1 .. 3) /\ Cardinality(1 .. 3) = 3
  <1>1. PICK n \in Nat : n = 3
    OBVIOUS
  <1>2. IsFiniteSet(1 .. n) /\ Cardinality(1 .. n) = n
    BY UpTo
  <1> QED
    BY <1>1, <1>2

\* The returns that have been used are no more than three for each menu.
LEMMA UsedCounted ==
    ASSUME NEW d, Sound(d), NEW r
    PROVE  /\ IsFiniteSet(UsedOf(d, r)) /\ Cardinality(UsedOf(d, r)) \in Nat
           /\ \E k \in Nat : 4 * k + 1 <= MaximumBlocks /\ Cardinality(UsedOf(d, r)) <= 3 * k
  <1> DEFINE M == Typed(d, {"collect_digit"})
  <1>1. IsFiniteSet(M) /\ Cardinality(M) \in Nat /\ 4 * Cardinality(M) + 1 <= MaximumBlocks
    BY MenusAreFew
  <1>2. IsFiniteSet(M \X (1 .. 3)) /\ Cardinality(M \X (1 .. 3)) = Cardinality(M) * 3
    <2> HIDE DEF M
    <2> QED
      BY <1>1, ThreeReturns, FS_Product
  <1>3. UsedOf(d, r) \in SUBSET (M \X (1 .. 3))
    BY DEF UsedOf
  <1> HIDE DEF M
  <1>4. IsFiniteSet(UsedOf(d, r)) /\ Cardinality(UsedOf(d, r)) <= Cardinality(M) * 3
    BY <1>2, <1>3, FS_Subset
  <1>5. Cardinality(UsedOf(d, r)) \in Nat
    BY <1>4, FS_CardinalityType
  <1>6. Cardinality(UsedOf(d, r)) <= 3 * Cardinality(M)
    BY <1>1, <1>4, <1>5
  <1> QED
    BY <1>1, <1>4, <1>5, <1>6

\* So many are used now.
LEMMA UsedNow ==
    ASSUME PathInv, Started
    PROVE  IsFiniteSet(Used) /\ Cardinality(Used) \in Nat
  BY UsedCounted DEF PathInv, Compiled, Used

\* What one more unit of the potential pays for.
LEMMA Deeper ==
    ASSUME NEW D \in Nat, NEW x \in Nat, NEW y \in Nat
    PROVE  /\ D * x \in Nat /\ D * y \in Nat
           /\ x <= y => D * x <= D * y
           /\ x + 1 <= y => D * x + D <= D * y
  <1>1. D * x \in Nat /\ D * y \in Nat
    OBVIOUS
  <1>2. x <= y => D * x <= D * y
    OBVIOUS
  <1>3. D * (x + 1) = D * x + D
    OBVIOUS
  <1>4. x + 1 <= y => D * (x + 1) <= D * y
    OBVIOUS
  <1> QED
    BY <1>1, <1>2, <1>3, <1>4

\* What a turn may cost.
TurnMade == transitions' = IF attempt = 0 THEN transitions + 1 ELSE transitions

\* A step down an edge pays for its turn.
LEMMA FollowPaid ==
    ASSUME PathInv, Paid, Running, NEW e \in Edges(flow[sim.at]), attempt' = 0,
           sim' = Follow(flow, sim, e), TurnMade, UNCHANGED flow
    PROVE  Paid'
  <1>1. Started /\ Sound(flow) /\ sim.at \in DOMAIN flow
    BY Standing
  <1>2. Append(sim.at, e) \in DOMAIN flow /\ sim.at \in Position /\ Append(sim.at, e) \in Position
    BY <1>1, BehindEdge, SoundPositions
  <1>3. sim \in [at : DOMAIN flow, status : Answers, attempt : Nat, returns : [Drawings -> Nat]]
    BY <1>1 DEF PathInv, Together
  <1> DEFINE p == sim.at
             q == Append(p, e)
  <1>4. sim'.at = q /\ sim'.returns = sim.returns
    <2>1. sim' = [sim EXCEPT !.at = q, !.attempt = 0]
      BY <1>2 DEF Follow
    <2>2. 0 \in Nat /\ q \in DOMAIN flow
      BY <1>2
    <2> HIDE DEF q
    <2> QED
      BY <1>3, <2>1, <2>2, Placed
  <1>5. Used' = Used
    BY <1>4 DEF Used, UsedOf, Drawings
  <1>6. /\ Len(q) = Len(p) + 1 /\ Cardinality(Limits(p)) <= Cardinality(Limits(q)) /\ q \in Position
    BY <1>2, LimitsStay
  <1> DEFINE u == Cardinality(Used)
             x == Cardinality(Limits(p))
             y == Cardinality(Limits(q))
  <1>7. u \in Nat /\ x \in Nat /\ y \in Nat /\ x <= y /\ Len(p) \in Nat
    <2>1. u \in Nat
      BY <1>1, UsedNow
    <2>2. x \in Nat /\ Len(p) \in Nat
      BY <1>2, LimitsCounted DEF Position
    <2>3. y \in Nat
      BY <1>6, LimitsCounted
    <2> QED
      BY <1>6, <2>1, <2>2, <2>3
  <1>8. /\ transitions \in Nat /\ attempt \in Nat
        /\ transitions <= MaximumDepth * (u + x) + Len(p) + (IF attempt = 0 THEN 0 ELSE 1)
    BY <1>1 DEF PathInv, Counted, Together, Paid
  <1>9. /\ MaximumDepth * (u + x) \in Nat /\ MaximumDepth * (u + y) \in Nat
        /\ MaximumDepth * (u + x) <= MaximumDepth * (u + y)
    <2>1. u + x \in Nat /\ u + y \in Nat /\ u + x <= u + y
      BY <1>7
    <2> HIDE DEF u, x, y
    <2> QED
      BY <2>1, Deeper, FlowAssumption
  <1>10. transitions' <= MaximumDepth * (u + y) + Len(q)
    <2> HIDE DEF u, x, y, p, q
    <2> QED
      BY <1>6, <1>7, <1>8, <1>9 DEF TurnMade
  <1>11. MaximumDepth * (u + y) + Len(q) \in Nat
    BY <1>6, <1>7, <1>9
  <1> QED
    BY <1>4, <1>5, <1>10, <1>11 DEF Paid

\* Another attempt at a menu is the same turn.
LEMMA AttemptPaid ==
    ASSUME PathInv, Paid, Running, attempt' = attempt + 1, TurnMade, UNCHANGED flow,
           sim'.at = sim.at, sim'.returns = sim.returns
    PROVE  Paid'
  <1>1. Started /\ sim.at \in DOMAIN flow /\ Sound(flow)
    BY Standing
  <1>2. Used' = Used
    BY DEF Used, UsedOf, Drawings
  <1>3. /\ transitions \in Nat /\ attempt \in Nat /\ Len(sim.at) \in Nat
        /\ Cardinality(Used) \in Nat /\ Cardinality(Limits(sim.at)) \in Nat
    BY <1>1, UsedNow, SoundPositions, LimitsCounted DEF PathInv, Counted, Together
  <1> DEFINE w == MaximumDepth * (Cardinality(Used) + Cardinality(Limits(sim.at)))
  <1>4. w \in Nat
    BY <1>3, FlowAssumption
  <1>5. transitions <= w + Len(sim.at) + (IF attempt = 0 THEN 0 ELSE 1)
    BY DEF Paid
  <1>6. transitions' <= w + Len(sim.at) + 1 /\ attempt' # 0
    <2> HIDE DEF w
    <2>1. CASE attempt = 0
      BY <1>3, <1>4, <1>5, <2>1 DEF TurnMade
    <2>2. CASE attempt # 0
      BY <1>3, <1>4, <1>5, <2>2 DEF TurnMade
    <2> QED
      BY <2>1, <2>2
  <1> QED
    BY <1>2, <1>6 DEF Paid

\* A return costs the depth once: as a return of the menu's, or as a limit.
LEMMA ReturnPaid ==
    ASSUME PathInv, Paid, ReturnToMenu
    PROVE  Paid'
  <1>1. Running /\ Here.op = "return_to_menu" /\ TurnMade
    BY DEF ReturnToMenu, Turn, TurnMade
  <1> DEFINE p == sim.at
             m == OwnerMenu(flow, p)
             l == Append(m, "on_return_limit")
  <1>2. /\ Started /\ Sound(flow) /\ p \in DOMAIN flow /\ flow[p].type = "return_to_menu"
        /\ Here = Instruction(flow, p) /\ program.tape = Tape(flow)
    BY <1>1, Standing
  <1>3. /\ p \in Typed(flow, {"return_to_menu"}) /\ p \in Position /\ Len(p) \in Nat
        /\ Menus(flow, p) # {} /\ p[Len(m) + 1] # "on_return_limit" /\ Len(p) + 1 <= MaximumDepth
    <2>1. p \in Typed(flow, {"return_to_menu"})
      BY <1>2 DEF Typed
    <2>2. p \in Position /\ Len(p) \in Nat
      BY <1>2, SoundPositions
    <2>3. Len(p) < MaximumDepth
      BY <1>2 DEF Sound, WellDrawn
    <2>4. Menus(flow, p) # {} /\ p[Len(m) + 1] # "on_return_limit"
      BY <1>2, <2>1 DEF Sound, WellDrawn, ReturnsToMenu
    <2> HIDE DEF p
    <2>5. Len(p) + 1 <= MaximumDepth
      BY <2>2, <2>3, FlowAssumption
    <2> QED
      BY <2>1, <2>2, <2>4, <2>5
  <1>4. /\ m \in DOMAIN flow /\ flow[m].type = "collect_digit" /\ m \in Position /\ Len(m) \in Nat
        /\ \A n \in Limits(p) : n \in Limits(m)
        /\ l \in DOMAIN flow /\ l \in Position /\ m \in Drawings
    BY <1>2, <1>3, LimitsAbove, SoundPositions DEF Drawings, Typed
  <1>5. /\ sim \in [at : DOMAIN flow, status : Answers, attempt : Nat, returns : [Drawings -> Nat]]
        /\ attempt = 0
    BY <1>2 DEF PathInv, Together
  <1>6. flow' = flow /\ sim' = SimulateReturn(flow, sim)
    BY <1>1, <1>2, Answered DEF ReturnToMenu, Simulated
  <1>7. sim.returns[m] \in Nat /\ flow[m].returns \in 1 .. 3
    BY <1>2, <1>4, <1>5, SoundPositions DEF IsBlock
  <1>8. transitions' = transitions + 1 /\ transitions \in Nat
    BY <1>1, <1>2, <1>5 DEF TurnMade, PathInv, Counted
  <1> DEFINE u == Cardinality(Used)
             x == Cardinality(Limits(p))
  <1>9. u \in Nat /\ x \in Nat /\ transitions <= MaximumDepth * (u + x) + Len(p)
    <2>1. u \in Nat /\ x \in Nat
      BY <1>2, <1>3, UsedNow, LimitsCounted
    <2>2. transitions <= MaximumDepth * (u + x) + Len(p) + 0
      BY <1>1, <1>5 DEF Paid
    <2>3. MaximumDepth * (u + x) \in Nat
      BY <2>1, FlowAssumption
    <2> HIDE DEF u, x, p
    <2> QED
      BY <1>3, <2>1, <2>2, <2>3
  <1>10. SUFFICES ASSUME NEW n \in Nat, NEW y \in Nat, u + x + 1 <= n + y,
                         n = Cardinality(Used'), y = Cardinality(Limits(sim'.at)),
                         Len(sim'.at) \in Nat
                  PROVE  Paid'
    <2>1. CASE sim.returns[m] < flow[m].returns
      <3> DEFINE r == [sim.returns EXCEPT ![m] = @ + 1]
      <3>1. sim' = [sim EXCEPT !.at = m, !.returns = r]
        BY <1>3, <1>6, <1>7, <2>1 DEF SimulateReturn
      <3>2. r \in [Drawings -> Nat]
        <4>1. sim.returns \in [Drawings -> Nat] /\ sim.returns[m] + 1 \in Nat
          BY <1>5, <1>7
        <4> QED
          BY <4>1
      <3>3. sim'.at = m /\ sim'.returns = r
        <4> HIDE DEF r, m
        <4> QED
          BY <1>4, <1>5, <3>1, <3>2, WentBack
      <3> DEFINE z == <<m, sim.returns[m] + 1>>
      <3>4. Used' = Used \cup {z} /\ z \notin Used
        <4>1. \A o \in Drawings : r[o] = IF o = m THEN sim.returns[m] + 1 ELSE sim.returns[o]
          BY <1>4, <1>5
        <4>2. \A o \in Drawings : sim.returns[o] \in Nat
          BY <1>5
        <4>3. Used' = {o \in Drawings \X (1 .. 3) : o[2] <= r[o[1]]}
          BY <1>6, <3>3 DEF Used, UsedOf, Drawings
        <4>4. sim.returns[m] + 1 \in 1 .. 3
          BY <1>7, <2>1
        <4> HIDE DEF r, m
        <4>5. \A o \in Drawings \X (1 .. 3) : o[2] <= r[o[1]] <=> (o[2] <= sim.returns[o[1]] \/ o = z)
          <5> SUFFICES ASSUME NEW a \in Drawings, NEW b \in 1 .. 3
                       PROVE  b <= r[a] <=> (b <= sim.returns[a] \/ <<a, b>> = z)
            OBVIOUS
          <5>1. CASE a = m
            BY <1>4, <4>1, <4>2, <5>1
          <5>2. CASE a # m
            BY <4>1, <5>2
          <5> QED
            BY <5>1, <5>2
        <4>6. z \in Drawings \X (1 .. 3) /\ ~(z[2] <= sim.returns[z[1]])
          BY <1>4, <1>7, <4>4
        <4> HIDE DEF z
        <4> QED
          BY <4>3, <4>5, <4>6 DEF Used, UsedOf, Drawings
      <3>5. Cardinality(Used') = u + 1
        <4> HIDE DEF z
        <4> QED
          BY <1>2, <3>4, UsedNow, FS_AddElement
      <3>6. x <= Cardinality(Limits(m)) /\ Cardinality(Limits(m)) \in Nat
        BY <1>4, LimitsCounted, FS_Subset
      <3>7. /\ u + x + 1 <= Cardinality(Used') + Cardinality(Limits(m))
            /\ Cardinality(Used') \in Nat
        <4> HIDE DEF u, x, m
        <4> QED
          BY <1>9, <3>5, <3>6
      <3> QED
        BY <1>4, <1>10, <3>3, <3>6, <3>7
    <2>2. CASE ~(sim.returns[m] < flow[m].returns)
      <3> DEFINE s == [sim EXCEPT !.at = m]
      <3>1. s \in [at : DOMAIN flow, status : Answers, attempt : Nat, returns : [Drawings -> Nat]]
            /\ s.at = m /\ s.returns = sim.returns
        <4> HIDE DEF m
        <4> QED
          BY <1>4, <1>5
      <3>2. sim' = Follow(flow, s, "on_return_limit")
        BY <1>3, <1>6, <1>7, <2>2 DEF SimulateReturn
      <3>3. sim' = [s EXCEPT !.at = l, !.attempt = 0]
        <4> HIDE DEF s, m
        <4> QED
          BY <1>4, <3>1, <3>2 DEF Follow
      <3>4. sim'.at = l /\ sim'.returns = sim.returns
        <4>1. 0 \in Nat
          OBVIOUS
        <4> HIDE DEF s, l
        <4> QED
          BY <1>4, <3>1, <3>3, <4>1, Placed
      <3>5. Used' = Used
        BY <1>6, <3>4 DEF Used, UsedOf, Drawings
      <3>6. /\ Len(l) = Len(m) + 1 /\ \A n \in 1 .. Len(m) : l[n] = m[n]
            /\ l[Len(m) + 1] = "on_return_limit"
        BY <1>4, AppendProperties DEF Position
      <3>7. Len(m) + 1 \in Limits(l) /\ Len(m) + 1 \notin Limits(p) /\ Limits(p) \subseteq Limits(l)
        <4> HIDE DEF m, l, p
        <4> QED
          BY <1>3, <1>4, <3>6 DEF Limits
      <3>8. x <= Cardinality(Limits(l)) /\ Cardinality(Limits(l)) # x
        BY <1>4, <3>7, LimitsCounted, FS_Subset
      <3>9. Cardinality(Limits(l)) \in Nat /\ Len(l) \in Nat
        <4> HIDE DEF l
        <4> QED
          BY <1>4, LimitsCounted DEF Position
      <3>10. u + x + 1 <= Cardinality(Used') + Cardinality(Limits(l))
        <4> HIDE DEF x, l
        <4> QED
          BY <1>9, <3>5, <3>8, <3>9
      <3> QED
        BY <1>9, <1>10, <3>4, <3>5, <3>9, <3>10
    <2> QED
      BY <2>1, <2>2
  <1>11. /\ MaximumDepth * (u + x) \in Nat /\ MaximumDepth * (n + y) \in Nat
         /\ MaximumDepth * (u + x) + MaximumDepth <= MaximumDepth * (n + y)
    <2>1. u + x \in Nat /\ n + y \in Nat /\ (u + x) + 1 <= n + y
      BY <1>9, <1>10
    <2> HIDE DEF u, x
    <2> QED
      BY <2>1, Deeper, FlowAssumption
  <1>12. transitions' <= MaximumDepth * (n + y) + Len(sim'.at)
    <2> DEFINE a == MaximumDepth * (u + x)
               b == MaximumDepth * (n + y)
               k == Len(p)
               j == Len(sim'.at)
    <2>1. a \in Nat /\ b \in Nat /\ a + MaximumDepth <= b /\ transitions <= a + k
      BY <1>9, <1>11
    <2>2. k \in Nat /\ k + 1 <= MaximumDepth /\ j \in Nat /\ MaximumDepth \in Nat
      BY <1>3, <1>10, FlowAssumption
    <2>3. transitions' = transitions + 1 /\ transitions \in Nat
      BY <1>8
    <2>4. transitions' <= b + j
      <3> HIDE DEF a, b, k, j
      <3> QED
        BY <2>1, <2>2, <2>3
    <2> QED
      BY <2>4
  <1>13. MaximumDepth * (n + y) + Len(sim'.at) \in Nat
    BY <1>10, <1>11
  <1>14. attempt' = 0
    BY DEF ReturnToMenu, Goto
  <1> QED
    BY <1>10, <1>12, <1>13, <1>14 DEF Paid

\* Every action pays for its turn.
LEMMA PublishPaid ==
    ASSUME PathInv, NEW v \in Versions, NEW d \in Flows, Publish(v, d)
    PROVE  Paid'
  <1>1. /\ transitions' = 0 /\ attempt' = 0 /\ sim'.at = <<>> /\ flow' = d
    BY DEF Publish, PathInv, Counted, Started, StartAt
  <1>2. Sound(d)
    BY PublishedIsSound DEF Publish
  <1> DEFINE u == Cardinality(Used')
             x == Cardinality(Limits(sim'.at))
  <1>3. u \in Nat
    BY <1>1, <1>2, UsedCounted DEF Used
  <1>4. x \in Nat /\ Len(sim'.at) = 0
    <2>1. <<>> \in Position /\ Len(<<>>) = 0
      BY DEF Position
    <2> QED
      BY <1>1, <2>1, LimitsCounted
  <1>5. MaximumDepth * (u + x) \in Nat
    <2> HIDE DEF u, x
    <2> QED
      BY <1>3, <1>4, FlowAssumption
  <1>6. 0 <= MaximumDepth * (u + x) + 0 + 0
    <2> HIDE DEF u, x
    <2> QED
      BY <1>5
  <1> QED
    BY <1>1, <1>4, <1>6 DEF Paid

\* An attempt at a menu pays for its turn.
LEMMA CollectDigitPaid ==
    ASSUME PathInv, Paid, NEW event \in {"0", "1", "2", "timeout"}, CollectDigit(event)
    PROVE  Paid'
  <1> DEFINE b == flow[sim.at]
  <1>1. /\ Running /\ TurnMade /\ Here.op = "collect_digit" /\ UNCHANGED flow
    BY DEF CollectDigit, Turn, TurnMade
  <1>2. /\ Started /\ Sound(flow) /\ sim.at \in DOMAIN flow /\ b.type = "collect_digit"
        /\ Here = Instruction(flow, sim.at) /\ IsBlock(b)
    BY <1>1, Standing
  <1>3. DOMAIN Here.branches = Elements(b.keys) /\ Here.attempts = b.attempts
    BY <1>2, InstructionFields
  <1>4. sim' = SimulateMenu(flow, sim, event)
    BY <1>1, <1>2, Answered DEF CollectDigit, Simulated
  <1>5. attempt = sim.attempt /\ attempt \in Nat /\ attempt < b.attempts /\ b.attempts \in Nat
    BY <1>2 DEF PathInv, Together, IsBlock
  <1> DEFINE hit == {e \in DOMAIN b.keys : b.keys[e] = event}
  <1>6. CASE hit # {}
    <2>1. event \in DOMAIN Here.branches
      BY <1>3, <1>6 DEF Elements
    <2>2. attempt' = 0
      BY <2>1 DEF CollectDigit, Goto
    <2>3. PICK e \in hit : sim' = Follow(flow, sim, e)
      BY <1>4, <1>6 DEF SimulateMenu
    <2> QED
      BY <1>1, <2>2, <2>3, FollowPaid DEF Edges
  <1>7. CASE hit = {} /\ attempt + 1 = b.attempts
    <2>1. event \notin DOMAIN Here.branches
      BY <1>3, <1>7 DEF Elements
    <2>2. attempt' = 0
      BY <1>3, <1>5, <1>7, <2>1 DEF CollectDigit, Goto
    <2>3. PICK e \in {"on_timeout", "on_invalid"} : sim' = Follow(flow, sim, e)
      BY <1>4, <1>5, <1>7 DEF SimulateMenu
    <2>4. e \in Edges(b)
      BY <1>2, NamedEdges DEF Edges
    <2> QED
      BY <1>1, <2>2, <2>3, <2>4, FollowPaid
  <1>8. CASE hit = {} /\ attempt + 1 # b.attempts
    <2>1. event \notin DOMAIN Here.branches
      BY <1>3, <1>8 DEF Elements
    <2>2. attempt' = attempt + 1
      BY <1>3, <1>8, <2>1 DEF CollectDigit
    <2>3. sim' = [sim EXCEPT !.attempt = sim.attempt + 1]
      BY <1>4, <1>5, <1>8 DEF SimulateMenu
    <2>4. sim \in [at : DOMAIN flow, status : Answers, attempt : Nat, returns : [Drawings -> Nat]]
      BY <1>2 DEF PathInv, Together
    <2>5. sim'.at = sim.at /\ sim'.returns = sim.returns
      <3>1. sim.attempt + 1 \in Nat
        BY <1>5
      <3> QED
        BY <2>3, <2>4, <3>1, Retried
    <2> QED
      BY <1>1, <2>2, <2>5, AttemptPaid
  <1> QED
    BY <1>6, <1>7, <1>8

\* A recording pays for its turn.
LEMMA RecordMessagePaid ==
    ASSUME PathInv, Paid, NEW result \in {"recorded", "unavailable", "spoiled", "hangup"},
           RecordMessage(result)
    PROVE  Paid'
  <1>1. Running /\ TurnMade /\ Here.op = "record_message" /\ UNCHANGED flow
    BY DEF RecordMessage, Turn, TurnMade
  <1>2. flow[sim.at].type = "record_message"
    BY <1>1, Standing
  <1>3. "next" \in Edges(flow[sim.at]) /\ "on_unavailable" \in Edges(flow[sim.at])
    BY <1>2, NamedEdges DEF Edges
  <1>4. CASE result = "recorded"
    <2>1. sim' = Follow(flow, sim, "next") /\ attempt' = 0
      BY <1>1, <1>2, <1>4, Answered DEF RecordMessage, Simulated, Goto
    <2> QED
      BY <1>1, <1>3, <2>1, FollowPaid
  <1>5. CASE result \in {"unavailable", "spoiled"}
    <2>1. attempt' = 0 /\ Simulated("unavailable")
      BY <1>5 DEF RecordMessage, Goto
    <2>2. sim' = Follow(flow, sim, "on_unavailable")
      BY <1>1, <1>2, <2>1, Answered DEF Simulated
    <2> QED
      BY <1>1, <1>3, <2>1, <2>2, FollowPaid
  <1>6. CASE result = "hangup"
    BY <1>6 DEF RecordMessage, Paid, Running
  <1> QED
    BY <1>4, <1>5, <1>6

\* Every step pays for its turn.
LEMMA NextPaid ==
    ASSUME PathInv, Paid, [Next]_vars
    PROVE  Paid'
  <1>1. CASE PlayPrompt
    <2>1. Running /\ TurnMade /\ Here.op = "play_prompt" /\ UNCHANGED flow /\ attempt' = 0
      BY <1>1 DEF PlayPrompt, Turn, TurnMade, Goto
    <2>2. flow[sim.at].type = "play_prompt"
      BY <2>1, Standing
    <2>3. sim' = Follow(flow, sim, "next")
      BY <1>1, <2>1, <2>2, Answered DEF PlayPrompt, Simulated
    <2>4. "next" \in Edges(flow[sim.at])
      BY <2>2, NamedEdges DEF Edges
    <2> QED
      BY <2>1, <2>3, <2>4, FollowPaid
  <1>2. ASSUME NEW e \in Elements(Owned["schedule_branch"]), ScheduleBranch(e) PROVE Paid'
    <2>1. Running /\ TurnMade /\ Here.op = "schedule_branch" /\ UNCHANGED flow /\ attempt' = 0
      BY <1>2 DEF ScheduleBranch, Turn, TurnMade, Goto
    <2>2. flow[sim.at].type = "schedule_branch"
      BY <2>1, Standing
    <2>3. sim' = Follow(flow, sim, e)
      BY <1>2, <2>1, <2>2, Answered DEF ScheduleBranch, Simulated
    <2>4. e \in Edges(flow[sim.at])
      BY <2>2 DEF Edges
    <2> QED
      BY <2>1, <2>3, <2>4, FollowPaid
  <1>3. ASSUME NEW e \in Elements(Owned["external_call"]), ExternalCall(e) PROVE Paid'
    <2>1. Running /\ TurnMade /\ Here.op = "external_call" /\ UNCHANGED flow
      BY <1>3 DEF ExternalCall, Turn, TurnMade
    <2>2. flow[sim.at].type = "external_call"
      BY <2>1, Standing
    <2>3. outcome' = "cut_short" \/ (attempt' = 0 /\ Simulated(e))
      BY <1>3 DEF ExternalCall, Goto
    <2>4. CASE outcome' = "cut_short"
      BY <2>4 DEF Paid, Running
    <2>5. CASE attempt' = 0 /\ Simulated(e)
      <3>1. sim' = Follow(flow, sim, e)
        BY <2>1, <2>2, <2>5, Answered DEF Simulated
      <3>2. e \in Edges(flow[sim.at])
        BY <2>2 DEF Edges
      <3> QED
        BY <2>1, <2>5, <3>1, <3>2, FollowPaid
    <2> QED
      BY <2>3, <2>4, <2>5
  <1>4. CASE CutShort
    BY <1>4 DEF CutShort, Paid, Running
  <1>5. CASE EndCall
    BY <1>5 DEF EndCall, Paid, Running
  <1>6. ASSUME NEW end \in {"remote_hangup", "broken_off"}, Interrupted(end) PROVE Paid'
    BY <1>6 DEF Interrupted, Paid, Running
  <1>7. CASE UNCHANGED vars
    BY <1>7 DEF vars, Paid, Running, Used
  <1> QED
    BY <1>1, <1>2, <1>3, <1>4, <1>5, <1>6, <1>7, PublishPaid, ReturnPaid, CollectDigitPaid,
       RecordMessagePaid DEF Next

\* So the loop has turns left wherever a call stands.
LEMMA PaidIsEnough ==
    ASSUME PathInv, Paid, Running
    PROVE  transitions < MaximumTransitions
  <1>1. /\ Started /\ Sound(flow) /\ sim.at \in DOMAIN flow /\ sim.at \in Position
        /\ Len(sim.at) \in Nat
    BY Standing, SoundPositions
  <1> DEFINE l == Len(sim.at)
             u == Cardinality(Used)
             x == Cardinality(Limits(sim.at))
             D == MaximumDepth
  <1>2. PICK k \in Nat : 4 * k + 1 <= MaximumBlocks /\ u <= 3 * k
    BY <1>1, UsedCounted DEF Used
  <1>3. D * (3 * k + D) < MaximumTransitions
    <2>1. k \in 0 .. MaximumBlocks
      BY <1>2, FlowAssumption
    <2> QED
      BY <1>2, <2>1, TurnsAssumption
  <1>4. u \in Nat /\ x \in Nat /\ x <= l /\ l \in Nat
    BY <1>1, UsedNow, LimitsCounted
  <1>5. l < D /\ D \in Nat
    BY <1>1, FlowAssumption DEF Sound, WellDrawn
  <1>6. transitions <= D * (u + x) + l + 1 /\ transitions \in Nat
    <2>1. transitions <= D * (u + x) + l + (IF attempt = 0 THEN 0 ELSE 1) /\ transitions \in Nat
      BY DEF Paid, PathInv, Counted
    <2>2. D * (u + x) \in Nat
      BY <1>4, <1>5
    <2> HIDE DEF u, x, l, D
    <2> QED
      BY <1>4, <2>1, <2>2
  <1> HIDE DEF u, x, l, D
  <1>7. /\ D * (u + x) \in Nat /\ D * (3 * k + D) \in Nat
        /\ D * (u + x) + D <= D * (3 * k + D)
    <2>1. u + x \in Nat /\ 3 * k + D \in Nat /\ (u + x) + 1 <= 3 * k + D
      BY <1>2, <1>4, <1>5
    <2> QED
      BY <1>5, <2>1, Deeper
  <1> QED
    BY <1>3, <1>4, <1>5, <1>6, <1>7, RuntimeAssumption

-----------------------------------------------------------------------------
\* A finite set that is not empty has a greatest value of a function on it.
LEMMA Greatest ==
    ASSUME NEW X, IsFiniteSet(X), X # {}, NEW h, \A x \in X : h[x] \in Nat
    PROVE  \E m \in X : \A x \in X : h[x] <= h[m]
  <1> DEFINE Topped(Y) == Y = {} \/ \E m \in Y : \A x \in Y : h[x] <= h[m]
             B == {Y \in SUBSET X : ~Topped(Y)}
  <1>1. CASE B = {}
    BY <1>1
  <1>2. CASE B # {}
    <2>1. B \subseteq FiniteSubsetsOf(X)
      BY FS_Subset DEF FiniteSubsetsOf
    <2>2. PICK Y \in B : \A Z \in B : ~(<<Z, Y>> \in StrictSubsetOrdering(X))
      <3> HIDE DEF B
      <3> QED
        BY <1>2, <2>1, WFMin, FS_StrictSubsetOrderingWellFounded
    <2>3. Y \in SUBSET X /\ Y # {} /\ ~Topped(Y)
      BY <2>2
    <2>4. PICK y \in Y : TRUE
      BY <2>3
    <2> DEFINE Z == Y \ {y}
    <2>5. <<Z, Y>> \in StrictSubsetOrdering(X)
      BY <2>3, <2>4 DEF StrictSubsetOrdering
    <2>6. Topped(Z)
      BY <2>2, <2>3, <2>5
    <2>7. CASE Z = {}
      <3>1. \A x \in Y : x = y
        BY <2>7
      <3> QED
        BY <2>3, <2>4, <3>1
    <2>8. CASE Z # {}
      <3>1. PICK m \in Z : \A x \in Z : h[x] <= h[m]
        BY <2>6, <2>8
      <3>2. h[m] \in Nat /\ h[y] \in Nat /\ \A x \in Y : h[x] \in Nat
        BY <2>3
      <3>3. CASE h[m] <= h[y]
        <4>1. \A x \in Y : h[x] <= h[y]
          BY <3>1, <3>2, <3>3
        <4> QED
          BY <2>3, <4>1
      <3>4. CASE h[y] <= h[m]
        <4>1. \A x \in Y : h[x] <= h[m]
          BY <3>1, <3>2, <3>4
        <4> QED
          BY <2>3, <3>1, <4>1
      <3> QED
        BY <3>2, <3>3, <3>4
    <2> QED
      BY <2>7, <2>8
  <1> QED
    BY <1>1, <1>2

\* Max picks it.
LEMMA MaxOf ==
    ASSUME NEW X, IsFiniteSet(X), X # {}, NEW h, \A x \in X : h[x] \in Nat
    PROVE  LET S == {h[x] : x \in X} IN Max(S) \in Nat /\ \A x \in X : h[x] <= Max(S)
  <1> DEFINE S == {h[x] : x \in X}
  <1>1. PICK m \in X : \A x \in X : h[x] <= h[m]
    BY Greatest
  <1>2. h[m] \in S /\ \A y \in S : h[m] >= y
    BY <1>1
  <1>3. Max(S) \in S /\ \A y \in S : Max(S) >= y
    BY <1>2 DEF Max
  <1>4. Max(S) \in Nat
    BY <1>3
  <1>5. \A x \in X : h[x] \in S
    OBVIOUS
  <1> HIDE DEF S
  <1>6. \A x \in X : h[x] <= Max(S)
    BY <1>3, <1>4, <1>5
  <1> QED
    BY <1>4, <1>6 DEF S

\* The greater of two numbers.
LEMMA MaxOfTwo ==
    ASSUME NEW x \in Nat, NEW y \in Nat
    PROVE  Max({x, y}) \in Nat /\ x <= Max({x, y}) /\ y <= Max({x, y})
  <1>1. \E z \in {x, y} : \A w \in {x, y} : z >= w
    <2>1. CASE x >= y
      BY <2>1
    <2>2. CASE y >= x
      BY <2>2
    <2> QED
      BY <2>1, <2>2
  <1>2. Max({x, y}) \in {x, y} /\ \A w \in {x, y} : Max({x, y}) >= w
    BY <1>1 DEF Max
  <1> QED
    BY <1>2

-----------------------------------------------------------------------------
Counts(tape) == [MenusOf(tape) -> 0 .. 3]
AllStates(tape) == (DOMAIN tape) \X Counts(tape)

\* A tape is finite, and so is what maximum_cost may have met.
LEMMA TapeIsFinite ==
    ASSUME NEW d, Sound(d)
    PROVE  /\ IsFiniteSet(DOMAIN Tape(d)) /\ 0 \in DOMAIN Tape(d)
           /\ Cardinality(DOMAIN Tape(d)) = Cardinality(DOMAIN d)
           /\ IsFiniteSet(AllStates(Tape(d)))
  <1> DEFINE N == Cardinality(DOMAIN d)
             t == Tape(d)
             M == MenusOf(t)
             C == Counts(t)
  <1>1. N \in Nat
    BY FS_CardinalityType DEF Sound, IsDraft
  <1>2. DOMAIN t = 0 .. N - 1
    BY DEF Tape
  <1>3. IsFiniteSet(DOMAIN t) /\ Cardinality(DOMAIN t) = N
    <2>1. N - 1 \in Int
      BY <1>1
    <2>2. /\ IsFiniteSet(0 .. N - 1)
          /\ Cardinality(0 .. N - 1) = IF 0 > N - 1 THEN 0 ELSE (N - 1) - 0 + 1
      BY <2>1, FS_Interval
    <2> HIDE DEF N, t
    <2> QED
      BY <1>1, <1>2, <2>2
  <1>4. 0 \in DOMAIN t
    BY PcOfRoot, TapeOfBlock
  <1>5. IsFiniteSet(M)
    <2>1. M \in SUBSET DOMAIN t
      BY DEF MenusOf
    <2> QED
      BY <1>3, <2>1, FS_Subset
  <1>6. IsFiniteSet(C)
    <2> DEFINE G == SUBSET (M \X (0 .. 3))
               g == [f \in C |-> {<<m, f[m]>> : m \in M}]
    <2>1. IsFiniteSet(G)
      <3>1. IsFiniteSet(0 .. 3)
        <4>1. PICK a \in Int, b \in Int : a = 0 /\ b = 3
          OBVIOUS
        <4>2. IsFiniteSet(a .. b)
          BY FS_Interval
        <4> QED
          BY <4>1, <4>2
      <3>2. IsFiniteSet(M \X (0 .. 3))
        <4> HIDE DEF M
        <4> QED
          BY <1>5, <3>1, FS_Product
      <3> QED
        BY <3>2, FS_SUBSET
    <2>2. g \in [C -> G]
      BY DEF Counts
    <2>3. ASSUME NEW e \in C, NEW f \in C, g[e] = g[f] PROVE e = f
      <3>1. \A m \in M : <<m, e[m]>> \in {<<n, f[n]>> : n \in M}
        BY <2>3
      <3>2. \A m \in M : e[m] = f[m]
        BY <3>1
      <3> QED
        BY <3>2 DEF Counts
    <2>4. g \in Injection(C, G)
      BY <2>2, <2>3 DEF Injection, IsInjective
    <2> HIDE DEF g, G, C
    <2> QED
      BY <2>1, <2>4, FS_Injection
  <1>7. IsFiniteSet((DOMAIN t) \X C)
    <2>1. PICK D : D = DOMAIN t
      OBVIOUS
    <2>2. PICK E : E = C
      OBVIOUS
    <2>3. IsFiniteSet(D) /\ IsFiniteSet(E)
      BY <1>3, <1>6, <2>1, <2>2
    <2>4. IsFiniteSet(D \X E)
      BY <2>3, FS_Product
    <2> QED
      BY <2>1, <2>2, <2>4
  <1> QED
    BY <1>3, <1>4, <1>7 DEF AllStates

\* Every way out of an instruction leads to an address of the tape.
LEMMA WaysOnTape ==
    ASSUME NEW d, Sound(d), NEW n \in DOMAIN Tape(d)
    PROVE  LET i == Tape(d)[n] IN
           /\ i.op \in DOMAIN Owned /\ i.attempts \in 1 .. 3 /\ i.returns \in 1 .. 3
           /\ DOMAIN i.to = Elements(Owned[i.op])
           /\ \A e \in DOMAIN i.to : i.to[e] \in DOMAIN Tape(d)
           /\ \A k \in DOMAIN i.branches : i.branches[k] \in DOMAIN Tape(d)
           /\ i.op # "collect_digit" => Elements(i.branches) = {}
           /\ i.op = "return_to_menu" => i.menu \in MenusOf(Tape(d))
  <1>1. PICK p \in DOMAIN d : Pc(d, p) = n /\ Tape(d)[n] = Instruction(d, p)
    BY AddressOfBlock
  <1> DEFINE i == Instruction(d, p)
             b == d[p]
  <1>2. IsBlock(b) /\ BlockComplete(b)
    BY <1>1, SoundPositions
  <1>3. i.op = b.type /\ i.op \in DOMAIN Owned /\ i.attempts \in 1 .. 3 /\ i.returns \in 1 .. 3
        /\ DOMAIN i.to = Elements(Owned[i.op]) /\ DOMAIN i.branches = Elements(b.keys)
    BY <1>2, InstructionFields DEF IsBlock
  <1>4. ASSUME NEW e \in DOMAIN i.to PROVE i.to[e] \in DOMAIN Tape(d)
    <2>1. e \in Edges(b) /\ i.to[e] = Pc(d, Append(p, e))
      BY <1>3, InstructionFields DEF Edges
    <2>2. Append(p, e) \in DOMAIN d
      BY <1>1, <2>1, BehindEdge
    <2> QED
      BY <2>1, <2>2, TapeOfBlock
  <1>5. ASSUME NEW k \in DOMAIN i.branches PROVE i.branches[k] \in DOMAIN Tape(d)
    <2>1. PICK e \in DOMAIN b.keys : b.keys[e] = k
      BY <1>3 DEF Elements
    <2>2. b.type = "collect_digit"
      BY <1>2, <2>1 DEF IsBlock
    <2>3. i.branches[k] = Pc(d, Append(p, e))
      BY <1>1, <2>1, <2>2, BranchOfKey
    <2>4. Append(p, e) \in DOMAIN d
      BY <1>1, <2>1, BehindEdge DEF Edges
    <2> QED
      BY <2>3, <2>4, TapeOfBlock
  <1>6. i.op # "collect_digit" => Elements(i.branches) = {}
    <2> SUFFICES ASSUME i.op # "collect_digit" PROVE DOMAIN i.branches = {}
      BY DEF Elements
    <2>1. DOMAIN b.keys = {}
      BY <1>2, <1>3 DEF IsBlock
    <2> QED
      BY <1>3, <2>1 DEF Elements
  <1>7. i.op = "return_to_menu" => i.menu \in MenusOf(Tape(d))
    <2> SUFFICES ASSUME i.op = "return_to_menu" PROVE i.menu \in MenusOf(Tape(d))
      OBVIOUS
    <2> DEFINE m == OwnerMenu(d, p)
    <2>1. p \in Typed(d, {"return_to_menu"})
      BY <1>1, <1>3 DEF Typed
    <2>2. m \in DOMAIN d /\ d[m].type = "collect_digit"
      BY <2>1, LimitsAbove
    <2>3. i.menu = Pc(d, m)
      BY <1>3, InstructionFields
    <2> QED
      BY <2>2, <2>3, TapeOfBlock, InstructionFields DEF MenusOf
  <1> QED
    BY <1>1, <1>3, <1>4, <1>5, <1>6, <1>7

-----------------------------------------------------------------------------
\* maximum_cost reads the cost of the states one step below.
Step(s, n, r) == [pc |-> n, returns |-> r, active |-> s.active \cup {<<s.pc, s.returns>>}]
Below(tape, s) == {t \in CostStates(tape) : t.active = s.active \cup {<<s.pc, s.returns>>}}
Longest(f, s, ways) == Max({f[Step(s, n, s.returns)] : n \in ways})
MenuWays(i) == Elements(i.branches) \cup {i.to["on_timeout"], i.to["on_invalid"]}
Ways(i) == IF i.op = "collect_digit" THEN MenuWays(i) ELSE Targets(i)
Again(i, s) == [s.returns EXCEPT ![i.menu] = @ + 1]
Branching == {"play_prompt", "collect_digit", "schedule_branch", "external_call"}

\* What an instruction costs by itself.
Outlay(i) ==
    CASE i.op = "play_prompt" -> PromptMs(i)
      [] i.op = "collect_digit" -> MenuMs(i)
      [] i.op = "schedule_branch" -> 0
      [] i.op = "external_call" -> WatchdogMs + AnswerMs

\* The state after a step is one of them.
LEMMA StepIsBelow ==
    ASSUME NEW tape, NEW s \in CostStates(tape), NEW n \in DOMAIN tape, NEW r \in Counts(tape)
    PROVE  Step(s, n, r) \in Below(tape, s)
  <1> DEFINE P == DOMAIN tape
             C == Counts(tape)
             All == P \X C
             here == <<s.pc, s.returns>>
  <1>1. s \in [pc : P, returns : C, active : SUBSET All]
    BY DEF CostStates, Counts
  <1>2. here \in All /\ s.active \in SUBSET All
    BY <1>1
  <1>3. s.active \cup {here} \in SUBSET All
    BY <1>2
  <1>4. Step(s, n, r) \in [pc : P, returns : C, active : SUBSET All]
    <2> HIDE DEF All, P, C, here
    <2>1. n \in P /\ r \in C
      BY DEF P, C
    <2> QED
      BY <1>3, <2>1 DEF Step, here
  <1> QED
    BY <1>4 DEF Below, CostStates, Counts, Step

\* maximum_cost by the kind of instruction.
LEMMA CostCases ==
    ASSUME NEW tape, NEW f, NEW s, <<s.pc, s.returns>> \notin s.active
    PROVE  LET i == tape[s.pc]
               cost == CostHere(tape, f, s) IN
           /\ i.op = "end_call" => cost = 0
           /\ i.op \in {"play_prompt", "collect_digit", "external_call"}
                => cost = Outlay(i) + Longest(f, s, Ways(i))
           /\ i.op = "schedule_branch" => cost = Longest(f, s, Ways(i))
           /\ i.op = "record_message" =>
                cost = BeepMs + Max({RecordMs + f[Step(s, i.to["next"], s.returns)],
                                     f[Step(s, i.to["on_unavailable"], s.returns)]})
           /\ i.op = "return_to_menu" =>
                cost = IF s.returns[i.menu] < tape[i.menu].returns THEN f[Step(s, i.menu, Again(i, s))]
                       ELSE f[Step(s, tape[i.menu].to["on_return_limit"], s.returns)]
  <1> DEFINE i == tape[s.pc]
  <1>1. CASE i.op = "end_call"
    BY <1>1 DEF CostHere
  <1>2. CASE i.op = "play_prompt"
    BY <1>2 DEF CostHere, Outlay, Longest, Ways, Step
  <1>3. CASE i.op = "collect_digit"
    BY <1>3 DEF CostHere, Outlay, Longest, Ways, MenuWays, Step
  <1>4. CASE i.op = "schedule_branch"
    BY <1>4 DEF CostHere, Longest, Ways, Step
  <1>5. CASE i.op = "external_call"
    BY <1>5 DEF CostHere, Outlay, Longest, Ways, Step
  <1>6. CASE i.op = "record_message"
    BY <1>6 DEF CostHere, Step
  <1>7. CASE i.op = "return_to_menu"
    BY <1>7 DEF CostHere, Step, Again
  <1> QED
    BY <1>1, <1>2, <1>3, <1>4, <1>5, <1>6, <1>7

\* An instruction that goes on has somewhere to go.
LEMMA WaysOut ==
    ASSUME NEW d, Sound(d), NEW n \in DOMAIN Tape(d), Tape(d)[n].op \in Branching
    PROVE  LET i == Tape(d)[n] IN
           Ways(i) \subseteq DOMAIN Tape(d) /\ IsFiniteSet(Ways(i)) /\ Ways(i) # {} /\ Outlay(i) \in Nat
  <1> DEFINE i == Tape(d)[n]
  <1>1. /\ i.op \in DOMAIN Owned /\ i.attempts \in 1 .. 3
        /\ DOMAIN i.to = Elements(Owned[i.op])
        /\ \A e \in DOMAIN i.to : i.to[e] \in DOMAIN Tape(d)
        /\ \A k \in DOMAIN i.branches : i.branches[k] \in DOMAIN Tape(d)
    BY WaysOnTape
  <1>2. CASE i.op = "collect_digit"
    <2>1. "on_timeout" \in DOMAIN i.to /\ "on_invalid" \in DOMAIN i.to
      BY <1>1, <1>2, NamedEdges
    <2>2. Ways(i) \subseteq DOMAIN Tape(d) /\ Ways(i) # {}
      BY <1>1, <1>2, <2>1 DEF Ways, MenuWays, Elements
    <2>3. Outlay(i) \in Nat
      BY <1>1, <1>2, TimeIsCounted DEF Outlay, MenuMs
    <2> QED
      BY <2>2, <2>3, TapeIsFinite, FS_Subset
  <1>3. CASE i.op # "collect_digit"
    <2>1. PICK e \in DOMAIN i.to : TRUE
      <3>1. \E e \in Elements(Owned[i.op]) : TRUE
        BY <1>3, NamedEdges DEF Branching
      <3> QED
        BY <1>1, <3>1
    <2>2. Ways(i) = Elements(i.branches) \cup Elements(i.to)
      BY <1>3 DEF Ways, Targets
    <2>3. i.to[e] \in Elements(i.to)
      BY <2>1 DEF Elements
    <2>4. Elements(i.branches) \subseteq DOMAIN Tape(d) /\ Elements(i.to) \subseteq DOMAIN Tape(d)
      BY <1>1 DEF Elements
    <2>5. Ways(i) \subseteq DOMAIN Tape(d) /\ Ways(i) # {}
      BY <2>2, <2>3, <2>4
    <2>6. Outlay(i) \in Nat
      BY <1>3, TimeIsCounted DEF Outlay, Branching
    <2> QED
      BY <2>5, <2>6, TapeIsFinite, FS_Subset
  <1> QED
    BY <1>2, <1>3

\* The longest way is as long as one of the ways.
LEMMA LongestOf ==
    ASSUME NEW f, NEW s, NEW W, IsFiniteSet(W), W # {},
           \A n \in W : f[Step(s, n, s.returns)] \in Nat
    PROVE  /\ Longest(f, s, W) \in Nat
           /\ \A n \in W : f[Step(s, n, s.returns)] <= Longest(f, s, W)
           /\ \A g : (\A n \in W : g[Step(s, n, s.returns)] = f[Step(s, n, s.returns)])
                        => Longest(g, s, W) = Longest(f, s, W)
  <1> DEFINE h == [n \in W |-> f[Step(s, n, s.returns)]]
  <1>1. \A n \in W : h[n] \in Nat
    OBVIOUS
  <1>2. LET S == {h[n] : n \in W} IN Max(S) \in Nat /\ \A n \in W : h[n] <= Max(S)
    <2> HIDE DEF h
    <2> QED
      BY <1>1, MaxOf
  <1>3. {h[n] : n \in W} = {f[Step(s, n, s.returns)] : n \in W}
    OBVIOUS
  <1>4. Longest(f, s, W) = Max({h[n] : n \in W})
    BY <1>3 DEF Longest
  <1>5. ASSUME NEW g, \A n \in W : g[Step(s, n, s.returns)] = f[Step(s, n, s.returns)]
        PROVE  Longest(g, s, W) = Longest(f, s, W)
    <2>1. {g[Step(s, n, s.returns)] : n \in W} = {f[Step(s, n, s.returns)] : n \in W}
      BY <1>5
    <2> QED
      BY <2>1 DEF Longest
  <1> QED
    BY <1>2, <1>4, <1>5

\* Return to menu: both ways lead to a state below.
LEMMA ReturnWays ==
    ASSUME NEW d, Sound(d), NEW s \in CostStates(Tape(d)), Tape(d)[s.pc].op = "return_to_menu"
    PROVE  LET tape == Tape(d)
               i == tape[s.pc] IN
           /\ i.menu \in MenusOf(tape) /\ s.returns[i.menu] \in 0 .. 3 /\ tape[i.menu].returns \in 1 .. 3
           /\ s.returns[i.menu] < tape[i.menu].returns => Step(s, i.menu, Again(i, s)) \in Below(tape, s)
           /\ Step(s, tape[i.menu].to["on_return_limit"], s.returns) \in Below(tape, s)
  <1> DEFINE tape == Tape(d)
             i == tape[s.pc]
  <1>1. s.pc \in DOMAIN tape /\ s.returns \in Counts(tape)
    BY DEF CostStates, Counts
  <1>2. i.menu \in MenusOf(tape)
    BY <1>1, WaysOnTape
  <1>3. i.menu \in DOMAIN tape /\ tape[i.menu].op = "collect_digit"
    BY <1>2 DEF MenusOf
  <1>4. s.returns[i.menu] \in 0 .. 3
    BY <1>1, <1>2 DEF Counts
  <1>5. tape[i.menu].returns \in 1 .. 3 /\ tape[i.menu].to["on_return_limit"] \in DOMAIN tape
    BY <1>3, WaysOnTape, NamedEdges
  <1>6. ASSUME s.returns[i.menu] < tape[i.menu].returns PROVE Again(i, s) \in Counts(tape)
    <2>1. s.returns[i.menu] + 1 \in 0 .. 3
      BY <1>4, <1>5, <1>6
    <2>2. s.returns \in [MenusOf(tape) -> 0 .. 3]
      BY <1>1 DEF Counts
    <2>3. [s.returns EXCEPT ![i.menu] = s.returns[i.menu] + 1] \in [MenusOf(tape) -> 0 .. 3]
      BY <2>1, <2>2
    <2> QED
      BY <2>3 DEF Again, Counts
  <1> QED
    BY <1>1, <1>2, <1>3, <1>4, <1>5, <1>6, StepIsBelow

\* The cost of a state is a number when the costs below are, and depends on
\* nothing else.
LEMMA CostStep ==
    ASSUME NEW d, Sound(d), NEW s \in CostStates(Tape(d)), NEW f,
           <<s.pc, s.returns>> \notin s.active => \A t \in Below(Tape(d), s) : f[t] \in Nat
    PROVE  /\ CostHere(Tape(d), f, s) \in Nat
           /\ \A g : (<<s.pc, s.returns>> \notin s.active => \A t \in Below(Tape(d), s) : g[t] = f[t])
                        => CostHere(Tape(d), g, s) = CostHere(Tape(d), f, s)
  <1> DEFINE tape == Tape(d)
             i == tape[s.pc]
             here == <<s.pc, s.returns>>
  <1>1. CASE here \in s.active
    <2>1. \A g : CostHere(tape, g, s) = Unbounded
      BY <1>1 DEF CostHere
    <2>2. Unbounded \in Nat
      BY TimeIsCounted DEF Unbounded
    <2> QED
      BY <2>1, <2>2
  <1>2. CASE here \notin s.active
    <2>1. s.pc \in DOMAIN tape /\ s.returns \in Counts(tape) /\ i.op \in DOMAIN Owned
      BY WaysOnTape DEF CostStates, Counts
    <2>2. \A n \in DOMAIN tape : Step(s, n, s.returns) \in Below(tape, s)
      BY <2>1, StepIsBelow
    <2>3. \A t \in Below(tape, s) : f[t] \in Nat
      BY <1>2
    <2>4. SUFFICES ASSUME NEW g, \A t \in Below(tape, s) : g[t] = f[t]
                   PROVE  CostHere(tape, f, s) \in Nat /\ CostHere(tape, g, s) = CostHere(tape, f, s)
      <3>1. \A t \in Below(tape, s) : f[t] = f[t]
        OBVIOUS
      <3> QED
        BY <1>2, <2>4, <3>1
    <2>5. CASE i.op = "end_call"
      <3>1. CostHere(tape, f, s) = 0
        BY <1>2, <2>5, CostCases
      <3>2. CostHere(tape, g, s) = 0
        BY <1>2, <2>5, CostCases
      <3> QED
        BY <3>1, <3>2
    <2>6. CASE i.op \in Branching
      <3>1. Ways(i) \subseteq DOMAIN tape /\ IsFiniteSet(Ways(i)) /\ Ways(i) # {} /\ Outlay(i) \in Nat
        BY <2>1, <2>6, WaysOut
      <3>2. \A n \in Ways(i) : /\ f[Step(s, n, s.returns)] \in Nat
                               /\ g[Step(s, n, s.returns)] = f[Step(s, n, s.returns)]
        BY <2>2, <2>3, <2>4, <3>1
      <3>3. Longest(f, s, Ways(i)) \in Nat /\ Longest(g, s, Ways(i)) = Longest(f, s, Ways(i))
        BY <3>1, <3>2, LongestOf
      <3>4. CASE i.op = "schedule_branch"
        <4>1. CostHere(tape, f, s) = Longest(f, s, Ways(i))
          BY <1>2, <3>4, CostCases
        <4>2. CostHere(tape, g, s) = Longest(g, s, Ways(i))
          BY <1>2, <3>4, CostCases
        <4> QED
          BY <3>3, <4>1, <4>2
      <3>5. CASE i.op # "schedule_branch"
        <4>1. CostHere(tape, f, s) = Outlay(i) + Longest(f, s, Ways(i))
          BY <1>2, <2>6, <3>5, CostCases DEF Branching
        <4>2. CostHere(tape, g, s) = Outlay(i) + Longest(g, s, Ways(i))
          BY <1>2, <2>6, <3>5, CostCases DEF Branching
        <4>3. Outlay(i) + Longest(f, s, Ways(i)) \in Nat
          BY <3>1, <3>3
        <4> QED
          BY <3>3, <4>1, <4>2, <4>3
      <3> QED
        BY <3>4, <3>5
    <2>7. CASE i.op = "record_message"
      <3> DEFINE x == Step(s, i.to["next"], s.returns)
                 y == Step(s, i.to["on_unavailable"], s.returns)
      <3>1. i.to["next"] \in DOMAIN tape /\ i.to["on_unavailable"] \in DOMAIN tape
        BY <2>1, <2>7, WaysOnTape, NamedEdges
      <3>2. f[x] \in Nat /\ f[y] \in Nat /\ g[x] = f[x] /\ g[y] = f[y]
        BY <2>2, <2>3, <2>4, <3>1
      <3>3. CostHere(tape, f, s) = BeepMs + Max({RecordMs + f[x], f[y]})
            /\ CostHere(tape, g, s) = BeepMs + Max({RecordMs + g[x], g[y]})
        BY <1>2, <2>7, CostCases
      <3> HIDE DEF x, y
      <3>4. Max({RecordMs + f[x], f[y]}) \in Nat
        <4>1. RecordMs + f[x] \in Nat
          BY <3>2, TimeIsCounted
        <4> QED
          BY <3>2, <4>1, MaxOfTwo
      <3>5. CostHere(tape, f, s) \in Nat
        BY <3>3, <3>4, TimeIsCounted
      <3> QED
        BY <3>2, <3>3, <3>5
    <2>8. CASE i.op = "return_to_menu"
      <3>1. /\ s.returns[i.menu] < tape[i.menu].returns => Step(s, i.menu, Again(i, s)) \in Below(tape, s)
            /\ Step(s, tape[i.menu].to["on_return_limit"], s.returns) \in Below(tape, s)
        BY <2>8, ReturnWays
      <3> DEFINE x == Step(s, i.menu, Again(i, s))
                 y == Step(s, tape[i.menu].to["on_return_limit"], s.returns)
                 allowed == s.returns[i.menu] < tape[i.menu].returns
      <3>2. CostHere(tape, f, s) = IF allowed THEN f[x] ELSE f[y]
        BY <1>2, <2>8, CostCases
      <3>3. CostHere(tape, g, s) = IF allowed THEN g[x] ELSE g[y]
        BY <1>2, <2>8, CostCases
      <3>4. /\ allowed => f[x] \in Nat /\ g[x] = f[x]
            /\ f[y] \in Nat /\ g[y] = f[y]
        BY <2>3, <2>4, <3>1
      <3> HIDE DEF x, y, allowed
      <3> QED
        BY <3>2, <3>3, <3>4
    <2> QED
      BY <2>1, <2>5, <2>6, <2>7, <2>8, OwnedEdges DEF Branching
  <1> QED
    BY <1>1, <1>2

\* How many states are left to be met below one; fewer with every step.
Left(tape, s) == Cardinality(AllStates(tape) \ s.active)

\* There is less left to meet after a step.
LEMMA LeftShrinks ==
    ASSUME NEW d, Sound(d), NEW s \in CostStates(Tape(d))
    PROVE  /\ Left(Tape(d), s) \in Nat /\ Left(Tape(d), s) <= Cardinality(AllStates(Tape(d)))
           /\ <<s.pc, s.returns>> \notin s.active
                => \A t \in Below(Tape(d), s) : Left(Tape(d), t) < Left(Tape(d), s)
  <1> DEFINE tape == Tape(d)
             A == AllStates(tape)
             here == <<s.pc, s.returns>>
  <1>1. IsFiniteSet(A)
    BY TapeIsFinite
  <1>2. A \ s.active \in SUBSET A
    OBVIOUS
  <1>3. IsFiniteSet(A \ s.active) /\ Cardinality(A \ s.active) <= Cardinality(A)
    <2> HIDE DEF A
    <2> QED
      BY <1>1, <1>2, FS_Subset
  <1>4. Left(tape, s) \in Nat /\ Left(tape, s) <= Cardinality(A)
    BY <1>3, FS_CardinalityType DEF Left
  <1>5. ASSUME here \notin s.active, NEW t \in Below(tape, s) PROVE Left(tape, t) < Left(tape, s)
    <2>1. here \in A
      BY DEF CostStates, AllStates, Counts
    <2>2. A \ t.active = (A \ s.active) \ {here}
      BY <1>5 DEF Below
    <2>3. here \in A \ s.active
      BY <1>5, <2>1
    <2>4. Cardinality((A \ s.active) \ {here}) = Cardinality(A \ s.active) - 1
      <3>1. PICK B : B = A \ s.active
        OBVIOUS
      <3>2. IsFiniteSet(B) /\ here \in B
        BY <1>3, <2>3, <3>1
      <3>3. Cardinality(B \ {here}) = Cardinality(B) - 1
        BY <3>2, FS_RemoveElement
      <3> QED
        BY <3>1, <3>3
    <2> QED
      BY <1>4, <2>2, <2>4 DEF Left
  <1> QED
    BY <1>4, <1>5

\* So there is such a function, and its values are numbers.
Costs(tape) == CHOOSE f : f = [s \in CostStates(tape) |-> CostHere(tape, f, s)]
Entry(tape) == [pc |-> 0, returns |-> [m \in MenusOf(tape) |-> 0], active |-> {}]

\* The recursion of maximum_cost ends: the function exists...
LEMMA CostIsDefined ==
    ASSUME NEW d, Sound(d)
    PROVE  \E f : f = [s \in CostStates(Tape(d)) |-> CostHere(Tape(d), f, s)]
  <1> DEFINE tape == Tape(d)
             S == CostStates(tape)
             T(n) == {s \in S : Left(tape, s) < n}
             Good(n) == \E f : f \in [T(n) -> Nat] /\ \A s \in T(n) : f[s] = CostHere(tape, f, s)
             Bad == {n \in Nat : ~Good(n)}
  <1>1. ASSUME Bad # {} PROVE FALSE
    <2>1. PICK n \in Bad : \A k \in Bad : n <= k
      <3>1. Bad \in SUBSET Nat
        OBVIOUS
      <3> HIDE DEF Bad
      <3> QED
        BY <1>1, <3>1, Least
    <2>2. n # 0
      <3>1. \A s \in S : Left(tape, s) \in Nat
        BY LeftShrinks
      <3>2. T(0) = {}
        BY <3>1
      <3>3. [s \in T(0) |-> 0] \in [T(0) -> Nat]
        OBVIOUS
      <3>4. Good(0)
        BY <3>2, <3>3
      <3> QED
        BY <2>1, <3>4
    <2>3. n - 1 \in Nat /\ Good(n - 1)
      <3>1. n \in Nat /\ n - 1 \in Nat
        BY <2>1, <2>2
      <3>2. n - 1 \notin Bad
        BY <2>1, <3>1
      <3> QED
        BY <3>1, <3>2
    <2> DEFINE U == T(n - 1)
    <2>4. PICK f : f \in [U -> Nat] /\ \A s \in U : f[s] = CostHere(tape, f, s)
      BY <2>3
    <2> DEFINE g == [s \in T(n) |-> IF s \in U THEN f[s] ELSE CostHere(tape, f, s)]
    <2>5. U \subseteq T(n)
      <3>1. \A s \in S : Left(tape, s) \in Nat
        BY LeftShrinks
      <3> QED
        BY <2>1, <2>3, <3>1
    <2>6. ASSUME NEW s \in T(n)
          PROVE  CostHere(tape, f, s) \in Nat /\ CostHere(tape, g, s) = CostHere(tape, f, s)
      <3>1. s \in S /\ Left(tape, s) < n /\ Left(tape, s) \in Nat /\ n \in Nat
        BY <2>1, LeftShrinks
      <3>2. ASSUME <<s.pc, s.returns>> \notin s.active, NEW t \in Below(tape, s)
            PROVE  f[t] \in Nat /\ g[t] = f[t]
        <4>1. t \in S /\ Left(tape, t) < Left(tape, s) /\ Left(tape, t) \in Nat
          BY <3>1, <3>2, LeftShrinks DEF Below
        <4>2. t \in U
          BY <3>1, <4>1
        <4> HIDE DEF U
        <4>3. t \in T(n)
          BY <2>5, <4>2
        <4> QED
          BY <2>4, <4>2, <4>3
      <3> HIDE DEF g
      <3> QED
        BY <3>1, <3>2, CostStep
    <2>7. g \in [T(n) -> Nat]
      <3> HIDE DEF U, T
      <3> QED
        BY <2>4, <2>6
    <2>8. \A s \in T(n) : g[s] = CostHere(tape, g, s)
      <3> SUFFICES ASSUME NEW s \in T(n) PROVE g[s] = CostHere(tape, g, s)
        OBVIOUS
      <3>1. g[s] = CostHere(tape, f, s)
        <4> HIDE DEF U, T
        <4> QED
          BY <2>4
      <3> HIDE DEF g
      <3> QED
        BY <2>6, <3>1
    <2> QED
      <3> HIDE DEF g, T
      <3> QED
        BY <2>1, <2>7, <2>8
  <1> DEFINE N == Cardinality(AllStates(tape))
  <1>2. N \in Nat /\ N + 1 \in Nat
    BY TapeIsFinite, FS_CardinalityType
  <1>3. Good(N + 1)
    <2> HIDE DEF Good
    <2> QED
      BY <1>1, <1>2
  <1>4. T(N + 1) = S
    <2>1. \A s \in S : Left(tape, s) \in Nat /\ Left(tape, s) <= N
      BY LeftShrinks
    <2> HIDE DEF N
    <2> QED
      BY <1>2, <2>1
  <1>5. PICK f : f \in [S -> Nat] /\ \A s \in S : f[s] = CostHere(tape, f, s)
    <2> HIDE DEF T, N, S
    <2> QED
      BY <1>3, <1>4
  <1>6. f = [s \in S |-> CostHere(tape, f, s)]
    <2> HIDE DEF S
    <2> QED
      BY <1>5
  <1> QED
    BY <1>6

\* ...and gives a number of milliseconds everywhere.
LEMMA CostsAreNumbers ==
    ASSUME NEW d, Sound(d)
    PROVE  /\ \A s \in CostStates(Tape(d)) :
                Costs(Tape(d))[s] = CostHere(Tape(d), Costs(Tape(d)), s) /\ Costs(Tape(d))[s] \in Nat
           /\ Entry(Tape(d)) \in CostStates(Tape(d))
           /\ MaximumCost(Tape(d)) = Costs(Tape(d))[Entry(Tape(d))]
  <1> DEFINE tape == Tape(d)
             S == CostStates(tape)
             c == Costs(tape)
  <1>1. c = [s \in S |-> CostHere(tape, c, s)]
    BY CostIsDefined DEF Costs
  <1>2. \A s \in S : c[s] = CostHere(tape, c, s)
    <2>1. PICK k : k = c
      OBVIOUS
    <2>2. k = [s \in S |-> CostHere(tape, k, s)]
      BY <1>1, <2>1
    <2>3. \A s \in S : k[s] = CostHere(tape, k, s)
      <3> HIDE DEF S
      <3> QED
        BY <2>2
    <2> QED
      BY <2>1, <2>3
  <1> DEFINE L == {Left(tape, s) : s \in {t \in S : c[t] \notin Nat}}
  <1>3. ASSUME L # {} PROVE FALSE
    <2>1. L \in SUBSET Nat
      BY LeftShrinks
    <2>2. PICK n \in L : \A k \in L : n <= k
      <3> HIDE DEF L
      <3> QED
        BY <1>3, <2>1, Least
    <2>3. PICK s \in S : c[s] \notin Nat /\ n = Left(tape, s)
      BY <2>2
    <2>4. <<s.pc, s.returns>> \notin s.active => \A t \in Below(tape, s) : c[t] \in Nat
      <3> SUFFICES ASSUME <<s.pc, s.returns>> \notin s.active, NEW t \in Below(tape, s), c[t] \notin Nat
                   PROVE  FALSE
        OBVIOUS
      <3>1. t \in S /\ Left(tape, t) < Left(tape, s)
        BY LeftShrinks DEF Below
      <3>2. Left(tape, t) \in L
        BY <3>1
      <3>3. Left(tape, t) \in Nat /\ Left(tape, s) \in Nat
        BY <3>1, LeftShrinks
      <3> HIDE DEF L
      <3>4. n <= Left(tape, t)
        BY <2>2, <3>2
      <3> QED
        BY <2>3, <3>1, <3>3, <3>4
    <2>5. CostHere(tape, c, s) \in Nat
      <3> HIDE DEF c
      <3> QED
        BY <2>4, CostStep
    <2> QED
      BY <1>2, <2>3, <2>5
  <1>4. \A s \in S : c[s] \in Nat
    BY <1>3
  <1>5. Entry(tape) \in S
    <2>1. 0 \in DOMAIN tape
      BY TapeIsFinite
    <2> DEFINE z == [m \in MenusOf(tape) |-> 0]
    <2>2. z \in [MenusOf(tape) -> 0 .. 3]
      OBVIOUS
    <2>3. [pc |-> 0, returns |-> z, active |-> {}] \in S
      <3> HIDE DEF z
      <3> QED
        BY <2>1, <2>2 DEF CostStates
    <2> QED
      BY <2>3 DEF Entry
  <1>6. MaximumCost(tape) = Costs(tape)[Entry(tape)]
    BY DEF MaximumCost, Costs, Entry
  <1> QED
    BY <1>2, <1>4, <1>5, <1>6

-----------------------------------------------------------------------------
\* The state that maximum_cost has for the call, above which it met A.
Met(A) == [pc |-> pc, returns |-> returns, active |-> A]
Cost(s) == Costs(Tape(flow))[s]
AttemptCost == PromptMs(Here) + TimeoutMs

\* The bound, and what has been spent besides.
Granted == program.budget + overtime

\* What the session has spent and may still spend is within the bound; the
\* attempts at the menu it is at have been spent already.
Ahead ==
    \E A \in SUBSET AllStates(Tape(flow)) :
        /\ <<pc, returns>> \notin A /\ Cost(Met(A)) <= MaximumSessionMs
        /\ elapsed + Cost(Met(A)) <= Granted + attempt * AttemptCost

Within ==
    Started /\ program.version >= 3 =>
        /\ program.budget = MaximumCost(Tape(flow)) /\ program.budget <= MaximumSessionMs
        /\ elapsed <= Granted
        /\ Running => Ahead

\* The budget is a number.
LEMMA BudgetIsNumber ==
    ASSUME NEW d, Sound(d)
    PROVE  MaximumCost(Tape(d)) \in Nat
  BY CostsAreNumbers

\* The state of the call is one that maximum_cost has met.
LEMMA MetIsState ==
    ASSUME PathInv, Running, NEW A \in SUBSET AllStates(Tape(flow))
    PROVE  /\ Met(A) \in CostStates(Tape(flow)) /\ returns \in Counts(Tape(flow))
           /\ Met(A).pc = pc /\ Met(A).returns = returns /\ Met(A).active = A
           /\ Cost(Met(A)) = CostHere(Tape(flow), Costs(Tape(flow)), Met(A))
           /\ Cost(Met(A)) \in Nat
  <1>1. Started /\ Sound(flow) /\ program.tape = Tape(flow) /\ pc \in DOMAIN Tape(flow)
    BY Standing
  <1>2. returns \in Counts(Tape(flow))
    <2>1. returns \in [MenusOf(Tape(flow)) -> Nat]
      BY <1>1 DEF PathInv, Returned, MenuPcs, MenusOf
    <2>2. ASSUME NEW n \in MenusOf(Tape(flow)) PROVE returns[n] \in 0 .. 3
      <3>1. PICK p \in Typed(flow, {"collect_digit"}) : Pc(flow, p) = n
        BY <1>1, MenusOfTape DEF MenusOf
      <3>2. returns[n] <= flow[p].returns /\ flow[p].returns \in 1 .. 3
        <4>1. returns[Pc(flow, p)] = sim.returns[p] /\ sim.returns[p] <= flow[p].returns
          BY <1>1 DEF PathInv, Returned, Drawings
        <4>2. IsBlock(flow[p])
          BY <1>1, SoundPositions DEF Typed
        <4> QED
          BY <3>1, <4>1, <4>2 DEF IsBlock
      <3> QED
        BY <2>1, <3>2
    <2> QED
      BY <2>1, <2>2 DEF Counts
  <1>3. Met(A) \in CostStates(Tape(flow))
    <2>1. pc \in DOMAIN Tape(flow) /\ returns \in [MenusOf(Tape(flow)) -> 0 .. 3]
          /\ A \in SUBSET ((DOMAIN Tape(flow)) \X [MenusOf(Tape(flow)) -> 0 .. 3])
      BY <1>1, <1>2 DEF Counts, AllStates
    <2> QED
      BY <2>1 DEF CostStates, Met
  <1>4. Met(A).pc = pc /\ Met(A).returns = returns /\ Met(A).active = A
    BY DEF Met
  <1> QED
    BY <1>1, <1>2, <1>3, <1>4, CostsAreNumbers DEF Cost

\* An end, and a call without a bound.
LEMMA WithinAtEnd ==
    ASSUME PathInv, Within, Started, UNCHANGED <<flow, program>>,
           \/ program.version = 2
           \/ ~Running' /\ (program.version >= 3 => elapsed' <= Granted')
    PROVE  Within'
  BY DEF Within

\* One step down: what the step spent was in the bound of the state above.
LEMMA WithinBelow ==
    ASSUME PathInv, Within, Running, program.version >= 3,
           UNCHANGED <<flow, program, outcome>>, attempt' = 0, elapsed' \in Nat,
           overtime' \in Nat,
           NEW s \in CostStates(Tape(flow)), NEW n \in DOMAIN Tape(flow), NEW r \in Counts(Tape(flow)),
           pc' = n, returns' = r, Cost(Step(s, n, r)) <= MaximumSessionMs,
           elapsed' + Cost(Step(s, n, r)) <= Granted'
    PROVE  Within'
  <1> DEFINE tape == Tape(flow)
             t == Step(s, n, r)
             A == s.active \cup {<<s.pc, s.returns>>}
  <1>1. Started /\ Sound(flow)
    BY Standing
  <1>2. program.budget \in Nat /\ program.budget <= MaximumSessionMs /\ program.budget = MaximumCost(tape)
    BY <1>1, BudgetIsNumber DEF Within
  <1>3. t \in CostStates(tape)
    BY StepIsBelow DEF Below
  <1>4. Cost(t) \in Nat /\ Cost(t) = CostHere(tape, Costs(tape), t)
    BY <1>1, <1>3, CostsAreNumbers DEF Cost
  <1>5. A \in SUBSET AllStates(tape) /\ t.pc = n /\ t.returns = r /\ t.active = A
    <2>1. t.pc = n /\ t.returns = r /\ t.active = A
      BY DEF Step
    <2> QED
      BY <1>3, <2>1 DEF CostStates, AllStates, Counts
  <1>6. <<n, r>> \notin A
    <2> SUFFICES ASSUME <<n, r>> \in A PROVE FALSE
      OBVIOUS
    <2>1. CostHere(tape, Costs(tape), t) = Unbounded
      BY <1>5 DEF CostHere
    <2>2. Cost(t) = MaximumSessionMs + 1
      BY <1>4, <2>1 DEF Unbounded
    <2> HIDE DEF t
    <2> QED
      BY <1>2, <1>4, <2>2, TimeIsCounted DEF t
  <1>7. elapsed' <= Granted' /\ Granted' \in Nat
    <2> HIDE DEF t
    <2> QED
      BY <1>2, <1>4 DEF t, Granted
  <1>8. Met(A)' = t
    BY DEF Met, Step
  <1>9. Ahead'
    <2>1. attempt' * AttemptCost' = 0
      <3>1. AttemptCost' \in Nat
        <4>1. \A i : PromptMs(i) \in Nat
          BY TimeIsCounted
        <4> QED
          BY <4>1, TimeIsCounted DEF AttemptCost
      <3>2. \A x \in Nat : 0 * x = 0
        OBVIOUS
      <3> QED
        BY <3>1, <3>2
    <2>2. elapsed' + Cost(t) <= Granted' + 0 /\ Cost(t) <= MaximumSessionMs
      <3> HIDE DEF t
      <3> QED
        BY <1>4, <1>7 DEF t
    <2>3. Cost(Met(A))' = Cost(t)
      BY <1>8 DEF Cost
    <2> QED
      BY <1>5, <1>6, <2>1, <2>2, <2>3 DEF Ahead
  <1> QED
    BY <1>2, <1>7, <1>9 DEF Within

-----------------------------------------------------------------------------
\* The bound of a state covers what its instruction spends and the bound of
\* each state it may lead to.
LEMMA Onward ==
    ASSUME NEW d, Sound(d), NEW s \in CostStates(Tape(d)), <<s.pc, s.returns>> \notin s.active,
           Tape(d)[s.pc].op \in Branching, NEW n \in Ways(Tape(d)[s.pc])
    PROVE  LET c == Costs(Tape(d))
               t == Step(s, n, s.returns) IN
           /\ n \in DOMAIN Tape(d) /\ c[t] \in Nat /\ Outlay(Tape(d)[s.pc]) \in Nat
           /\ Outlay(Tape(d)[s.pc]) + c[t] <= c[s]
  <1> DEFINE tape == Tape(d)
             i == tape[s.pc]
             c == Costs(tape)
             W == Ways(i)
  <1>1. s.pc \in DOMAIN tape /\ s.returns \in Counts(tape)
    BY DEF CostStates, Counts
  <1>2. W \subseteq DOMAIN tape /\ IsFiniteSet(W) /\ W # {} /\ Outlay(i) \in Nat
    BY <1>1, WaysOut
  <1>3. \A k \in W : c[Step(s, k, s.returns)] \in Nat
    BY <1>1, <1>2, StepIsBelow, CostsAreNumbers DEF Below
  <1>4. Longest(c, s, W) \in Nat /\ c[Step(s, n, s.returns)] <= Longest(c, s, W)
    <2>1. \A k \in W : c[Step(s, k, s.returns)] <= Longest(c, s, W)
      BY <1>2, <1>3, LongestOf
    <2>2. Longest(c, s, W) \in Nat
      BY <1>2, <1>3, LongestOf
    <2> QED
      BY <2>1, <2>2
  <1>5. c[s] = Outlay(i) + Longest(c, s, W)
    <2>1. c[s] = CostHere(tape, c, s)
      BY CostsAreNumbers
    <2>2. CASE i.op = "schedule_branch"
      <3>1. CostHere(tape, c, s) = Longest(c, s, W)
        BY <2>2, CostCases
      <3>2. Outlay(i) = 0
        BY <2>2 DEF Outlay
      <3> QED
        BY <1>4, <2>1, <3>1, <3>2
    <2>3. CASE i.op # "schedule_branch"
      <3>1. CostHere(tape, c, s) = Outlay(i) + Longest(c, s, W)
        BY <2>3, CostCases DEF Branching
      <3> QED
        BY <2>1, <3>1
    <2> QED
      BY <2>2, <2>3
  <1> HIDE DEF c, i, W
  <1> QED
    BY <1>2, <1>3, <1>4, <1>5 DEF c, i, W, tape

\* What a recording costs covers both of its ways.
LEMMA OnwardFromRecording ==
    ASSUME NEW d, Sound(d), NEW s \in CostStates(Tape(d)), <<s.pc, s.returns>> \notin s.active,
           Tape(d)[s.pc].op = "record_message"
    PROVE  LET c == Costs(Tape(d))
               i == Tape(d)[s.pc]
               x == c[Step(s, i.to["next"], s.returns)]
               y == c[Step(s, i.to["on_unavailable"], s.returns)] IN
           /\ i.to["next"] \in DOMAIN Tape(d) /\ i.to["on_unavailable"] \in DOMAIN Tape(d)
           /\ x \in Nat /\ y \in Nat
           /\ BeepMs + RecordMs + x <= c[s] /\ BeepMs + y <= c[s]
  <1> DEFINE tape == Tape(d)
             i == tape[s.pc]
             c == Costs(tape)
             x == c[Step(s, i.to["next"], s.returns)]
             y == c[Step(s, i.to["on_unavailable"], s.returns)]
  <1>1. s.pc \in DOMAIN tape /\ s.returns \in Counts(tape)
    BY DEF CostStates, Counts
  <1>2. i.to["next"] \in DOMAIN tape /\ i.to["on_unavailable"] \in DOMAIN tape
    BY <1>1, WaysOnTape, NamedEdges
  <1>3. x \in Nat /\ y \in Nat
    BY <1>1, <1>2, StepIsBelow, CostsAreNumbers DEF Below
  <1>4. c[s] = CostHere(tape, c, s)
    BY CostsAreNumbers
  <1>5. CostHere(tape, c, s) = BeepMs + Max({RecordMs + x, y})
    BY CostCases
  <1>6. c[s] = BeepMs + Max({RecordMs + x, y})
    BY <1>4, <1>5
  <1> HIDE DEF x, y
  <1>7. RecordMs + x \in Nat
    BY <1>3, TimeIsCounted
  <1>8. /\ Max({RecordMs + x, y}) \in Nat /\ RecordMs + x <= Max({RecordMs + x, y})
        /\ y <= Max({RecordMs + x, y})
    BY <1>3, <1>7, MaxOfTwo
  <1>9. BeepMs + RecordMs + x <= c[s] /\ BeepMs + y <= c[s]
    BY <1>3, <1>6, <1>8, TimeIsCounted
  <1> QED
    BY <1>2, <1>3, <1>9 DEF x, y

\* What a return costs is what its way on costs.
LEMMA OnwardFromReturn ==
    ASSUME NEW d, Sound(d), NEW s \in CostStates(Tape(d)), <<s.pc, s.returns>> \notin s.active,
           Tape(d)[s.pc].op = "return_to_menu"
    PROVE  LET c == Costs(Tape(d))
               i == Tape(d)[s.pc] IN
           c[s] = IF s.returns[i.menu] < Tape(d)[i.menu].returns THEN c[Step(s, i.menu, Again(i, s))]
                  ELSE c[Step(s, Tape(d)[i.menu].to["on_return_limit"], s.returns)]
  <1> DEFINE tape == Tape(d)
             i == tape[s.pc]
             c == Costs(tape)
  <1>1. c[s] = CostHere(tape, c, s)
    BY CostsAreNumbers
  <1>2. CostHere(tape, c, s) =
            IF s.returns[i.menu] < tape[i.menu].returns THEN c[Step(s, i.menu, Again(i, s))]
            ELSE c[Step(s, tape[i.menu].to["on_return_limit"], s.returns)]
    BY CostCases
  <1> QED
    BY <1>1, <1>2

-----------------------------------------------------------------------------
\* What the call has to go by when it may still be within a bound.
LEMMA Bounded ==
    ASSUME PathInv, Within, Running, program.version >= 3
    PROVE  \E A \in SUBSET AllStates(Tape(flow)) :
             LET s == Met(A) IN
             /\ s \in CostStates(Tape(flow)) /\ <<s.pc, s.returns>> \notin s.active
             /\ s.pc = pc /\ s.returns = returns /\ s.active = A
             /\ returns \in Counts(Tape(flow)) /\ Cost(s) \in Nat
             /\ Cost(s) <= MaximumSessionMs
             /\ elapsed + Cost(s) <= Granted + attempt * AttemptCost
  <1>1. Started
    BY Standing
  <1>2. PICK A \in SUBSET AllStates(Tape(flow)) :
            /\ <<pc, returns>> \notin A /\ Cost(Met(A)) <= MaximumSessionMs
            /\ elapsed + Cost(Met(A)) <= Granted + attempt * AttemptCost
    BY <1>1 DEF Within, Ahead
  <1> QED
    BY <1>2, MetIsState

\* A branch that spends no more than its outlay stays within the budget.
LEMMA BranchingIsWithin ==
    ASSUME PathInv, Within, Running, Here.op \in Branching \ {"collect_digit"},
           UNCHANGED <<flow, program, outcome, returns>>, attempt' = 0,
           NEW ms \in Nat, elapsed' = elapsed + ms, overtime' \in Nat,
           ms + overtime <= Outlay(Here) + overtime',
           NEW e \in DOMAIN Here.to, pc' = Here.to[e]
    PROVE  Within'
  <1>1. /\ Started /\ Sound(flow) /\ program.tape = Tape(flow) /\ Here = Tape(flow)[pc]
        /\ sim.at \in DOMAIN flow /\ Here.op = flow[sim.at].type
    BY Standing DEF Here
  <1>2. attempt = 0 /\ elapsed \in Nat /\ overtime \in Nat /\ program.version \in Versions
    BY <1>1 DEF PathInv, Together, Counted, Compiled
  <1>3. CASE program.version = 2
    BY <1>1, <1>3, WithinAtEnd
  <1>4. CASE program.version >= 3
    <2>1. PICK A \in SUBSET AllStates(Tape(flow)) :
            LET s == Met(A) IN
            /\ s \in CostStates(Tape(flow)) /\ <<s.pc, s.returns>> \notin s.active
            /\ s.pc = pc /\ s.returns = returns /\ s.active = A
            /\ returns \in Counts(Tape(flow)) /\ Cost(s) \in Nat
            /\ Cost(s) <= MaximumSessionMs
            /\ elapsed + Cost(s) <= Granted + attempt * AttemptCost
      BY <1>4, Bounded
    <2> DEFINE s == Met(A)
               n == Here.to[e]
    <2>2. n \in Ways(Tape(flow)[s.pc]) /\ Tape(flow)[s.pc] = Here
      BY <1>1, <2>1 DEF Ways, Targets, Elements
    <2>3. /\ n \in DOMAIN Tape(flow) /\ Cost(Step(s, n, s.returns)) \in Nat /\ Outlay(Here) \in Nat
          /\ Outlay(Here) + Cost(Step(s, n, s.returns)) <= Cost(s)
      <3> HIDE DEF s, n
      <3> QED
        BY <1>1, <2>1, <2>2, Onward DEF Cost, s
    <2>4. program.budget \in Nat /\ elapsed + Cost(s) <= Granted
      <3>1. \A x \in Nat : 0 * x = 0
        OBVIOUS
      <3>2. attempt * AttemptCost = 0
        BY <1>2, <3>1, TimeIsCounted DEF AttemptCost
      <3>3. program.budget \in Nat
        BY <1>1, <1>4, BudgetIsNumber DEF Within
      <3> QED
        BY <1>2, <2>1, <3>2, <3>3 DEF Granted
    <2>5. /\ elapsed' + Cost(Step(s, n, s.returns)) <= Granted' /\ elapsed' \in Nat
          /\ Cost(Step(s, n, s.returns)) <= MaximumSessionMs
      <3> DEFINE x == Cost(Step(s, n, s.returns))
                 y == Cost(s)
                 z == Outlay(Here)
      <3>1. /\ x \in Nat /\ y \in Nat /\ z \in Nat /\ z + x <= y /\ y <= MaximumSessionMs
            /\ program.budget \in Nat /\ MaximumSessionMs \in Nat
        BY <2>1, <2>3, <2>4, TimeIsCounted
      <3>2. elapsed + y <= program.budget + overtime
        BY <2>4 DEF Granted
      <3>3. program' = program
        OBVIOUS
      <3> HIDE DEF x, y, z
      <3>4. ms + overtime <= z + overtime'
        BY DEF z
      <3>5. ms + x + elapsed <= program.budget + overtime'
        <4> DEFINE b == program.budget
                   o == overtime'
                   t == elapsed
                   u == overtime
        <4>1. b \in Nat /\ o \in Nat /\ t \in Nat /\ u \in Nat
          BY <1>2, <3>1
        <4>2. t + y <= b + u /\ ms + u <= z + o
          BY <3>2, <3>4
        <4> HIDE DEF b, o, t, u
        <4>3. ms + x + t <= b + o
          BY <3>1, <4>1, <4>2
        <4> QED
          BY <4>3 DEF b, o, t
      <3>6. x <= MaximumSessionMs /\ elapsed' \in Nat
        BY <1>2, <3>1
      <3> QED
        BY <1>2, <3>1, <3>3, <3>5, <3>6 DEF x, Granted
    <2> HIDE DEF s
    <2> QED
      BY <1>4, <2>1, <2>3, <2>5, WithinBelow DEF s
  <1> QED
    BY <1>2, <1>3, <1>4 DEF Versions

\* The budget is the cost of the entry.
LEMMA PublishWithin ==
    ASSUME PathInv, NEW v \in Versions, NEW d \in Flows, Publish(v, d)
    PROVE  Within'
  <1>1. PICK p \in Programs(v, d) :
            /\ flow' = d /\ program' = p
            /\ outcome' = IF ProgramAccepted(p) THEN "running" ELSE "refused"
            /\ returns' = [n \in {m \in DOMAIN p.tape : p.tape[m].op = "collect_digit"} |-> 0]
    BY DEF Publish
  <1>2. Sound(d) /\ p.tape = Tape(d) /\ p.version = v
    BY PublishedIsSound
  <1>3. elapsed' = 0 /\ overtime' = 0 /\ pc' = 0 /\ attempt' = 0
    BY DEF Publish, PathInv, Counted, Started
  <1>4. SUFFICES ASSUME v >= 3 PROVE Within'
    BY <1>1, <1>2 DEF Within
  <1> DEFINE b == p.budget
             tape == Tape(d)
  <1>5. b = MaximumCost(tape) /\ b <= MaximumSessionMs
    BY <1>4 DEF Programs, CompileFlowV3, CompileFlowV4, Versions
  <1>6. b \in Nat
    BY <1>2, <1>5, BudgetIsNumber
  <1>7. returns' = [m \in MenusOf(tape) |-> 0]
    BY <1>1, <1>2 DEF MenusOf
  <1>8. Met({})' = Entry(tape)
    BY <1>3, <1>7 DEF Met, Entry
  <1>9. Cost(Met({}))' = b
    BY <1>1, <1>2, <1>5, <1>8, CostsAreNumbers DEF Cost
  <1>10. attempt' * AttemptCost' = 0
    <2>1. \A x \in Nat : 0 * x = 0
      OBVIOUS
    <2>2. AttemptCost' \in Nat
      BY TimeIsCounted DEF AttemptCost
    <2> QED
      BY <1>3, <2>1, <2>2
  <1>11. Ahead'
    <2>1. /\ elapsed' + Cost(Met({}))' <= Granted' + attempt' * AttemptCost'
          /\ Cost(Met({}))' <= MaximumSessionMs
      <3> HIDE DEF b
      <3> QED
        BY <1>1, <1>3, <1>5, <1>6, <1>9, <1>10 DEF b, Granted
    <2> QED
      BY <1>1, <2>1 DEF Ahead
  <1>12. elapsed' <= Granted'
    BY <1>1, <1>3, <1>6 DEF Granted
  <1> QED
    BY <1>1, <1>5, <1>11, <1>12 DEF Within

\* A prompt stays within the budget.
LEMMA PlayPromptWithin ==
    ASSUME PathInv, Within, PlayPrompt
    PROVE  Within'
  <1>1. Running /\ Here.op = "play_prompt" /\ UNCHANGED <<flow, program, returns, overtime, outcome>>
        /\ elapsed' = elapsed + PromptMs(Here) /\ pc' = Here.to["next"] /\ attempt' = 0
    BY DEF PlayPrompt, Turn, Spend, Goto
  <1>2. Here = Instruction(flow, sim.at) /\ Here.op = flow[sim.at].type
    BY <1>1, Standing
  <1>3. "next" \in DOMAIN Here.to
    BY <1>1, <1>2, InstructionFields, NamedEdges
  <1>4. /\ PromptMs(Here) \in Nat /\ overtime' \in Nat /\ Here.op \in Branching \ {"collect_digit"}
        /\ PromptMs(Here) + overtime <= Outlay(Here) + overtime'
    BY <1>1, TimeIsCounted DEF Outlay, Branching, PathInv, Counted
  <1> QED
    BY <1>1, <1>3, <1>4, BranchingIsWithin

\* A branch by schedule stays within the budget.
LEMMA ScheduleBranchWithin ==
    ASSUME PathInv, Within, NEW e \in Elements(Owned["schedule_branch"]), ScheduleBranch(e)
    PROVE  Within'
  <1>1. Running /\ Here.op = "schedule_branch" /\ UNCHANGED <<flow, program, returns, overtime, outcome>>
        /\ elapsed' = elapsed /\ pc' = Here.to[e] /\ attempt' = 0
    BY DEF ScheduleBranch, Turn, Goto
  <1>2. Here = Instruction(flow, sim.at) /\ Here.op = flow[sim.at].type
    BY <1>1, Standing
  <1>3. e \in DOMAIN Here.to
    BY <1>1, <1>2, InstructionFields
  <1>4. /\ 0 \in Nat /\ 0 + overtime <= Outlay(Here) + overtime' /\ elapsed' = elapsed + 0
        /\ overtime' \in Nat /\ Here.op \in Branching \ {"collect_digit"}
    BY <1>1 DEF Outlay, Branching, PathInv, Counted
  <1> QED
    BY <1>1, <1>3, <1>4, BranchingIsWithin

\* An external call stays within the budget, cut short or not.
LEMMA ExternalCallWithin ==
    ASSUME PathInv, Within, NEW e \in Elements(Owned["external_call"]), ExternalCall(e)
    PROVE  Within'
  <1>1. Running /\ Here.op = "external_call" /\ UNCHANGED <<flow, program, returns>> /\ overtime \in Nat
    BY DEF ExternalCall, Turn, PathInv, Counted
  <1>2. /\ Started /\ Sound(flow) /\ Here = Instruction(flow, sim.at) /\ Here.op = flow[sim.at].type
        /\ Here = Tape(flow)[pc]
    BY <1>1, Standing DEF Here
  <1>3. PICK ms \in 0 .. LongestMs(e) :
            /\ elapsed' = elapsed + ms
            /\ overtime' = IF ms > AllowedMs THEN overtime + (LongestMs(e) - AllowedMs) ELSE overtime
            /\ IF Expired(elapsed + ms) THEN outcome' = "cut_short" /\ UNCHANGED <<pc, attempt, sim>>
               ELSE Goto(Here.to[e]) /\ Simulated(e) /\ UNCHANGED outcome
    BY DEF ExternalCall, Spend
  <1>4. /\ ms \in Nat /\ Outlay(Here) \in Nat /\ overtime' \in Nat
        /\ ms + overtime <= Outlay(Here) + overtime'
    <2>1. Outlay(Here) = AllowedMs /\ AllowedMs \in Nat /\ LongestMs(e) \in Nat
      BY <1>1, TimeIsCounted DEF Outlay, AllowedMs
    <2> QED
      BY <1>1, <1>3, <2>1
  <1>5. e \in DOMAIN Here.to /\ Here.op \in Branching \ {"collect_digit"}
    <2>0. sim.at \in DOMAIN flow /\ Here = Instruction(flow, sim.at)
      BY <1>1, Standing
    <2>1. DOMAIN Here.to = Elements(Owned[flow[sim.at].type])
      BY <2>0, InstructionFields
    <2>2. flow[sim.at].type = "external_call"
      BY <1>1, <1>2
    <2> QED
      BY <1>1, <2>1, <2>2 DEF Branching
  <1>6. CASE Expired(elapsed + ms)
    <2>1. outcome' = "cut_short" /\ ~Running'
      BY <1>3, <1>6 DEF Running
    <2>2. ASSUME program.version >= 3 PROVE elapsed' <= Granted'
      <3>1. PICK A \in SUBSET AllStates(Tape(flow)) :
              LET s == Met(A) IN
              /\ s \in CostStates(Tape(flow)) /\ <<s.pc, s.returns>> \notin s.active
              /\ s.pc = pc /\ s.returns = returns /\ s.active = A
              /\ returns \in Counts(Tape(flow)) /\ Cost(s) \in Nat
              /\ Cost(s) <= MaximumSessionMs
              /\ elapsed + Cost(s) <= Granted + attempt * AttemptCost
        BY <1>1, <2>2, Bounded
      <3> DEFINE s == Met(A)
                 n == Here.to[e]
      <3>2. n \in Ways(Tape(flow)[s.pc]) /\ Tape(flow)[s.pc] = Here
        BY <1>2, <1>5, <3>1 DEF Ways, Targets, Elements
      <3>3. /\ Cost(Step(s, n, s.returns)) \in Nat
            /\ Outlay(Here) + Cost(Step(s, n, s.returns)) <= Cost(s)
        <4> HIDE DEF s, n
        <4> QED
          BY <1>2, <1>5, <3>1, <3>2, Onward DEF Cost, s
      <3>4. attempt = 0 /\ elapsed \in Nat /\ program.budget \in Nat
        BY <1>1, <1>2, <2>2, BudgetIsNumber DEF PathInv, Together, Counted, Within
      <3>5. attempt * AttemptCost = 0
        <4>1. \A x \in Nat : 0 * x = 0
          OBVIOUS
        <4> QED
          BY <3>4, <4>1, TimeIsCounted DEF AttemptCost
      <3> DEFINE x == Cost(Step(s, n, s.returns))
                 y == Cost(s)
                 z == Outlay(Here)
      <3>6. x \in Nat /\ y \in Nat /\ z \in Nat /\ z + x <= y /\ elapsed + y <= Granted + 0
            /\ ms + overtime <= z + overtime'
        BY <1>4, <3>1, <3>3, <3>5
      <3> HIDE DEF x, y, z
      <3> QED
        BY <1>1, <1>3, <1>4, <3>4, <3>6 DEF Granted
    <2> QED
      BY <1>1, <1>2, <2>1, <2>2, WithinAtEnd
  <1>7. CASE ~Expired(elapsed + ms)
    BY <1>1, <1>3, <1>4, <1>5, <1>7, BranchingIsWithin DEF Goto
  <1> QED
    BY <1>6, <1>7

\* A recording stays within the budget; a spoiled one has its length added to it.
LEMMA RecordMessageWithin ==
    ASSUME PathInv, Within, NEW result \in {"recorded", "unavailable", "spoiled", "hangup"},
           RecordMessage(result)
    PROVE  Within'
  <1>1. Running /\ Here.op = "record_message" /\ UNCHANGED <<flow, program, returns>>
    BY DEF RecordMessage, Turn
  <1>2. /\ Started /\ Sound(flow) /\ Here = Tape(flow)[pc] /\ Here.op = flow[sim.at].type
        /\ program.version \in Versions /\ elapsed \in Nat /\ overtime \in Nat /\ attempt = 0
    BY <1>1, Standing DEF Here, PathInv, Compiled, Counted, Together
  <1>3. CASE result = "hangup"
    <2>1. ~Running' /\ elapsed' = elapsed /\ overtime' = overtime
      BY <1>3 DEF RecordMessage, Running
    <2>2. program.version >= 3 => elapsed' <= Granted'
      BY <1>1, <1>2, <2>1 DEF Within, Granted
    <2> QED
      BY <1>1, <1>2, <2>1, <2>2, WithinAtEnd
  <1>4. CASE result \in {"recorded", "unavailable", "spoiled"}
    <2>1. /\ UNCHANGED outcome /\ attempt' = 0 /\ overtime' \in Nat
          /\ overtime' = IF result = "spoiled" THEN overtime + RecordMs ELSE overtime
      BY <1>2, <1>4, TimeIsCounted DEF RecordMessage, Goto
    <2>2. CASE program.version = 2
      BY <1>1, <1>2, <2>1, <2>2, WithinAtEnd
    <2>3. CASE program.version >= 3
      <3>1. PICK A \in SUBSET AllStates(Tape(flow)) :
              LET s == Met(A) IN
              /\ s \in CostStates(Tape(flow)) /\ <<s.pc, s.returns>> \notin s.active
              /\ s.pc = pc /\ s.returns = returns /\ s.active = A
              /\ returns \in Counts(Tape(flow)) /\ Cost(s) \in Nat
              /\ Cost(s) <= MaximumSessionMs
              /\ elapsed + Cost(s) <= Granted + attempt * AttemptCost
        BY <1>1, <2>3, Bounded
      <3> DEFINE s == Met(A)
                 m == Here.to["next"]
                 n == Here.to["on_unavailable"]
                 x == Cost(Step(s, m, s.returns))
                 y == Cost(Step(s, n, s.returns))
                 z == Cost(s)
      <3>2. /\ m \in DOMAIN Tape(flow) /\ n \in DOMAIN Tape(flow) /\ x \in Nat /\ y \in Nat
            /\ BeepMs + RecordMs + x <= z /\ BeepMs + y <= z
        <4>1. Tape(flow)[s.pc] = Here
          BY <1>2, <3>1
        <4> HIDE DEF s
        <4> QED
          BY <1>1, <1>2, <3>1, <4>1, OnwardFromRecording DEF Cost, s
      <3>3. program.budget \in Nat
        BY <1>2, <2>3, BudgetIsNumber DEF Within
      <3>4. elapsed + z <= Granted /\ z \in Nat /\ z <= MaximumSessionMs
        <4>1. \A w \in Nat : 0 * w = 0
          OBVIOUS
        <4>2. attempt * AttemptCost = 0
          BY <1>2, <4>1, TimeIsCounted DEF AttemptCost
        <4> QED
          BY <1>2, <3>1, <3>3, <4>2 DEF Granted
      <3>5. CASE result = "recorded"
        <4>0. result # "spoiled"
          BY <3>5
        <4>1. PICK ms \in {0, RecordMs} : elapsed' = elapsed + (BeepMs + ms)
          BY <3>5 DEF RecordMessage, Spend
        <4>2. pc' = m
          BY <3>5 DEF RecordMessage, Goto
        <4>3. elapsed' + x <= Granted' /\ elapsed' \in Nat /\ x <= MaximumSessionMs
          <5> HIDE DEF x, y, z
          <5> QED
            BY <1>1, <1>2, <2>1, <3>2, <3>3, <3>4, <4>0, <4>1, TimeIsCounted DEF Granted
        <4> HIDE DEF s
        <4> QED
          BY <1>1, <2>1, <2>3, <3>1, <3>2, <4>2, <4>3, WithinBelow DEF s
      <3>6. CASE result = "unavailable"
        <4>0. result # "spoiled"
          BY <3>6
        <4>1. PICK ms \in {0, BeepMs} : elapsed' = elapsed + ms
          BY <3>6 DEF RecordMessage, Spend
        <4>2. pc' = n
          BY <3>6 DEF RecordMessage, Goto
        <4>3. elapsed' + y <= Granted' /\ elapsed' \in Nat /\ y <= MaximumSessionMs
          <5> HIDE DEF x, y, z
          <5> QED
            BY <1>1, <1>2, <2>1, <3>2, <3>3, <3>4, <4>0, <4>1, TimeIsCounted DEF Granted
        <4> HIDE DEF s
        <4> QED
          BY <1>1, <2>1, <2>3, <3>1, <3>2, <4>2, <4>3, WithinBelow DEF s
      <3>7. CASE result = "spoiled"
        <4>1. elapsed' = elapsed + (BeepMs + RecordMs) /\ pc' = n /\ overtime' = overtime + RecordMs
          BY <2>1, <3>7 DEF RecordMessage, Spend, Goto
        <4>2. elapsed' + y <= Granted' /\ elapsed' \in Nat /\ y <= MaximumSessionMs
          <5> HIDE DEF x, y, z
          <5> QED
            BY <1>1, <1>2, <3>2, <3>3, <3>4, <4>1, TimeIsCounted DEF Granted
        <4> HIDE DEF s
        <4> QED
          BY <1>1, <2>1, <2>3, <3>1, <3>2, <4>1, <4>2, WithinBelow DEF s
      <3> QED
        BY <1>4, <3>5, <3>6, <3>7
    <2> QED
      BY <1>2, <2>2, <2>3 DEF Versions
  <1> QED
    BY <1>3, <1>4

\* A return stays within the budget.
LEMMA ReturnToMenuWithin ==
    ASSUME PathInv, Within, ReturnToMenu
    PROVE  Within'
  <1>1. /\ Running /\ Here.op = "return_to_menu" /\ UNCHANGED <<flow, program, elapsed, overtime, outcome>>
        /\ attempt' = 0
    BY DEF ReturnToMenu, Turn, Goto
  <1>2. /\ Started /\ Sound(flow) /\ Here = Tape(flow)[pc] /\ Here.op = flow[sim.at].type
        /\ program.tape = Tape(flow)
        /\ program.version \in Versions /\ elapsed \in Nat /\ overtime \in Nat /\ attempt = 0
    BY <1>1, Standing DEF Here, PathInv, Compiled, Counted, Together
  <1>3. CASE program.version = 2
    BY <1>1, <1>2, <1>3, WithinAtEnd
  <1>4. CASE program.version >= 3
    <2>1. PICK A \in SUBSET AllStates(Tape(flow)) :
            LET s == Met(A) IN
            /\ s \in CostStates(Tape(flow)) /\ <<s.pc, s.returns>> \notin s.active
            /\ s.pc = pc /\ s.returns = returns /\ s.active = A
            /\ returns \in Counts(Tape(flow)) /\ Cost(s) \in Nat
            /\ Cost(s) <= MaximumSessionMs
            /\ elapsed + Cost(s) <= Granted + attempt * AttemptCost
      BY <1>1, <1>4, Bounded
    <2> DEFINE s == Met(A)
               tape == Tape(flow)
               i == tape[s.pc]
               limit == tape[i.menu].to["on_return_limit"]
    <2>2. i = Here
      BY <1>2, <2>1
    <2>3. /\ i.menu \in MenusOf(tape)
          /\ s.returns[i.menu] < tape[i.menu].returns => Step(s, i.menu, Again(i, s)) \in Below(tape, s)
          /\ Step(s, limit, s.returns) \in Below(tape, s)
      <3> HIDE DEF s
      <3> QED
        BY <1>1, <1>2, <2>1, <2>2, ReturnWays DEF s
    <2>4. Cost(s) = IF s.returns[i.menu] < tape[i.menu].returns THEN Cost(Step(s, i.menu, Again(i, s)))
                    ELSE Cost(Step(s, limit, s.returns))
      <3> HIDE DEF s
      <3> QED
        BY <1>1, <1>2, <2>1, <2>2, OnwardFromReturn DEF Cost, s
    <2>5. program.budget \in Nat
      BY <1>2, <1>4, BudgetIsNumber DEF Within
    <2>6. /\ elapsed' + Cost(s) <= Granted' /\ elapsed' \in Nat /\ overtime' \in Nat
          /\ Cost(s) <= MaximumSessionMs
      <3>1. \A w \in Nat : 0 * w = 0
        OBVIOUS
      <3>2. attempt * AttemptCost = 0
        BY <1>2, <3>1, TimeIsCounted DEF AttemptCost
      <3> QED
        BY <1>1, <1>2, <2>1, <2>5, <3>2 DEF Granted
    <2>7. CASE s.returns[i.menu] < tape[i.menu].returns
      <3>1. returns' = Again(i, s) /\ pc' = i.menu
        BY <1>2, <2>1, <2>2, <2>7 DEF ReturnToMenu, ReturnAllowed, Goto, Again
      <3>2. Again(i, s) \in Counts(tape) /\ i.menu \in DOMAIN tape
        BY <2>3, <2>7 DEF Below, CostStates, Step, Counts
      <3>3. /\ elapsed' + Cost(Step(s, i.menu, Again(i, s))) <= Granted'
            /\ Cost(Step(s, i.menu, Again(i, s))) <= MaximumSessionMs
        BY <2>4, <2>6, <2>7
      <3> HIDE DEF s, i
      <3> QED
        BY <1>1, <1>4, <2>1, <2>6, <3>1, <3>2, <3>3, WithinBelow DEF s
    <2>8. CASE ~(s.returns[i.menu] < tape[i.menu].returns)
      <3>1. returns' = s.returns /\ pc' = limit
        BY <1>2, <2>1, <2>2, <2>8 DEF ReturnToMenu, ReturnAllowed, Goto
      <3>2. limit \in DOMAIN tape /\ s.returns \in Counts(tape)
        BY <2>1, <2>3 DEF Below, CostStates, Step, Counts
      <3>3. /\ elapsed' + Cost(Step(s, limit, s.returns)) <= Granted'
            /\ Cost(Step(s, limit, s.returns)) <= MaximumSessionMs
        BY <2>4, <2>6, <2>8
      <3> HIDE DEF s, i, limit
      <3> QED
        BY <1>1, <1>4, <2>1, <2>6, <3>1, <3>2, <3>3, WithinBelow DEF s
    <2> QED
      BY <2>7, <2>8
  <1> QED
    BY <1>2, <1>3, <1>4 DEF Versions

\* A menu has spent its attempts one by one; the bound had all of them.
LEMMA CollectDigitWithin ==
    ASSUME PathInv, Within, NEW event \in {"0", "1", "2", "timeout"}, CollectDigit(event)
    PROVE  Within'
  <1>1. Running /\ Here.op = "collect_digit" /\ UNCHANGED <<flow, program, returns, overtime, outcome>>
    BY DEF CollectDigit, Turn
  <1>2. /\ Started /\ Sound(flow) /\ Here = Tape(flow)[pc] /\ Here = Instruction(flow, sim.at)
        /\ program.tape = Tape(flow) /\ pc \in DOMAIN Tape(flow) /\ flow[sim.at].type = "collect_digit"
        /\ IsBlock(flow[sim.at])
    BY <1>1, Standing DEF Here
  <1>3. /\ program.version \in Versions /\ elapsed \in Nat /\ overtime \in Nat /\ attempt \in Nat
        /\ attempt + 1 <= Here.attempts /\ Here.attempts \in Nat
    <2>1. program.version \in Versions /\ elapsed \in Nat /\ overtime \in Nat
      BY <1>2 DEF PathInv, Compiled, Counted
    <2>2. attempt \in Nat /\ attempt < flow[sim.at].attempts
      BY <1>2 DEF PathInv, Together
    <2>3. Here.attempts = flow[sim.at].attempts /\ Here.attempts \in Nat
      BY <1>2, InstructionFields DEF IsBlock
    <2> QED
      BY <2>1, <2>2, <2>3
  <1>4. CASE program.version = 2
    BY <1>1, <1>2, <1>4, WithinAtEnd
  <1>5. CASE program.version >= 3
    <2> DEFINE a == AttemptCost
    <2>1. a \in Nat
      BY TimeIsCounted DEF AttemptCost
    <2>2. elapsed' \in Nat /\ elapsed' <= elapsed + a
      <3>1. PICK ms \in AttemptMs(event) : elapsed' = elapsed + ms
        BY DEF CollectDigit, Spend
      <3>2. ms \in {0, PromptMs(Here), PromptMs(Here) + TimeoutMs}
        BY DEF AttemptMs
      <3> QED
        BY <1>3, <3>1, <3>2, TimeIsCounted DEF AttemptCost
    <2>3. PICK A \in SUBSET AllStates(Tape(flow)) :
            LET s == Met(A) IN
            /\ s \in CostStates(Tape(flow)) /\ <<s.pc, s.returns>> \notin s.active
            /\ s.pc = pc /\ s.returns = returns /\ s.active = A
            /\ returns \in Counts(Tape(flow)) /\ Cost(s) \in Nat
            /\ Cost(s) <= MaximumSessionMs
            /\ elapsed + Cost(s) <= Granted + attempt * AttemptCost
      BY <1>1, <1>5, Bounded
    <2> DEFINE s == Met(A)
               z == Cost(s)
    <2>4. Tape(flow)[s.pc] = Here /\ Outlay(Here) = Here.attempts * a
      BY <1>1, <1>2, <2>3 DEF Outlay, MenuMs, AttemptCost
    <2>5. Granted \in Nat /\ Granted' = Granted /\ elapsed <= Granted
      BY <1>1, <1>2, <1>3, <1>5, BudgetIsNumber DEF Within, Granted
    <2>6. /\ attempt * a \in Nat /\ Here.attempts * a \in Nat
          /\ attempt * a + a <= Here.attempts * a /\ (attempt + 1) * a = attempt * a + a
      <3>1. /\ a * attempt \in Nat /\ a * Here.attempts \in Nat /\ a * attempt + a <= a * Here.attempts
        BY <1>3, <2>1, Deeper
      <3>2. \A x, y \in Nat : x * y = y * x /\ (x + 1) * y = x * y + y
        OBVIOUS
      <3> HIDE DEF a
      <3> QED
        BY <1>3, <2>1, <3>1, <3>2
    <2>7. ASSUME NEW n \in Ways(Here), pc' = n, attempt' = 0 PROVE Within'
      <3> DEFINE x == Cost(Step(s, n, s.returns))
      <3>1. n \in DOMAIN Tape(flow) /\ x \in Nat /\ Here.attempts * a + x <= z
        <4>1. Here.op \in Branching
          BY <1>1 DEF Branching
        <4> HIDE DEF s
        <4>2. /\ n \in DOMAIN Tape(flow) /\ x \in Nat /\ Outlay(Here) \in Nat
              /\ Outlay(Here) + x <= z
          BY <1>2, <2>3, <2>4, <4>1, Onward DEF Cost, s
        <4> QED
          BY <2>4, <4>2
      <3>2. elapsed' + x <= Granted' /\ x <= MaximumSessionMs
        <4>1. z \in Nat /\ elapsed + z <= Granted + attempt * a /\ z <= MaximumSessionMs
          BY <2>3
        <4> DEFINE k == attempt * a
                   l == Here.attempts * a
        <4>2. k \in Nat /\ l \in Nat /\ k + a <= l /\ l + x <= z /\ elapsed + z <= Granted + k
          BY <2>6, <3>1, <4>1
        <4>3. MaximumSessionMs \in Nat
          BY TimeIsCounted
        <4> HIDE DEF a, k, l, x, z
        <4>4. elapsed' + x <= Granted /\ x <= MaximumSessionMs
          BY <1>3, <2>1, <2>2, <2>5, <3>1, <4>1, <4>2, <4>3 DEF Granted
        <4> QED
          BY <2>5, <4>4
      <3> HIDE DEF s
      <3> QED
        BY <1>1, <1>3, <1>5, <2>2, <2>3, <2>7, <3>1, <3>2, WithinBelow DEF s
    <2>8. CASE event \in DOMAIN Here.branches
      <3>1. pc' = Here.branches[event] /\ attempt' = 0
        BY <2>8 DEF CollectDigit, Goto
      <3>2. Here.branches[event] \in Ways(Here)
        BY <1>1, <2>8 DEF Ways, MenuWays, Elements
      <3> QED
        BY <2>7, <3>1, <3>2
    <2>9. CASE event \notin DOMAIN Here.branches /\ attempt + 1 = Here.attempts
      <3>1. PICK e \in {"on_timeout", "on_invalid"} : pc' = Here.to[e] /\ attempt' = 0
        BY <2>9 DEF CollectDigit, Goto
      <3>2. Here.to[e] \in Ways(Here)
        BY <1>1 DEF Ways, MenuWays
      <3> QED
        BY <2>7, <3>1, <3>2
    <2>10. CASE event \notin DOMAIN Here.branches /\ attempt + 1 # Here.attempts
      <3>1. pc' = pc /\ attempt' = attempt + 1
        BY <2>10 DEF CollectDigit
      <3>2. PICK n \in Ways(Here) : TRUE
        BY <1>1, <1>2, WaysOut DEF Branching
      <3> DEFINE x == Cost(Step(s, n, s.returns))
      <3>3. x \in Nat /\ Here.attempts * a + x <= z
        <4>1. Here.op \in Branching
          BY <1>1 DEF Branching
        <4> HIDE DEF s
        <4>2. x \in Nat /\ Outlay(Here) + x <= z
          BY <1>2, <2>3, <2>4, <3>2, <4>1, Onward DEF Cost, s
        <4> QED
          BY <2>4, <4>2
      <3>4. z \in Nat /\ elapsed + z <= Granted + attempt * a
        BY <2>3
      <3>5. elapsed' <= Granted' /\ elapsed' + z <= Granted' + (attempt + 1) * a
        <4> DEFINE k == attempt * a
                   l == Here.attempts * a
                   m == (attempt + 1) * a
        <4>1. /\ k \in Nat /\ l \in Nat /\ k + a <= l /\ m = k + a /\ l + x <= z
              /\ elapsed + z <= Granted + k
          BY <2>6, <3>3, <3>4
        <4> HIDE DEF a, k, l, m, x, z
        <4>2. elapsed' <= Granted /\ elapsed' + z <= Granted + m
          BY <1>3, <2>1, <2>2, <2>5, <3>3, <3>4, <4>1 DEF Granted
        <4> QED
          BY <2>5, <4>2 DEF m
      <3>6. AttemptCost' = AttemptCost /\ Met(A)' = Met(A) /\ Cost(Met(A))' = Cost(Met(A))
        BY <1>1, <3>1 DEF AttemptCost, Here, Met, Cost
      <3>7. Ahead'
        BY <1>1, <2>3, <3>1, <3>5, <3>6 DEF Ahead
      <3> QED
        BY <1>1, <1>2, <1>5, <3>5, <3>7 DEF Within
    <2> QED
      BY <2>8, <2>9, <2>10
  <1> QED
    BY <1>3, <1>4, <1>5 DEF Versions

\* Every step stays within the budget.
LEMMA NextWithin ==
    ASSUME PathInv, Within, [Next]_vars
    PROVE  Within'
  <1>1. CASE CutShort
    <2>1. Started /\ ~Running' /\ UNCHANGED <<flow, program, elapsed, overtime>>
      BY <1>1 DEF CutShort, Running, Started
    <2> QED
      BY <2>1 DEF Within, Granted
  <1>2. CASE EndCall
    <2>1. Started /\ ~Running' /\ UNCHANGED <<flow, program, elapsed, overtime>>
      BY <1>2 DEF EndCall, Turn, Running, Started
    <2> QED
      BY <2>1 DEF Within, Granted
  <1>3. ASSUME NEW end \in {"remote_hangup", "broken_off"}, Interrupted(end) PROVE Within'
    <2>1. Started /\ ~Running' /\ UNCHANGED <<flow, program, elapsed, overtime>>
      BY <1>3 DEF Interrupted, Running, Started
    <2> QED
      BY <2>1 DEF Within, Granted
  <1>4. CASE UNCHANGED vars
    BY <1>4 DEF vars, Within, Granted, Started, Running, Ahead, Cost, Met, AttemptCost, Here
  <1> QED
    BY <1>1, <1>2, <1>3, <1>4, PublishWithin, PlayPromptWithin, ReturnToMenuWithin,
       CollectDigitWithin, ScheduleBranchWithin, RecordMessageWithin, ExternalCallWithin DEF Next

BoundInv == PathInv /\ Paid /\ Within

\* The time ahead and the time spent never exceed the budget.
LEMMA BoundIsKept == Spec => []BoundInv
  <1>1. Init => BoundInv
    <2> SUFFICES ASSUME Init PROVE BoundInv
      OBVIOUS
    <2>1. PathInv
      BY InitPath
    <2>2. Paid /\ Within
      BY DEF Init, Paid, Within, Running, Started
    <2> QED
      BY <2>1, <2>2 DEF BoundInv
  <1>2. BoundInv /\ [Next]_vars => BoundInv'
    BY NextPath, NextPaid, NextWithin DEF BoundInv
  <1> QED
    BY <1>1, <1>2, PTL DEF Spec

\* The compiler's bound is a bound but for the two allowances it does not make: a call spends no
\* more automated time than maximum_cost says, one recording more for each that was spoiled, and
\* for each external call beyond its answer and watchdogs the difference to the sum of the waits
\* of the engine and the helper; the interpreter's loop never runs out of turns (compile_flow_v3,
\* compile_flow_v4, RunConfiguredProgramV2, ExecuteExternalCall).
THEOREM BoundIsABound == Spec => []BoundHolds
  <1>1. BoundInv => BoundHolds
    BY PaidIsEnough DEF BoundInv, BoundHolds, Within, Granted
  <1> QED
    BY <1>1, BoundIsKept, PTL

-----------------------------------------------------------------------------
\* What the tablet's walk notes when it goes along an edge of a block.
Arrival(d, p, e) ==
    [via |-> IF e \in DOMAIN d[p].keys THEN "digit" ELSE e, pc |-> Pc(d, Append(p, e))]

\* The walk of the tablet that ends at a block of the drawing.
Stop(d, p, k) ==
    IF k = 1 THEN [via |-> "entry", pc |-> 0] ELSE Arrival(d, Up(p, k - 2), p[k - 1])
Walk(d, p) == [k \in 1 .. Len(p) + 1 |-> Stop(d, p, k)]

\* The edges of an instruction are those of its block.
LEMMA EdgesOfBlock ==
    ASSUME NEW d, Sound(d), NEW p \in DOMAIN d
    PROVE  EdgesOf(Instruction(d, p)) = {Arrival(d, p, e) : e \in Edges(d[p])}
  <1> DEFINE b == d[p]
             i == Instruction(d, p)
             Digits == {[via |-> "digit", pc |-> n] : n \in Elements(i.branches)}
             Sides == {[via |-> e, pc |-> i.to[e]] : e \in DOMAIN i.to}
  <1>1. IsBlock(b) /\ BlockComplete(b)
    BY SoundPositions
  <1>2. Digits = {Arrival(d, p, e) : e \in DOMAIN b.keys}
    <2>1. DOMAIN i.branches = Elements(b.keys)
      BY InstructionFields
    <2>2. ASSUME NEW e \in DOMAIN b.keys PROVE i.branches[b.keys[e]] = Pc(d, Append(p, e))
      <3>1. b.type = "collect_digit"
        BY <1>1 DEF IsBlock
      <3> QED
        BY <3>1, BranchOfKey
    <2>3. Elements(i.branches) = {Pc(d, Append(p, e)) : e \in DOMAIN b.keys}
      <3>1. Elements(i.branches) = {i.branches[k] : k \in Elements(b.keys)}
        BY <2>1 DEF Elements
      <3>2. Elements(b.keys) = {b.keys[e] : e \in DOMAIN b.keys}
        BY DEF Elements
      <3> HIDE DEF i
      <3> QED
        BY <2>2, <3>1, <3>2
    <2>4. \A e \in DOMAIN b.keys : Arrival(d, p, e) = [via |-> "digit", pc |-> Pc(d, Append(p, e))]
      BY DEF Arrival
    <2> HIDE DEF i, b
    <2> QED
      BY <2>3, <2>4
  <1>3. Sides = {Arrival(d, p, e) : e \in Elements(Owned[b.type])}
    <2>1. /\ DOMAIN i.to = Elements(Owned[b.type])
          /\ \A e \in Elements(Owned[b.type]) : i.to[e] = Pc(d, Append(p, e))
      BY InstructionFields
    <2>2. \A e \in Elements(Owned[b.type]) : e \notin DOMAIN b.keys
      BY <1>1 DEF IsBlock
    <2>3. \A e \in Elements(Owned[b.type]) : Arrival(d, p, e) = [via |-> e, pc |-> i.to[e]]
      BY <2>1, <2>2 DEF Arrival
    <2> HIDE DEF i, b
    <2> QED
      BY <2>1, <2>3
  <1>4. EdgesOf(i) = Digits \cup Sides
    BY DEF EdgesOf
  <1> HIDE DEF i, Digits, Sides
  <1> QED
    BY <1>2, <1>3, <1>4 DEF Edges, i

\* A block other than the root stands behind an edge of the block above.
LEMMA BlockAbove ==
    ASSUME NEW d, Sound(d), NEW p \in DOMAIN d, NEW n \in 1 .. Len(p)
    PROVE  /\ Up(p, n - 1) \in DOMAIN d /\ Len(Up(p, n - 1)) = n - 1
           /\ p[n] \in Edges(d[Up(p, n - 1)]) /\ p[n] \in STRING
           /\ Append(Up(p, n - 1), p[n]) = Up(p, n)
  <1>1. p \in Seq(STRING) /\ Len(p) \in Nat /\ n - 1 \in Nat /\ n \in Nat /\ n <= Len(p)
    BY SoundPositions DEF Position
  <1>2. Up(p, n - 1) \in DOMAIN d /\ p[n] \in Edges(d[Up(p, n - 1)]) /\ p[n] \in STRING
    BY <1>1, SoundPositions
  <1>3. /\ Up(p, n - 1) \in Seq(STRING) /\ Len(Up(p, n - 1)) = n - 1
        /\ \A i \in 1 .. n - 1 : Up(p, n - 1)[i] = p[i]
    BY <1>1 DEF Up
  <1>4. /\ Up(p, n) \in Seq(STRING) /\ Len(Up(p, n)) = n
        /\ \A i \in 1 .. n : Up(p, n)[i] = p[i]
    BY <1>1 DEF Up
  <1> DEFINE q == Append(Up(p, n - 1), p[n])
  <1>5. q \in Seq(STRING) /\ Len(q) = n /\ q[n] = p[n] /\ \A i \in 1 .. n - 1 : q[i] = p[i]
    BY <1>1, <1>2, <1>3
  <1>6. \A i \in 1 .. n : q[i] = Up(p, n)[i]
    BY <1>1, <1>4, <1>5
  <1>7. q = Up(p, n)
    BY <1>1, <1>4, <1>5, <1>6, SeqEqual
  <1> QED
    BY <1>2, <1>3, <1>7

\* The walk to a block passes the blocks above it.
LEMMA WalkPasses ==
    ASSUME NEW d, Sound(d), NEW p \in DOMAIN d
    PROVE  /\ Len(Walk(d, p)) = Len(p) + 1
           /\ \A k \in 1 .. Len(p) + 1 :
                /\ Up(p, k - 1) \in DOMAIN d /\ Walk(d, p)[k].pc = Pc(d, Up(p, k - 1))
                /\ Tape(d)[Walk(d, p)[k].pc] = Instruction(d, Up(p, k - 1))
           /\ Last(Walk(d, p)) = Pc(d, p)
  <1>1. p \in Position /\ Len(p) \in Nat /\ Len(p) + 1 \in Nat
    BY SoundPositions
  <1>2. Len(Walk(d, p)) = Len(p) + 1
    BY <1>1 DEF Walk
  <1>3. ASSUME NEW k \in 1 .. Len(p) + 1
        PROVE  /\ Up(p, k - 1) \in DOMAIN d /\ Walk(d, p)[k].pc = Pc(d, Up(p, k - 1))
               /\ Tape(d)[Walk(d, p)[k].pc] = Instruction(d, Up(p, k - 1))
    <2>1. Walk(d, p)[k] = Stop(d, p, k)
      BY <1>1 DEF Walk
    <2>2. CASE k = 1
      <3>1. Up(p, 0) \in Seq(STRING) /\ Len(Up(p, 0)) = 0
        BY <1>1 DEF Up, Position
      <3>2. Up(p, 0) = <<>>
        BY <3>1, EmptySeq
      <3>3. <<>> \in DOMAIN d /\ Pc(d, <<>>) = 0
        BY PcOfRoot
      <3>4. Stop(d, p, k).pc = 0
        BY <2>2 DEF Stop
      <3>5. Up(p, k - 1) = <<>>
        BY <2>2, <3>2
      <3> QED
        BY <2>1, <3>3, <3>4, <3>5, TapeOfBlock
    <2>3. CASE k # 1
      <3>1. k - 1 \in 1 .. Len(p) /\ (k - 1) - 1 = k - 2
        BY <1>1, <2>3
      <3>2. Append(Up(p, k - 2), p[k - 1]) = Up(p, k - 1)
        BY <3>1, BlockAbove
      <3>3. Stop(d, p, k).pc = Pc(d, Up(p, k - 1))
        BY <2>3, <3>2 DEF Stop, Arrival
      <3>4. Up(p, k - 1) \in DOMAIN d
        <4>1. CASE k - 1 = Len(p)
          BY <1>1, <4>1, UpAll
        <4>2. CASE k - 1 # Len(p)
          <5>1. k \in 1 .. Len(p)
            BY <1>1, <4>2
          <5> QED
            BY <5>1, BlockAbove
        <4> QED
          BY <4>1, <4>2
      <3> QED
        BY <2>1, <3>3, <3>4, TapeOfBlock
    <2> QED
      BY <2>2, <2>3
  <1>4. Last(Walk(d, p)) = Pc(d, p)
    <2>1. Len(p) + 1 \in 1 .. Len(p) + 1 /\ (Len(p) + 1) - 1 = Len(p)
      BY <1>1
    <2>2. Walk(d, p)[Len(p) + 1].pc = Pc(d, Up(p, Len(p)))
      BY <1>3, <2>1
    <2> QED
      BY <1>1, <1>2, <2>2, UpAll DEF Last
  <1> QED
    BY <1>2, <1>3, <1>4

\* One more edge: the walk grows by the arrival behind it.
LEMMA WalkGrows ==
    ASSUME NEW d, Sound(d), NEW p \in DOMAIN d, NEW e \in STRING
    PROVE  Walk(d, Append(p, e)) = Append(Walk(d, p), Arrival(d, p, e))
  <1> DEFINE q == Append(p, e)
             n == Len(p)
             S == {Stop(d, p, k) : k \in 1 .. n + 1} \cup {Stop(d, q, k) : k \in 1 .. n + 2}
                    \cup {Arrival(d, p, e)}
  <1>1. p \in Seq(STRING) /\ n \in Nat /\ p \in Position
    BY SoundPositions DEF Position
  <1>2. /\ q \in Seq(STRING) /\ Len(q) = n + 1 /\ q[n + 1] = e
        /\ \A k \in 1 .. n : q[k] = p[k]
    BY <1>1
  <1> HIDE DEF q
  <1>3. ASSUME NEW k \in 0 .. n PROVE Up(q, k) = Up(p, k)
    <2>1. k \in Nat /\ k <= Len(p) /\ k <= Len(q) /\ q \in Position
      BY <1>1, <1>2 DEF Position
    <2>2. \A j \in 1 .. k : q[j] = p[j]
      BY <1>1, <1>2
    <2> QED
      BY <1>1, <2>1, <2>2, UpAgrees
  <1>4. ASSUME NEW k \in 1 .. n + 1 PROVE Stop(d, q, k) = Stop(d, p, k)
    <2>1. CASE k = 1
      BY <2>1 DEF Stop
    <2>2. CASE k # 1
      <3>1. k - 2 \in 0 .. n /\ k - 1 \in 1 .. n
        BY <1>1, <2>2
      <3>2. Up(q, k - 2) = Up(p, k - 2) /\ q[k - 1] = p[k - 1]
        BY <1>2, <1>3, <3>1
      <3> QED
        BY <2>2, <3>2 DEF Stop
    <2> QED
      BY <2>1, <2>2
  <1>5. Stop(d, q, n + 2) = Arrival(d, p, e)
    <2>1. (n + 2) - 2 = n /\ (n + 2) - 1 = n + 1 /\ n + 2 # 1 /\ n \in 0 .. n
      BY <1>1
    <2>2. Up(q, n) = p
      BY <1>1, <1>3, <2>1, UpAll
    <2> QED
      BY <1>2, <2>1, <2>2 DEF Stop
  <1> DEFINE w == Walk(d, p)
             a == Arrival(d, p, e)
             W == Walk(d, q)
  <1>6. w = [k \in 1 .. n + 1 |-> Stop(d, p, k)] /\ W = [k \in 1 .. n + 2 |-> Stop(d, q, k)]
    <2>1. Len(q) + 1 = n + 2
      BY <1>1, <1>2
    <2> QED
      BY <2>1 DEF Walk
  <1>7. w \in Seq(S) /\ W \in Seq(S) /\ a \in S
    <2>1. \A k \in 1 .. n + 1 : Stop(d, p, k) \in S
      OBVIOUS
    <2>2. \A k \in 1 .. n + 2 : Stop(d, q, k) \in S
      OBVIOUS
    <2>3. a \in S
      OBVIOUS
    <2> HIDE DEF S, w, W, a
    <2> QED
      BY <1>1, <1>6, <2>1, <2>2, <2>3
  <1>8. Len(w) = n + 1 /\ Len(W) = n + 2
    BY <1>1, <1>6
  <1> HIDE DEF S, w, W, a
  <1>9. /\ Append(w, a) \in Seq(S) /\ Len(Append(w, a)) = n + 2 /\ Append(w, a)[n + 2] = a
        /\ \A k \in 1 .. n + 1 : Append(w, a)[k] = w[k]
    BY <1>1, <1>7, <1>8
  <1>10. \A k \in 1 .. n + 2 : W[k] = Append(w, a)[k]
    <2> SUFFICES ASSUME NEW k \in 1 .. n + 2 PROVE W[k] = Append(w, a)[k]
      OBVIOUS
    <2>1. CASE k = n + 2
      BY <1>1, <1>5, <1>6, <1>9, <2>1 DEF a
    <2>2. CASE k # n + 2
      <3>1. k \in 1 .. n + 1
        BY <1>1, <2>2
      <3> QED
        BY <1>4, <1>6, <1>9, <3>1
    <2> QED
      BY <2>1, <2>2
  <1>11. W = Append(w, a)
    BY <1>7, <1>8, <1>9, <1>10, SeqEqual
  <1> QED
    BY <1>11 DEF w, W, a, q

-----------------------------------------------------------------------------
\* The walks of a length, from those one shorter.
Walked(tape, walks, n) ==
    IF n = 1 THEN {<<[via |-> "entry", pc |-> 0]>>}
    ELSE UNION {{Append(w, e) : e \in EdgesOf(tape[w[n - 1].pc])} : w \in walks[n - 1]}
Walks(tape) == CHOOSE f : f = [n \in 1 .. MaximumDepth + 1 |-> Walked(tape, f, n)]
WalksTo(d, n) == {Walk(d, p) : p \in {q \in DOMAIN d : Len(q) = n - 1}}

\* The walk of the entry.
LEMMA FirstWalk ==
    ASSUME NEW d, Sound(d), NEW f
    PROVE  Walked(Tape(d), f, 1) = WalksTo(d, 1)
  <1>1. <<>> \in DOMAIN d /\ Len(<<>>) = 0
    BY PcOfRoot
  <1>2. {q \in DOMAIN d : Len(q) = 1 - 1} = {<<>>}
    <2>1. ASSUME NEW q \in DOMAIN d, Len(q) = 0 PROVE q = <<>>
      BY <2>1, SoundPositions, EmptySeq DEF Position
    <2> QED
      BY <1>1, <2>1
  <1>3. Walk(d, <<>>) = <<[via |-> "entry", pc |-> 0]>>
    <2>1. Walk(d, <<>>) = [k \in 1 .. 1 |-> Stop(d, <<>>, k)]
      BY <1>1 DEF Walk
    <2>2. Stop(d, <<>>, 1) = [via |-> "entry", pc |-> 0]
      BY DEF Stop
    <2>3. PICK a : a = [via |-> "entry", pc |-> 0]
      OBVIOUS
    <2>4. \A k \in 1 .. 1 : Stop(d, <<>>, k) = a
      BY <2>2, <2>3
    <2>5. Walk(d, <<>>) = [k \in 1 .. 1 |-> a]
      BY <2>1, <2>4
    <2>6. [k \in 1 .. 1 |-> a] = <<a>>
      OBVIOUS
    <2> QED
      BY <2>3, <2>5, <2>6
  <1> QED
    BY <1>2, <1>3 DEF Walked, WalksTo

\* The walks of a length, if those one shorter are known.
LEMMA LongerWalk ==
    ASSUME NEW d, Sound(d), NEW f, NEW n \in Nat, n > 1, f[n - 1] = WalksTo(d, n - 1)
    PROVE  Walked(Tape(d), f, n) = WalksTo(d, n)
  <1> DEFINE Here1 == {q \in DOMAIN d : Len(q) = (n - 1) - 1}
             Grown(w) == {Append(w, e) : e \in EdgesOf(Tape(d)[w[n - 1].pc])}
  <1>1. Walked(Tape(d), f, n) = UNION {Grown(w) : w \in f[n - 1]}
    BY DEF Walked
  <1>2. ASSUME NEW p \in Here1
        PROVE  Grown(Walk(d, p)) = {Walk(d, Append(p, e)) : e \in Edges(d[p])}
    <2>1. p \in DOMAIN d /\ p \in Position /\ Len(p) + 1 = n - 1 /\ Len(p) \in Nat
      BY SoundPositions
    <2>2. n - 1 \in 1 .. Len(p) + 1 /\ (n - 1) - 1 = Len(p)
      BY <2>1
    <2>3. Tape(d)[Walk(d, p)[n - 1].pc] = Instruction(d, Up(p, Len(p)))
      BY <2>1, <2>2, WalkPasses
    <2>4. Up(p, Len(p)) = p
      BY <2>1, UpAll
    <2>5. EdgesOf(Tape(d)[Walk(d, p)[n - 1].pc]) = {Arrival(d, p, e) : e \in Edges(d[p])}
      BY <2>1, <2>3, <2>4, EdgesOfBlock
    <2>6. ASSUME NEW e \in Edges(d[p])
          PROVE  Walk(d, Append(p, e)) = Append(Walk(d, p), Arrival(d, p, e))
      <3>1. e \in STRING
        <4>1. IsBlock(d[p])
          BY <2>1, SoundPositions
        <4>2. Append(p, e) \in Seq(STRING)
          BY <2>1, BehindEdge, SoundPositions DEF Position
        <4>3. Len(p) + 1 \in 1 .. Len(Append(p, e)) /\ Append(p, e)[Len(p) + 1] = e
          BY <2>1 DEF Position
        <4> QED
          BY <4>2, <4>3, ElementOfSeq
      <3> QED
        BY <2>1, <3>1, WalkGrows
    <2>7. Grown(Walk(d, p)) = {Append(Walk(d, p), Arrival(d, p, e)) : e \in Edges(d[p])}
      BY <2>5
    <2> HIDE DEF Grown
    <2> QED
      BY <2>6, <2>7
  <1>3. f[n - 1] = {Walk(d, p) : p \in Here1}
    BY DEF WalksTo
  <1>4. \A x : x \in Walked(Tape(d), f, n) <=>
                \E p \in Here1 : \E e \in Edges(d[p]) : x = Walk(d, Append(p, e))
    <2> HIDE DEF Grown, Here1
    <2>1. UNION {Grown(w) : w \in f[n - 1]} = UNION {Grown(Walk(d, p)) : p \in Here1}
      BY <1>3
    <2> QED
      BY <1>1, <1>2, <2>1
  <1>5. ASSUME NEW q \in DOMAIN d
        PROVE  Len(q) = n - 1 <=> \E p \in Here1 : \E e \in Edges(d[p]) : q = Append(p, e)
    <2>1. q \in Position /\ Len(q) \in Nat
      BY SoundPositions
    <2>2. ASSUME Len(q) = n - 1 PROVE \E p \in Here1 : \E e \in Edges(d[p]) : q = Append(p, e)
      <3>1. n - 1 \in 1 .. Len(q)
        BY <2>2
      <3> DEFINE p == Up(q, (n - 1) - 1)
      <3>2. p \in DOMAIN d /\ Len(p) = (n - 1) - 1 /\ q[n - 1] \in Edges(d[p])
            /\ Append(p, q[n - 1]) = Up(q, n - 1)
        BY <3>1, BlockAbove
      <3>3. Up(q, n - 1) = q
        BY <2>1, <2>2, UpAll
      <3> QED
        BY <3>2, <3>3
    <2>3. ASSUME NEW p \in Here1, NEW e \in Edges(d[p]), q = Append(p, e) PROVE Len(q) = n - 1
      BY <2>3, SoundPositions DEF Position
    <2> QED
      BY <2>2, <2>3
  <1>6. \A p \in Here1 : \A e \in Edges(d[p]) : Append(p, e) \in DOMAIN d
    BY BehindEdge
  <1>7. \A x : x \in WalksTo(d, n) <=> \E q \in DOMAIN d : Len(q) = n - 1 /\ x = Walk(d, q)
    BY DEF WalksTo
  <1> HIDE DEF Here1
  <1>8. \A x : x \in Walked(Tape(d), f, n) <=> x \in WalksTo(d, n)
    BY <1>4, <1>5, <1>6, <1>7
  <1> QED
    BY <1>8

\* The walks of the tablet lead to the blocks of the drawing.
LEMMA WalksAreBlocks ==
    ASSUME NEW d, Sound(d)
    PROVE  Visits(Tape(d)) = {Walk(d, p) : p \in DOMAIN d}
  <1> DEFINE D == 1 .. MaximumDepth + 1
             g == [n \in D |-> WalksTo(d, n)]
             f == Walks(Tape(d))
  <1>1. MaximumDepth \in Nat
    BY FlowAssumption
  <1>2. g = [n \in D |-> Walked(Tape(d), g, n)]
    <2>1. ASSUME NEW n \in D PROVE Walked(Tape(d), g, n) = WalksTo(d, n)
      <3>1. CASE n = 1
        BY <3>1, FirstWalk
      <3>2. CASE n # 1
        <4>1. n \in Nat /\ n > 1 /\ n - 1 \in D
          BY <1>1, <3>2
        <4>2. g[n - 1] = WalksTo(d, n - 1)
          BY <4>1
        <4> HIDE DEF g
        <4> QED
          BY <4>1, <4>2, LongerWalk
      <3> QED
        BY <3>1, <3>2
    <2>2. [n \in D |-> Walked(Tape(d), g, n)] = [n \in D |-> WalksTo(d, n)]
      BY <2>1
    <2> QED
      BY <2>2
  <1>3. f = [n \in D |-> Walked(Tape(d), f, n)]
    <2>1. \E h : h = [n \in D |-> Walked(Tape(d), h, n)]
      <3> HIDE DEF g
      <3> QED
        BY <1>2
    <2> QED
      BY <2>1 DEF Walks
  <1>4. \A n \in D : f[n] = Walked(Tape(d), f, n)
    <2>1. PICK k : k = f
      OBVIOUS
    <2>2. k = [n \in D |-> Walked(Tape(d), k, n)]
      BY <1>3, <2>1
    <2>3. \A n \in D : k[n] = Walked(Tape(d), k, n)
      <3> HIDE DEF D
      <3> QED
        BY <2>2
    <2> QED
      BY <2>1, <2>3
  <1> DEFINE Bad == {n \in D : f[n] # WalksTo(d, n)}
  <1> HIDE DEF f
  <1>5. ASSUME Bad # {} PROVE FALSE
    <2>1. PICK n \in Bad : \A k \in Bad : n <= k
      <3>1. Bad \in SUBSET Nat
        BY <1>1
      <3> HIDE DEF Bad
      <3> QED
        BY <1>5, <3>1, Least
    <2>2. n \in D /\ f[n] # WalksTo(d, n)
      BY <2>1
    <2>3. n # 1
      BY <1>4, <2>2, FirstWalk
    <2>4. n \in Nat /\ n > 1 /\ n - 1 \in D
      BY <1>1, <2>2, <2>3
    <2>5. n - 1 \notin Bad
      <3> HIDE DEF Bad
      <3> QED
        BY <2>1, <2>4
    <2>6. f[n - 1] = WalksTo(d, n - 1)
      BY <2>4, <2>5
    <2>7. Walked(Tape(d), f, n) = WalksTo(d, n)
      BY <2>4, <2>6, LongerWalk
    <2> QED
      BY <1>4, <2>2, <2>7
  <1>6. \A n \in D : f[n] = WalksTo(d, n)
    BY <1>5
  <1>7. Visits(Tape(d)) = UNION {f[n] : n \in D}
    BY DEF Visits, Walks, Walked, f
  <1>8. \A x : x \in Visits(Tape(d)) <=> \E n \in D : x \in WalksTo(d, n)
    <2> HIDE DEF D
    <2> QED
      BY <1>6, <1>7
  <1>9. \A p \in DOMAIN d : Len(p) + 1 \in D /\ Len(p) = (Len(p) + 1) - 1
    BY <1>1, SoundPositions DEF Sound, WellDrawn
  <1>10. \A x : x \in Visits(Tape(d)) <=> \E p \in DOMAIN d : x = Walk(d, p)
    <2> HIDE DEF D
    <2> QED
      BY <1>8, <1>9 DEF WalksTo
  <1> QED
    BY <1>10

\* A return of a drawing that passed the rules passes the tablet's check.
LEMMA ReturnIsOwn ==
    ASSUME NEW d, Sound(d), NEW p \in DOMAIN d, d[p].type = "return_to_menu"
    PROVE  OwnReturn(Tape(d), Walk(d, p))
  <1> DEFINE w == Walk(d, p)
             m == OwnerMenu(d, p)
             menus == {n \in 1 .. Len(w) - 1 : Tape(d)[w[n].pc].op = "collect_digit"}
  <1>1. p \in Position /\ Len(p) \in Nat /\ Len(w) - 1 = Len(p) /\ Len(w) = Len(p) + 1
    BY SoundPositions, WalkPasses
  <1>2. Menus(d, p) # {} /\ p[Len(m) + 1] # "on_return_limit"
    BY DEF Sound, WellDrawn, ReturnsToMenu, Typed
  <1>3. m \in Menus(d, p) /\ \A q \in Menus(d, p) : Len(q) <= Len(m)
    BY <1>2, OwnerIsMenu
  <1>4. /\ m \in DOMAIN d /\ d[m].type = "collect_digit" /\ Len(m) \in Nat /\ Len(m) < Len(p)
        /\ Up(p, Len(m)) = m
    BY <1>3, SoundPositions DEF Menus, Ancestors, Above
  <1>5. ASSUME NEW n \in 1 .. Len(p)
        PROVE  n \in menus <=> d[Up(p, n - 1)].type = "collect_digit"
    <2>1. n \in 1 .. Len(p) + 1
      BY <1>1
    <2>2. Tape(d)[w[n].pc] = Instruction(d, Up(p, n - 1))
      BY <2>1, WalkPasses
    <2>3. Tape(d)[w[n].pc].op = d[Up(p, n - 1)].type
      BY <2>2, InstructionFields
    <2> QED
      BY <1>1, <2>3
  <1>6. Len(m) + 1 \in menus
    <2>1. Len(m) + 1 \in 1 .. Len(p) /\ (Len(m) + 1) - 1 = Len(m)
      BY <1>1, <1>4
    <2> QED
      BY <1>4, <1>5, <2>1
  <1>7. \A n \in menus : n \in Nat /\ n <= Len(m) + 1
    <2> SUFFICES ASSUME NEW n \in menus PROVE n \in Nat /\ n <= Len(m) + 1
      OBVIOUS
    <2>1. n \in 1 .. Len(p) /\ n \in 1 .. Len(p) + 1
      BY <1>1
    <2>2. Up(p, n - 1) \in DOMAIN d /\ d[Up(p, n - 1)].type = "collect_digit"
          /\ Len(Up(p, n - 1)) = n - 1
      BY <1>5, <2>1, BlockAbove
    <2>3. Above(Up(p, n - 1), p)
      BY <1>1, <2>1, <2>2 DEF Above
    <2>4. n - 1 <= Len(m)
      BY <1>3, <2>2, <2>3 DEF Menus, Ancestors
    <2> QED
      BY <1>4, <2>1, <2>4
  <1>8. Max(menus) = Len(m) + 1
    <2> HIDE DEF menus
    <2>1. \A x \in menus : (\A y \in menus : x >= y) => x = Len(m) + 1
      BY <1>4, <1>6, <1>7
    <2>2. \A y \in menus : Len(m) + 1 >= y
      BY <1>4, <1>7
    <2> QED
      BY <1>6, <2>1, <2>2 DEF Max
  <1>9. Tape(d)[Last(w)].menu = Pc(d, m)
    <2>1. Tape(d)[Last(w)] = Instruction(d, p)
      BY WalkPasses, TapeOfBlock
    <2> QED
      BY <2>1, InstructionFields
  <1>10. w[Len(m) + 1].pc = Pc(d, m)
    <2>1. Len(m) + 1 \in 1 .. Len(p) + 1 /\ (Len(m) + 1) - 1 = Len(m)
      BY <1>1, <1>4
    <2>2. w[Len(m) + 1].pc = Pc(d, Up(p, (Len(m) + 1) - 1))
      BY <2>1, WalkPasses
    <2> QED
      BY <1>4, <2>1, <2>2
  <1>11. w[(Len(m) + 1) + 1].via # "on_return_limit"
    <2> DEFINE k == (Len(m) + 1) + 1
    <2>1. k \in 1 .. Len(p) + 1 /\ k # 1 /\ k - 1 = Len(m) + 1
      BY <1>1, <1>4
    <2>2. w[k] = Arrival(d, Up(p, k - 2), p[k - 1])
      BY <2>1 DEF Walk, Stop
    <2>3. p[k - 1] # "on_return_limit"
      BY <1>2, <2>1
    <2> HIDE DEF k, w
    <2> QED
      BY <2>2, <2>3 DEF Arrival, k
  <1> HIDE DEF w, m
  <1>12. menus # {} /\ Tape(d)[Last(w)].menu = w[Max(menus)].pc
         /\ w[Max(menus) + 1].via # "on_return_limit"
    BY <1>6, <1>8, <1>9, <1>10, <1>11
  <1> QED
    BY <1>12 DEF OwnReturn, w

\* A recording or an external call has been announced on the tablet's walk too.
LEMMA NoticeIsGiven ==
    ASSUME NEW v \in Versions, NEW d, Sound(d), NEW p \in DOMAIN d,
           d[p].type \in {"record_message", "external_call"},
           v = 2 => ValidV2(d), v = 3 => ValidV3(d), v = 4 => ValidV4(d)
    PROVE  NoticeGiven(v, Tape(d), Walk(d, p))
  <1> DEFINE w == Walk(d, p)
  <1>1. p \in Position /\ Len(p) \in Nat /\ Len(w) = Len(p) + 1
    BY SoundPositions, WalkPasses
  <1>2. v # 2
    BY DEF ValidV2, Typed
  <1>3. CASE v = 3
    <2>1. p \in Typed(d, {"record_message"})
      BY <1>3 DEF ValidV3, Typed
    <2>2. Len(p) > 0 /\ d[Up(p, Len(p) - 1)].type = "play_prompt"
      BY <1>3, <2>1 DEF ValidV3
    <2>3. Len(p) \in 1 .. Len(p) + 1 /\ Len(w) - 1 = Len(p) /\ Len(w) > 1
      BY <1>1, <2>2
    <2>4. Tape(d)[w[Len(p)].pc] = Instruction(d, Up(p, Len(p) - 1))
      BY <2>3, WalkPasses
    <2>5. Tape(d)[w[Len(w) - 1].pc].op = "play_prompt"
      BY <2>2, <2>3, <2>4, InstructionFields
    <2> HIDE DEF w
    <2> QED
      BY <1>3, <2>3, <2>5 DEF NoticeGiven, w
  <1>4. CASE v = 4
    <2>1. p \in Typed(d, {"record_message", "external_call"})
      BY DEF Typed
    <2>2. PICK q \in Ancestors(d, p) : d[q].prompt # None
      BY <1>4, <2>1 DEF ValidV4, PromptAvailable
    <2>3. q \in DOMAIN d /\ Len(q) \in Nat /\ Len(q) < Len(p) /\ Up(p, Len(q)) = q
      BY <2>2, SoundPositions DEF Ancestors, Above
    <2> DEFINE n == Len(q) + 1
    <2>4. n \in 1 .. Len(w) - 1 /\ n \in 1 .. Len(p) + 1 /\ n - 1 = Len(q)
      BY <1>1, <2>3
    <2>5. Tape(d)[w[n].pc] = Instruction(d, Up(p, n - 1))
      BY <2>4, WalkPasses
    <2>6. Tape(d)[w[n].pc].prompt # None
      BY <2>2, <2>3, <2>4, <2>5, InstructionFields
    <2> HIDE DEF w, n
    <2> QED
      BY <1>4, <2>4, <2>6 DEF NoticeGiven, w
  <1> QED
    BY <1>2, <1>3, <1>4 DEF Versions

\* What may be published passes the tablet's check.
LEMMA PublishedIsAccepted ==
    ASSUME NEW v \in Versions, NEW d \in Flows, NEW program0 \in Programs(v, d)
    PROVE  ProgramAccepted(program0)
  <1> DEFINE tape == Tape(d)
  <1>1. /\ Sound(d) /\ program0.tape = tape /\ program0.version = v
        /\ v = 2 => Typed(d, {"record_message", "external_call"}) = {}
        /\ v = 3 => Typed(d, {"external_call"}) = {}
    BY PublishedIsSound
  <1>2. /\ v = 2 => ValidV2(d) /\ program0.budget = 0
        /\ v = 3 => ValidV3(d) /\ program0.budget = MaximumCost(tape)
        /\ v = 4 => ValidV4(d) /\ program0.budget = MaximumCost(tape)
        /\ program0.budget <= MaximumSessionMs
    <2>1. CASE v = 2
      BY <2>1 DEF Programs, CompileFlow
    <2>2. CASE v = 3
      BY <2>2 DEF Programs, CompileFlowV3
    <2>3. CASE v = 4
      BY <2>3 DEF Programs, CompileFlowV4
    <2> QED
      BY <2>1, <2>2, <2>3 DEF Versions
  <1>3. Cardinality(DOMAIN tape) \in 1 .. MaximumBlocks
    <2>1. IsFiniteSet(DOMAIN tape) /\ 0 \in DOMAIN tape /\ Cardinality(DOMAIN tape) <= MaximumBlocks
      BY <1>1, TapeIsFinite DEF Sound, WellDrawn
    <2>2. Cardinality(DOMAIN tape) \in Nat /\ Cardinality(DOMAIN tape) # 0
      BY <2>1, FS_CardinalityType, FS_EmptySet
    <2> QED
      BY <2>1, <2>2, FlowAssumption
  <1>4. program0.budget \in 0 .. MaximumSessionMs
    <2>1. program0.budget \in Nat
      BY <1>1, <1>2, CostsAreNumbers DEF Versions
    <2> QED
      BY <1>2, <2>1, FlowAssumption
  <1>5. ASSUME NEW m \in DOMAIN tape, NEW n \in DOMAIN tape, tape[m].id = tape[n].id PROVE m = n
    <2>1. PICK p \in DOMAIN d : Pc(d, p) = m /\ tape[m] = Instruction(d, p)
      BY <1>1, AddressOfBlock
    <2>2. PICK q \in DOMAIN d : Pc(d, q) = n /\ tape[n] = Instruction(d, q)
      BY <1>1, AddressOfBlock
    <2>3. d[p].id = d[q].id
      BY <1>5, <2>1, <2>2, InstructionFields
    <2> QED
      BY <1>1, <2>1, <2>2, <2>3 DEF Sound, WellDrawn
  <1>6. ASSUME NEW n \in DOMAIN tape
        PROVE  /\ Targets(tape[n]) \subseteq DOMAIN tape
               /\ tape[n].op = "external_call" => v = 4
    <2>1. Targets(tape[n]) \subseteq DOMAIN tape
      BY <1>1, WaysOnTape DEF Targets, Elements
    <2>2. PICK p \in DOMAIN d : tape[n] = Instruction(d, p)
      BY <1>1, AddressOfBlock
    <2>3. tape[n].op = d[p].type
      BY <2>2, InstructionFields
    <2> QED
      BY <1>1, <2>1, <2>3 DEF Typed, Versions
  <1>7. Visits(tape) = {Walk(d, p) : p \in DOMAIN d}
    BY <1>1, WalksAreBlocks
  <1>8. ASSUME NEW p \in DOMAIN d
        PROVE  /\ Len(Walk(d, p)) <= MaximumDepth
               /\ \A q \in DOMAIN d : Last(Walk(d, q)) = Last(Walk(d, p)) => q = p
               /\ tape[Last(Walk(d, p))].op = "return_to_menu" => OwnReturn(tape, Walk(d, p))
               /\ tape[Last(Walk(d, p))].op \in {"record_message", "external_call"}
                     => NoticeGiven(v, tape, Walk(d, p))
    <2>1. Len(p) \in Nat /\ Len(p) < MaximumDepth /\ MaximumDepth \in Nat
      BY <1>1, SoundPositions, FlowAssumption DEF Sound, WellDrawn
    <2>2. \A q \in DOMAIN d : Last(Walk(d, q)) = Pc(d, q)
      BY <1>1, WalkPasses
    <2>3. Len(Walk(d, p)) = Len(p) + 1
      BY <1>1, WalkPasses
    <2>4. tape[Last(Walk(d, p))].op = d[p].type
      BY <1>1, <2>2, TapeOfBlock, InstructionFields
    <2>5. \A q \in DOMAIN d : Last(Walk(d, q)) = Last(Walk(d, p)) => q = p
      BY <1>1, <2>2, PcTellsBlock
    <2>6. d[p].type = "return_to_menu" => OwnReturn(tape, Walk(d, p))
      BY <1>1, ReturnIsOwn
    <2>7. d[p].type \in {"record_message", "external_call"} => NoticeGiven(v, tape, Walk(d, p))
      BY <1>1, <1>2, NoticeIsGiven
    <2> QED
      BY <2>1, <2>3, <2>4, <2>5, <2>6, <2>7
  <1>9. ASSUME NEW n \in DOMAIN tape PROVE \E w \in Visits(tape) : Last(w) = n
    <2>1. PICK p \in DOMAIN d : Pc(d, p) = n
      BY <1>1, AddressOfBlock
    <2> QED
      BY <1>1, <1>7, <2>1, WalkPasses
  <1> HIDE DEF tape
  <1>10. \A w \in Visits(tape) :
            /\ Len(w) <= MaximumDepth
            /\ \A u \in Visits(tape) : Last(u) = Last(w) => u = w
            /\ tape[Last(w)].op = "return_to_menu" => OwnReturn(tape, w)
            /\ tape[Last(w)].op \in {"record_message", "external_call"} => NoticeGiven(v, tape, w)
    BY <1>7, <1>8
  <1> QED
    BY <1>1, <1>3, <1>4, <1>5, <1>6, <1>9, <1>10 DEF ProgramAccepted

\* What the server publishes, the tablet takes: no program that passed the validator and was
\* compiled is refused by the app's and the helper's check (appendProgram, ValidateProgramV2).
THEOREM TabletTakesWhatIsPublished == Spec => []AcceptedByTablet
  <1>1. Init => AcceptedByTablet
    BY DEF Init, AcceptedByTablet
  <1>2. AcceptedByTablet /\ [Next]_vars => AcceptedByTablet'
    <2> SUFFICES ASSUME AcceptedByTablet, [Next]_vars PROVE AcceptedByTablet'
      OBVIOUS
    <2>1. ASSUME NEW v \in Versions, NEW d \in Flows, Publish(v, d) PROVE AcceptedByTablet'
      <3>1. PICK p \in Programs(v, d) : outcome' = IF ProgramAccepted(p) THEN "running" ELSE "refused"
        BY <2>1 DEF Publish
      <3>2. ProgramAccepted(p)
        BY PublishedIsAccepted
      <3> QED
        BY <3>1, <3>2 DEF AcceptedByTablet
    <2>2. CASE CutShort \/ PlayPrompt \/ ReturnToMenu \/ EndCall
      BY <2>2 DEF AcceptedByTablet, CutShort, PlayPrompt, ReturnToMenu, EndCall
    <2>3. CASE \E event \in {"0", "1", "2", "timeout"} : CollectDigit(event)
      BY <2>3 DEF AcceptedByTablet, CollectDigit
    <2>4. CASE \E e \in Elements(Owned["schedule_branch"]) : ScheduleBranch(e)
      BY <2>4 DEF AcceptedByTablet, ScheduleBranch
    <2>5. CASE \E result \in {"recorded", "unavailable", "spoiled", "hangup"} : RecordMessage(result)
      BY <2>5 DEF AcceptedByTablet, RecordMessage
    <2>6. CASE \E e \in Elements(Owned["external_call"]) : ExternalCall(e)
      BY <2>6 DEF AcceptedByTablet, ExternalCall
    <2>7. CASE \E end \in {"remote_hangup", "broken_off"} : Interrupted(end)
      BY <2>7 DEF AcceptedByTablet, Interrupted
    <2>8. CASE UNCHANGED vars
      BY <2>8 DEF AcceptedByTablet, vars
    <2> QED
      BY <2>1, <2>2, <2>3, <2>4, <2>5, <2>6, <2>7, <2>8 DEF Next
  <1> QED
    BY <1>1, <1>2, PTL DEF Spec
=============================================================================
