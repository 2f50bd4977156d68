---------------------------- MODULE ChainProofs -----------------------------
(***************************************************************************)
(* The blockchain table is well linked, append-only and implements the     *)
(* abstract ledger, for any number of concurrent requests; and what is     *)
(* read of it holds: the reports of any number of readers, the verdict of  *)
(* validate_chain on a table somebody changed, the listings, and the       *)
(* Merkle roots, which tell any two ranges of the chain apart.             *)
(***************************************************************************)
EXTENDS Explorer, FiniteSetTheorems, FunctionTheorems, WellFoundedInduction, TLAPS

\* A digest extended with a block's fields is a digest.
LEMMA HashType ==
    ASSUME NEW i \in Nat, NEW p \in Digest, NEW d \in Content
    PROVE  Hash(i, p, d) \in Digest
<1>1. Canonical[d] \in Text
  BY DEF Text
<1>. QED  BY <1>1 DEF Hash, Digest

LEMMA ZeroType == ZeroHash \in Digest
BY DEF ZeroHash, Digest

\* Inserting a row under a free number keeps the table a table and leaves
\* the rows that were there alone.
LEMMA InsertRow ==
    ASSUME IsTable, NEW n \in Nat, NEW row \in Block, n \notin DOMAIN blocks,
           blocks' = With(n, row)
    PROVE  /\ IsTable'
           /\ DOMAIN blocks' = DOMAIN blocks \union {n}
           /\ blocks'[n] = row
           /\ \A i \in DOMAIN blocks : blocks'[i] = blocks[i]
<1>1. DOMAIN blocks' = DOMAIN blocks \union {n}
  BY DEF With
<1>2. blocks'[n] = row /\ \A i \in DOMAIN blocks : blocks'[i] = blocks[i]
  BY DEF With
<1>3. blocks' = [i \in DOMAIN blocks' |-> blocks'[i]]
  BY DEF With
<1>4. DOMAIN blocks' \subseteq Nat
  BY <1>1 DEF IsTable
<1>5. \A i \in DOMAIN blocks' : blocks'[i] \in Block
  BY <1>1, <1>2 DEF IsTable
<1> QED
  BY <1>1, <1>2, <1>3, <1>4, <1>5 DEF IsTable

\* A freshly built block is a row of the table.
LEMMA NewBlockType ==
    ASSUME NEW i \in Nat, NEW p \in Digest, NEW d \in Content
    PROVE  /\ NewBlock(i, p, d) \in Block
           /\ NewBlock(i, p, d).prev = p
           /\ NewBlock(i, p, d).data = d
           /\ NewBlock(i, p, d).hash = Hash(i, p, d)
BY HashType DEF NewBlock, Block

LEMMA InitInv == Init => ChainInv
<1> SUFFICES ASSUME Init PROVE ChainInv
  OBVIOUS
<1>1. ZeroHash \in Digest
  BY ZeroType
<1>2. DOMAIN blocks = {}
  BY DEF Init
<1>3. IsTable
  BY <1>2 DEF Init, IsTable
<1>4. TypeOK
  BY <1>1, <1>3 DEF Init, TypeOK, Content
<1>5. Contiguous /\ Hashed /\ Linked /\ GenesisFirst
  BY <1>2 DEF Contiguous, Hashed, Linked, GenesisFirst
<1>6. TipCommitted /\ CallShape /\ AnswersAreOwnBlocks
  BY DEF Init, TipCommitted, CallShape, AnswersAreOwnBlocks, Appended
<1> QED
  BY <1>4, <1>5, <1>6 DEF ChainInv

\* The table part of the invariant depends on the table alone.
TableInv == IsTable /\ Contiguous /\ Hashed /\ Linked /\ GenesisFirst

LEMMA TableUnchanged ==
    ASSUME TableInv, UNCHANGED blocks
    PROVE  TableInv'
BY DEF TableInv, IsTable, Contiguous, Hashed, Linked, GenesisFirst

\* Without a genesis block there is no block.
LEMMA EmptyWithoutGenesis ==
    ASSUME TableInv, 0 \notin DOMAIN blocks
    PROVE  DOMAIN blocks = {}
<1> SUFFICES ASSUME NEW i \in DOMAIN blocks PROVE FALSE
  OBVIOUS
<1>1. i \in Nat /\ 0..i \subseteq DOMAIN blocks
  BY DEF TableInv, IsTable, Contiguous
<1>2. 0 \in 0..i
  BY <1>1
<1> QED BY <1>1, <1>2

\* When the number after t is free, the numbers in use are those up to t.
LEMMA ContiguousDomain ==
    ASSUME TableInv, NEW t \in Nat, t \in DOMAIN blocks, t + 1 \notin DOMAIN blocks
    PROVE  DOMAIN blocks = 0..t
<1>1. 0..t \subseteq DOMAIN blocks
  BY DEF TableInv, Contiguous
<1>2. ASSUME NEW j \in DOMAIN blocks PROVE j \in 0..t
  <2>1. j \in Nat /\ 0..j \subseteq DOMAIN blocks
    BY DEF TableInv, IsTable, Contiguous
  <2>2. t + 1 \notin 0..j
    BY <2>1
  <2> QED BY <2>1, <2>2
<1> QED BY <1>1, <1>2

\* The two INSERTs, seen from the table: block 0 into an empty slot, or a
\* block linked to the row under the number before it.
LEMMA InsertGenesis ==
    ASSUME TableInv, 0 \notin DOMAIN blocks,
           blocks' = With(0, NewBlock(0, ZeroHash, Genesis))
    PROVE  TableInv'
<1>1. /\ NewBlock(0, ZeroHash, Genesis) \in Block
      /\ NewBlock(0, ZeroHash, Genesis).prev = ZeroHash
      /\ NewBlock(0, ZeroHash, Genesis).data = Genesis
      /\ NewBlock(0, ZeroHash, Genesis).hash = Hash(0, ZeroHash, Genesis)
  <2>1. 0 \in Nat /\ Genesis \in Content
    BY DEF Content
  <2> QED BY <2>1, ZeroType, NewBlockType
<1>2. DOMAIN blocks = {}
  BY EmptyWithoutGenesis
<1>3. /\ IsTable'
      /\ DOMAIN blocks' = {0}
      /\ blocks'[0] = NewBlock(0, ZeroHash, Genesis)
  BY <1>1, <1>2, InsertRow DEF TableInv
<1> QED
  BY <1>1, <1>3 DEF TableInv, Contiguous, Hashed, Linked, GenesisFirst

LEMMA InsertNext ==
    ASSUME TableInv, NEW t \in Nat, t \in DOMAIN blocks, t + 1 \notin DOMAIN blocks,
           NEW d \in Content,
           blocks' = With(t + 1, NewBlock(t + 1, blocks[t].hash, d))
    PROVE  /\ TableInv'
           /\ DOMAIN blocks = 0..t
           /\ DOMAIN blocks' = 0..(t + 1)
           /\ \A i \in 0..t : blocks'[i] = blocks[i]
           /\ blocks'[t + 1].data = d
<1> DEFINE new == NewBlock(t + 1, blocks[t].hash, d)
<1>1. /\ new \in Block
      /\ new.prev = blocks[t].hash
      /\ new.data = d
      /\ new.hash = Hash(t + 1, blocks[t].hash, d)
  BY NewBlockType DEF TableInv, IsTable, Block
<1>2. DOMAIN blocks = 0..t
  BY ContiguousDomain
<1>insert. IsTable /\ t + 1 \in Nat /\ blocks' = With(t + 1, new)
  BY DEF TableInv
<1> HIDE DEF new
<1>3. /\ IsTable'
      /\ DOMAIN blocks' = DOMAIN blocks \union {t + 1}
      /\ blocks'[t + 1] = new
      /\ \A i \in DOMAIN blocks : blocks'[i] = blocks[i]
  BY <1>1, <1>insert, InsertRow
<1>4. DOMAIN blocks' = 0..(t + 1)
  <2>1. 0..(t + 1) = (0..t) \union {t + 1}
    OBVIOUS
  <2> QED BY <2>1, <1>2, <1>3
<1>5. Contiguous'
  BY <1>4 DEF Contiguous
<1>6. Hashed'
  BY <1>1, <1>2, <1>3, <1>4 DEF Hashed, TableInv
<1>7. Linked'
  <2> SUFFICES ASSUME NEW i \in 0..(t + 1), i > 0
               PROVE  blocks'[i].prev = blocks'[i - 1].hash
    BY <1>4 DEF Linked
  <2>1. CASE i = t + 1
    <3>1. blocks'[i].prev = blocks[t].hash
      BY <2>1, <1>1, <1>3
    <3>2. blocks'[i - 1] = blocks[t]
      BY <2>1, <1>3
    <3> QED BY <3>1, <3>2
  <2>2. CASE i \in 0..t
    <3>1. blocks'[i] = blocks[i] /\ blocks'[i - 1] = blocks[i - 1]
      BY <2>2, <1>2, <1>3
    <3> QED BY <3>1, <2>2, <1>2 DEF TableInv, Linked
  <2> QED BY <2>1, <2>2
<1>8. GenesisFirst'
  BY <1>2, <1>3 DEF TableInv, GenesisFirst
<1> QED
  BY <1>1, <1>2, <1>3, <1>4, <1>5, <1>6, <1>7, <1>8 DEF TableInv
-----------------------------------------------------------------------------
\* No row goes away and no row changes.
Grows == \A i \in DOMAIN blocks : i \in DOMAIN blocks' /\ blocks'[i] = blocks[i]

\* Every step leaves the table well linked and only adds to it.
LEMMA StepOnTable == ChainInv /\ [Next]_chainVars => TableInv' /\ Grows
<1> SUFFICES ASSUME ChainInv, [Next]_chainVars PROVE TableInv' /\ Grows
  OBVIOUS
<1>1. TableInv
  BY DEF ChainInv, TypeOK, TableInv
<1>2. CASE UNCHANGED blocks
  BY <1>1, <1>2, TableUnchanged DEF Grows
<1>3. ASSUME NEW s \in Session, CommitGenesis(s), ~UNCHANGED blocks
      PROVE  TableInv' /\ Grows
  <2>1. 0 \notin DOMAIN blocks /\ blocks' = With(0, NewBlock(0, ZeroHash, Genesis))
    BY <1>3 DEF CommitGenesis
  <2>2. TableInv'
    BY <1>1, <2>1, InsertGenesis
  <2>3. Grows
    BY <2>1 DEF Grows, With
  <2> QED BY <2>2, <2>3
<1>4. ASSUME NEW s \in Session, CommitBlock(s), ~UNCHANGED blocks
      PROVE  TableInv' /\ Grows
  <2> DEFINE t == tip[s].index
  <2>1. /\ t + 1 \notin DOMAIN blocks
        /\ blocks' = With(t + 1, NewBlock(t + 1, tip[s].hash, data[s]))
        /\ pc[s] = "insert_block"
    BY <1>4 DEF CommitBlock
  <2>2. t \in Nat /\ data[s] \in Content
    BY DEF ChainInv, TypeOK
  <2>3. t \in DOMAIN blocks /\ tip[s].hash = blocks[t].hash
    BY <2>1 DEF ChainInv, TipCommitted
  <2>4. blocks' = With(t + 1, NewBlock(t + 1, blocks[t].hash, data[s]))
    BY <2>1, <2>3
  <2> HIDE DEF t
  <2>5. TableInv'
    BY <1>1, <2>1, <2>2, <2>3, <2>4, InsertNext
  <2>6. Grows
    BY <2>1, <2>4 DEF Grows, With
  <2> QED BY <2>5, <2>6
<1>5. ASSUME NEW s \in Session,
             Call(s) \/ SelectLatest(s) \/ SelectGenesis(s) \/ Return(s) \/ Abort(s)
      PROVE  UNCHANGED blocks
  BY <1>5 DEF Call, CallInitialize, CallAddBlock, SelectLatest, SelectGenesis, Return, Abort
<1> QED
  BY <1>2, <1>3, <1>4, <1>5 DEF Next, Step, chainVars

\* The part of the invariant that speaks of the sessions.
SessionInv ==
    /\ pc \in [Session -> {"new"} \union InFlight \union Ended]
    /\ data \in [Session -> Content]
    /\ tip \in [Session -> [index : Nat, hash : Digest]]
    /\ ret \in [Session -> Nat]
    /\ TipCommitted /\ CallShape /\ AnswersAreOwnBlocks

LEMMA SplitInv == ChainInv <=> TableInv /\ SessionInv
BY DEF ChainInv, TypeOK, TableInv, SessionInv

\* A row read from the table is a typed latest_block.
LEMMA RowType ==
    ASSUME IsTable, NEW i \in DOMAIN blocks
    PROVE  Row(i) \in [index : Nat, hash : Digest]
BY DEF IsTable, Row, Block

\* A session that has just read row i may insert after it.
LEMMA SessionsRead ==
    ASSUME TableInv, SessionInv, NEW s \in Session, NEW i \in DOMAIN blocks,
           data[s] # Genesis, pc[s] \in {"select_latest", "select_genesis"},
           tip' = [tip EXCEPT ![s] = Row(i)], pc' = [pc EXCEPT ![s] = "insert_block"],
           UNCHANGED <<blocks, data, ret>>
    PROVE  SessionInv'
<1>1. Row(i) \in [index : Nat, hash : Digest] /\ Row(i).index = i /\ Row(i).hash = blocks[i].hash
  BY RowType DEF TableInv, Row
<1>2. TipCommitted'
  BY <1>1 DEF SessionInv, TipCommitted
<1>3. CallShape' /\ AnswersAreOwnBlocks'
  BY DEF SessionInv, CallShape, AnswersAreOwnBlocks, Appended, Content
<1> QED
  BY <1>1, <1>2, <1>3 DEF SessionInv, InFlight

LEMMA StepOnSessions == ChainInv /\ [Next]_chainVars => SessionInv'
<1> SUFFICES ASSUME ChainInv, [Next]_chainVars PROVE SessionInv'
  OBVIOUS
<1>1. TableInv /\ SessionInv /\ Grows
  BY SplitInv, StepOnTable
<1> USE DEF InFlight, Ended
<1>2. CASE UNCHANGED chainVars
  BY <1>1, <1>2 DEF chainVars, SessionInv, TipCommitted, CallShape, AnswersAreOwnBlocks, Appended
<1>3. ASSUME NEW s \in Session, NEW d \in Data, CallAddBlock(s, d) PROVE SessionInv'
  BY <1>1, <1>3 DEF CallAddBlock, SessionInv, TipCommitted, CallShape, AnswersAreOwnBlocks,
     Appended, Content
<1>4. ASSUME NEW s \in Session, CallInitialize(s) PROVE SessionInv'
  BY <1>1, <1>4 DEF CallInitialize, SessionInv, TipCommitted, CallShape, AnswersAreOwnBlocks,
     Appended
<1>5. ASSUME NEW s \in Session, SelectLatest(s) PROVE SessionInv'
  <2>1. CASE DOMAIN blocks = {}
    BY <1>1, <1>5, <2>1 DEF SelectLatest, SessionInv, TipCommitted, CallShape,
       AnswersAreOwnBlocks, Appended
  <2>2. ASSUME NEW i \in DOMAIN blocks, tip' = [tip EXCEPT ![s] = Row(i)],
               pc' = [pc EXCEPT ![s] = "insert_block"]
        PROVE  SessionInv'
    <3>1. UNCHANGED <<blocks, data, ret>> /\ pc[s] = "select_latest"
      BY <1>5 DEF SelectLatest
    <3>2. data[s] # Genesis
      BY <1>1, <3>1, GenesisAssumption DEF SessionInv, CallShape
    <3> QED
      BY <1>1, <2>2, <3>1, <3>2, SessionsRead
  <2> QED
    BY <1>5, <2>1, <2>2 DEF SelectLatest
<1>6. ASSUME NEW s \in Session, SelectGenesis(s) PROVE SessionInv'
  <2>1. UNCHANGED <<blocks, data, ret>> /\ pc[s] = "select_genesis"
    BY <1>6 DEF SelectGenesis
  <2>2. CASE 0 \in DOMAIN blocks /\ data[s] # Genesis
    <3>1. tip' = [tip EXCEPT ![s] = Row(0)] /\ pc' = [pc EXCEPT ![s] = "insert_block"]
      BY <1>6, <2>2 DEF SelectGenesis, AfterInitialize
    <3> QED
      BY <1>1, <2>1, <2>2, <3>1, SessionsRead DEF SessionInv, Content
  <2>3. CASE 0 \in DOMAIN blocks /\ data[s] = Genesis
    <3>1. tip' = [tip EXCEPT ![s] = Row(0)] /\ pc' = [pc EXCEPT ![s] = "refresh"]
      BY <1>6, <2>3 DEF SelectGenesis, AfterInitialize
    <3>2. Row(0) \in [index : Nat, hash : Digest]
      BY <1>1, <2>3, RowType DEF TableInv
    <3> QED
      BY <1>1, <2>1, <2>3, <3>1, <3>2 DEF SessionInv, TipCommitted, CallShape,
         AnswersAreOwnBlocks, Appended
  <2>4. CASE 0 \notin DOMAIN blocks
    BY <1>1, <1>6, <2>4 DEF SelectGenesis, SessionInv, TipCommitted, CallShape,
       AnswersAreOwnBlocks, Appended
  <2> QED
    BY <2>2, <2>3, <2>4
<1>7. ASSUME NEW s \in Session, CommitGenesis(s) PROVE SessionInv'
  <2>1. UNCHANGED <<data, ret>> /\ pc[s] = "insert_genesis"
    BY <1>7 DEF CommitGenesis
  <2>2. CASE 0 \in DOMAIN blocks
    BY <1>1, <1>7, <2>2 DEF CommitGenesis, SessionInv, TipCommitted, CallShape,
       AnswersAreOwnBlocks, Appended
  <2>3. CASE 0 \notin DOMAIN blocks
    <3> DEFINE g == [index |-> 0, hash |-> Hash(0, ZeroHash, Genesis)]
    <3>1. /\ blocks' = With(0, NewBlock(0, ZeroHash, Genesis))
          /\ tip' = [tip EXCEPT ![s] = g]
          /\ pc' = [pc EXCEPT ![s] = AfterInitialize(s)]
      BY <1>7, <2>3 DEF CommitGenesis
    <3>2. g \in [index : Nat, hash : Digest]
      BY ZeroType, HashType DEF Content
    <3>3. 0 \in DOMAIN blocks' /\ blocks'[0].hash = Hash(0, ZeroHash, Genesis)
      BY <3>1 DEF With, NewBlock
    <3> QED
      BY <1>1, <2>1, <3>1, <3>2, <3>3 DEF SessionInv, TipCommitted, CallShape,
         AnswersAreOwnBlocks, Appended, AfterInitialize, Grows, Content
  <2> QED
    BY <2>2, <2>3
<1>8. ASSUME NEW s \in Session, CommitBlock(s) PROVE SessionInv'
  <2> DEFINE new == tip[s].index + 1
  <2>1. UNCHANGED <<data, tip>> /\ pc[s] = "insert_block"
    BY <1>8 DEF CommitBlock
  <2>2. CASE new \in DOMAIN blocks
    BY <1>1, <1>8, <2>2 DEF CommitBlock, SessionInv, TipCommitted, CallShape,
       AnswersAreOwnBlocks, Appended
  <2>3. CASE new \notin DOMAIN blocks
    <3>1. /\ blocks' = With(new, NewBlock(new, tip[s].hash, data[s]))
          /\ ret' = [ret EXCEPT ![s] = new]
          /\ pc' = [pc EXCEPT ![s] = "refresh"]
      BY <1>8, <2>3 DEF CommitBlock
    <3>2. new \in Nat
      BY <1>1 DEF SessionInv
    <3>3. new \in DOMAIN blocks' /\ blocks'[new].data = data[s]
      BY <3>1 DEF With, NewBlock
    <3> HIDE DEF new
    <3>4. AnswersAreOwnBlocks'
      BY <1>1, <2>1, <2>3, <3>1, <3>2, <3>3 DEF SessionInv, AnswersAreOwnBlocks, Appended, Grows
    <3> QED
      BY <1>1, <2>1, <3>1, <3>2, <3>4 DEF SessionInv, TipCommitted, CallShape, Grows
  <2> QED
    BY <2>2, <2>3
<1>9. ASSUME NEW s \in Session, Return(s) PROVE SessionInv'
  BY <1>1, <1>9 DEF Return, SessionInv, TipCommitted, CallShape, AnswersAreOwnBlocks, Appended
<1>10. ASSUME NEW s \in Session, Abort(s) PROVE SessionInv'
  BY <1>1, <1>10 DEF Abort, SessionInv, TipCommitted, CallShape, AnswersAreOwnBlocks, Appended
<1> QED
  BY <1>2, <1>3, <1>4, <1>5, <1>6, <1>7, <1>8, <1>9, <1>10 DEF Next, Call, Step
-----------------------------------------------------------------------------
\* ChainInv is inductive.
LEMMA ChainStep == ChainInv /\ [Next]_chainVars => ChainInv'
<1>1. TableInv' /\ SessionInv' => ChainInv'
  BY DEF ChainInv, TypeOK, TableInv, SessionInv
<1> QED BY <1>1, StepOnTable, StepOnSessions

\* ChainInv holds in every reachable state.
THEOREM ChainInvariant == Spec => []ChainInv
BY InitInv, ChainStep, PTL DEF Spec

\* Every variable keeps its type.
THEOREM TypeCorrect == Spec => []TypeOK
<1>1. ChainInv => TypeOK
  BY DEF ChainInv
<1> QED BY <1>1, ChainInvariant, PTL

\* An answered add_block owns the block it was answered, whatever the other
\* requests do.
THEOREM AnswersSafe == Spec => []AnswersAreOwnBlocks
<1>1. ChainInv => AnswersAreOwnBlocks
  BY DEF ChainInv
<1> QED BY <1>1, ChainInvariant, PTL

LEMMA PairExists ==
    ASSUME NEW S, NEW j \in S, NEW k \in S
    PROVE  \E p \in S \X S : p[1] = j /\ p[2] = k
<1>1. <<j, k>> \in S \X S /\ <<j, k>>[1] = j /\ <<j, k>>[2] = k
  OBVIOUS
<1>. QED  BY <1>1

StartsAtZero(table) ==
    \A k \in DOMAIN table : IsFirst(table, k) => k = 0 /\ table[k].prev = ZeroHash

\* validate_chain checks what the checks of single blocks do, and the first block.
LEMMA ErrorsFound ==
    ASSUME NEW table
    PROVE  ErrorsIn(table) = {} <=> StartsAtZero(table) /\ PassesOneByOne(table)
<1>1. ASSUME ErrorsIn(table) = {} PROVE StartsAtZero(table) /\ PassesOneByOne(table)
  <2>1. \A k \in FirstRows(table) : k = 0 /\ table[k].prev = ZeroHash
    BY <1>1 DEF ErrorsIn
  <2>2. \A k \in DOMAIN table : table[k].hash = Hash(k, table[k].prev, table[k].data)
    BY <1>1 DEF ErrorsIn
  <2>3. \A p \in Neighbours(table) : table[p[2]].prev = table[p[1]].hash /\ p[2] = p[1] + 1
    BY <1>1 DEF ErrorsIn
  <2>4. \A j, k \in DOMAIN table : Precedes(table, j, k) =>
            \E p \in Neighbours(table) : p[1] = j /\ p[2] = k
    <3>. TAKE j, k \in DOMAIN table
    <3>. HAVE Precedes(table, j, k)
    <3>1. PICK p \in (DOMAIN table) \X (DOMAIN table) : p[1] = j /\ p[2] = k
      BY PairExists
    <3>2. Precedes(table, p[1], p[2])
      BY <3>1
    <3>. QED  BY <3>1, <3>2 DEF Neighbours
  <2>. QED
    BY <2>1, <2>2, <2>3, <2>4 DEF StartsAtZero, FirstRows, PassesOneByOne, BlockIntact, BlockLinked
<1>2. ASSUME StartsAtZero(table), PassesOneByOne(table) PROVE ErrorsIn(table) = {}
  <2>1. \A p \in Neighbours(table) : table[p[2]].prev = table[p[1]].hash /\ p[2] = p[1] + 1
    <3>. TAKE p \in Neighbours(table)
    <3>1. p[1] \in DOMAIN table /\ p[2] \in DOMAIN table /\ Precedes(table, p[1], p[2])
      BY DEF Neighbours
    <3>. QED  BY <1>2, <3>1 DEF PassesOneByOne, BlockLinked
  <2>2. \A k \in FirstRows(table) : k = 0 /\ table[k].prev = ZeroHash
    BY <1>2 DEF StartsAtZero, FirstRows
  <2>3. \A k \in DOMAIN table : table[k].hash = Hash(k, table[k].prev, table[k].data)
    BY <1>2 DEF PassesOneByOne, BlockIntact
  <2>. QED  BY <2>1, <2>2, <2>3 DEF ErrorsIn
<1>. QED  BY <1>1, <1>2

\* validate_chain never reports an error on a table these requests built.
THEOREM ChainAlwaysValidates == Spec => []ChainValidates
<1>1. ASSUME ChainInv PROVE ValidationErrors = {}
  <2>1. TableInv
    BY <1>1, SplitInv
  <2>2. \A k \in DOMAIN blocks : k \in Nat /\ 0 \in DOMAIN blocks /\ (k > 0 => k - 1 \in DOMAIN blocks)
    <3> TAKE k \in DOMAIN blocks
    <3>1. k \in Nat /\ 0..k \subseteq DOMAIN blocks
      BY <2>1 DEF TableInv, IsTable, Contiguous
    <3>2. 0 \in 0..k /\ (k > 0 => k - 1 \in 0..k)
      BY <3>1
    <3> QED BY <3>1, <3>2
  <2>3. \A k \in DOMAIN blocks : IsFirst(blocks, k) => k = 0
    BY <2>2 DEF IsFirst
  <2>4. \A j, k \in DOMAIN blocks : Precedes(blocks, j, k) => k > 0 /\ j = k - 1
    BY <2>2 DEF Precedes
  <2>5. \A k \in DOMAIN blocks : IsFirst(blocks, k) => blocks[k].prev = ZeroHash
    BY <2>1, <2>3 DEF TableInv, GenesisFirst
  <2>6. \A j, k \in DOMAIN blocks : Precedes(blocks, j, k) => blocks[k].prev = blocks[j].hash /\ k = j + 1
    BY <2>1, <2>2, <2>4 DEF TableInv, Linked
  <2>7. \A k \in DOMAIN blocks : blocks[k].hash = Hash(k, blocks[k].prev, blocks[k].data)
    BY <2>1 DEF TableInv, Hashed
  <2> QED
    BY <2>3, <2>5, <2>6, <2>7, ErrorsFound DEF ValidationErrors, StartsAtZero, PassesOneByOne,
       BlockIntact, BlockLinked
<1>2. ChainInv => ChainValidates
  BY <1>1 DEF ChainValidates
<1> QED BY <1>2, ChainInvariant, PTL

\* Committed blocks are never changed or removed.
THEOREM ChainAppendOnly == Spec => AppendOnly
<1>1. ChainInv /\ [Next]_chainVars
      => [\A i \in DOMAIN blocks : i \in DOMAIN blocks' /\ blocks'[i] = blocks[i]]_blocks
  BY StepOnTable DEF Grows
<1> QED BY <1>1, ChainInvariant, PTL DEF Spec, AppendOnly
-----------------------------------------------------------------------------
\* The receipts of module Ledger as the sessions hold them, and its entries.
Answered == {s \in Session : pc[s] = "done" /\ data[s] # Genesis}
Receipts == {[index |-> ret[s], data |-> data[s]] : s \in Answered}
Entries == [i \in DOMAIN blocks |-> blocks[i].data]

\* Every step of the sessions is a step of the abstract log, or none.
LEMMA StepRefines == ChainInv /\ [Next]_chainVars => [L!Next]_(L!vars)
<1> SUFFICES ASSUME ChainInv, [Next]_chainVars PROVE [L!Next]_(L!vars)
  OBVIOUS
<1> USE DEF InFlight, Ended
<1>1. TableInv /\ SessionInv
  BY SplitInv
<1>2. CASE UNCHANGED chainVars
  BY <1>2 DEF chainVars, L!vars
<1>3. ASSUME NEW s \in Session,
             Call(s) \/ SelectLatest(s) \/ SelectGenesis(s) \/ Abort(s)
      PROVE  UNCHANGED L!vars
  <2>1. UNCHANGED <<blocks, ret>>
    BY <1>3 DEF Call, CallInitialize, CallAddBlock, SelectLatest, SelectGenesis, Abort
  <2>2. Answered' = Answered /\ \A u \in Answered : data'[u] = data[u]
    BY <1>1, <1>3 DEF Answered, SessionInv, Call, CallInitialize, CallAddBlock,
       SelectLatest, SelectGenesis, AfterInitialize, Abort
  <2>3. Receipts' = Receipts
    BY <2>1, <2>2 DEF Receipts
  <2> QED
    BY <2>1, <2>3 DEF L!vars, Receipts, Answered
<1>4. ASSUME NEW s \in Session, CommitGenesis(s) PROVE [L!Next]_(L!vars)
  <2>1. Receipts' = Receipts
    <3>1. UNCHANGED <<data, ret>> /\ Answered' = Answered
      BY <1>1, <1>4 DEF CommitGenesis, Answered, SessionInv, AfterInitialize
    <3> QED BY <3>1 DEF Receipts
  <2>2. CASE 0 \in DOMAIN blocks
    <3>1. UNCHANGED blocks
      BY <1>4, <2>2 DEF CommitGenesis
    <3> QED BY <2>1, <3>1 DEF L!vars, Receipts, Answered
  <2>3. CASE 0 \notin DOMAIN blocks
    <3>1. blocks' = With(0, NewBlock(0, ZeroHash, Genesis))
      BY <1>4, <2>3 DEF CommitGenesis
    <3>2. DOMAIN blocks = {}
      BY <1>1, <2>3, EmptyWithoutGenesis
    <3>3. Entries' = [i \in 0..0 |-> Genesis]
      BY <3>1, <3>2 DEF Entries, With, NewBlock
    <3>4. L!Start
      BY <2>1, <3>2, <3>3 DEF L!Start, L!Extended, Entries, Receipts, Answered
    <3> QED BY <3>4 DEF L!Next
  <2> QED BY <2>2, <2>3
<1>5. ASSUME NEW s \in Session, CommitBlock(s) PROVE [L!Next]_(L!vars)
  <2> DEFINE t == tip[s].index
  <2>1. Receipts' = Receipts
    <3>1. UNCHANGED data /\ Answered' = Answered /\ \A u \in Answered : ret'[u] = ret[u]
      BY <1>1, <1>5 DEF CommitBlock, Answered, SessionInv
    <3> QED BY <3>1 DEF Receipts
  <2>2. CASE t + 1 \in DOMAIN blocks
    <3>1. UNCHANGED blocks
      BY <1>5, <2>2 DEF CommitBlock
    <3> QED BY <2>1, <3>1 DEF L!vars, Receipts, Answered
  <2>3. CASE t + 1 \notin DOMAIN blocks
    <3>1. /\ blocks' = With(t + 1, NewBlock(t + 1, tip[s].hash, data[s]))
          /\ pc[s] = "insert_block"
      BY <1>5, <2>3 DEF CommitBlock
    <3>2. /\ t \in Nat /\ t \in DOMAIN blocks
          /\ data[s] \in Data
      BY <1>1, <3>1 DEF SessionInv, TipCommitted, CallShape
    <3> HIDE DEF t
    <3>3. DOMAIN blocks = 0..t
      BY <1>1, <2>3, <3>2, ContiguousDomain
    <3>4. 0..(t + 1) = (0..t) \union {t + 1}
      BY <3>2
    <3>5. Entries' = [i \in 0..(t + 1) |-> IF i = t + 1 THEN data[s] ELSE Entries[i]]
      BY <3>1, <3>2, <3>3, <3>4 DEF Entries, With, NewBlock
    <3>6. DOMAIN Entries = 0..t /\ t \in DOMAIN Entries
      BY <3>2, <3>3 DEF Entries
    <3>7. ASSUME NEW d \in Data, d = data[s] PROVE L!Append(d)
      BY <2>1, <3>5, <3>6, <3>7 DEF L!Append, L!Extended, Entries, Receipts, Answered
    <3>8. \E d \in Data : L!Append(d)
      BY <3>2, <3>7
    <3> QED BY <3>8 DEF L!Next
  <2> QED BY <2>2, <2>3
<1>6. ASSUME NEW s \in Session, Return(s) PROVE [L!Next]_(L!vars)
  <2>1. UNCHANGED <<blocks, data, ret>> /\ pc' = [pc EXCEPT ![s] = "done"] /\ pc[s] = "refresh"
    BY <1>6 DEF Return
  <2>2. CASE data[s] = Genesis
    <3>1. Answered' = Answered
      BY <1>1, <2>1, <2>2 DEF Answered, SessionInv
    <3> QED BY <2>1, <3>1 DEF L!vars, Answered
  <2>3. CASE data[s] # Genesis
    <3>1. ret[s] \in DOMAIN blocks /\ blocks[ret[s]].data = data[s]
      BY <1>1, <2>1, <2>3 DEF SessionInv, AnswersAreOwnBlocks, Appended
    <3>2. Answered' = Answered \union {s}
      BY <1>1, <2>1, <2>3 DEF Answered, SessionInv
    <3>3. Receipts' = Receipts \union {[index |-> ret[s], data |-> Entries[ret[s]]]}
      BY <2>1, <3>1, <3>2 DEF Receipts, Entries
    <3>4. ASSUME NEW i \in DOMAIN Entries, i = ret[s] PROVE L!Acknowledge(i)
      BY <2>1, <3>3, <3>4 DEF L!Acknowledge, Entries, Receipts, Answered
    <3>5. \E i \in DOMAIN Entries : L!Acknowledge(i)
      BY <3>1, <3>4 DEF Entries
    <3> QED BY <3>5 DEF L!Next, Entries
  <2> QED BY <2>2, <2>3
<1> QED
  BY <1>2, <1>3, <1>4, <1>5, <1>6 DEF Next, Step

\* The sessions implement the append-only log.
THEOREM ChainRefinesLedger == Spec => ImplementsLedger
<1>1. Init => L!Init
  BY DEF Init, L!Init
<1>2. ChainInv /\ [Next]_chainVars => [L!Next]_(L!vars)
  BY StepRefines
<1> QED
  BY <1>1, <1>2, ChainInvariant, PTL DEF Spec, ImplementsLedger, L!Spec
-----------------------------------------------------------------------------
\* As long as there are blocks somebody has written one and not met a conflict
\* since: answered, about to be, dead, or first to follow the genesis block.
Ahead(s) ==
    \/ pc[s] \in {"refresh", "done", "aborted"}
    \/ pc[s] = "insert_block" /\ 1 \notin DOMAIN blocks

WinInv ==
    /\ DOMAIN blocks # {} => \E s \in Session : Ahead(s)
    /\ \A s \in Session : pc[s] = "conflict" => DOMAIN blocks # {}

LEMMA StepWins == ChainInv /\ WinInv /\ [Next]_chainVars => WinInv'
<1> SUFFICES ASSUME ChainInv, WinInv, [Next]_chainVars PROVE WinInv'
  OBVIOUS
<1>1. /\ pc \in [Session -> {"new"} \union InFlight \union Ended]
      /\ Contiguous /\ TipCommitted /\ IsTable /\ TableInv
  BY SplitInv DEF ChainInv, TypeOK
<1>2. CASE UNCHANGED chainVars
  BY <1>2 DEF chainVars, WinInv, Ahead
<1>3. ASSUME NEW s \in Session, UNCHANGED blocks,
             \E to \in {"insert_block", "refresh", "done", "aborted", "select_latest",
                        "select_genesis", "insert_genesis"} : pc' = [pc EXCEPT ![s] = to],
             pc'[s] \in {"done", "aborted"} \/ ~Ahead(s)
      PROVE  WinInv'
  BY <1>1, <1>3 DEF WinInv, Ahead
<1>4. ASSUME NEW s \in Session, Call(s) \/ SelectLatest(s) \/ SelectGenesis(s) \/ Return(s) \/ Abort(s)
      PROVE  WinInv'
  <2>1. UNCHANGED blocks /\ (pc'[s] \in {"done", "aborted"} \/ ~Ahead(s))
    BY <1>1, <1>4 DEF Call, CallInitialize, CallAddBlock, SelectLatest, SelectGenesis, Return, Abort,
       Ahead
  <2>2. \E to \in {"insert_block", "refresh", "done", "aborted", "select_latest", "select_genesis",
                   "insert_genesis"} : pc' = [pc EXCEPT ![s] = to]
    BY <1>4 DEF Call, CallInitialize, CallAddBlock, SelectLatest, SelectGenesis, Return, Abort,
       AfterInitialize
  <2> QED BY <1>3, <2>1, <2>2
\* A conflict of s leaves whoever was ahead there, and it was not s.
<1>5. ASSUME NEW s \in Session, UNCHANGED blocks, DOMAIN blocks # {}, ~Ahead(s),
             pc' = [pc EXCEPT ![s] = "conflict"]
      PROVE  WinInv'
  BY <1>1, <1>5 DEF WinInv, Ahead
<1>6. ASSUME NEW s \in Session, CommitGenesis(s) PROVE WinInv'
  <2>1. CASE 0 \in DOMAIN blocks
    BY <1>5, <1>6, <2>1 DEF CommitGenesis, Ahead
  <2>2. CASE 0 \notin DOMAIN blocks
    <3>1. DOMAIN blocks' = {0}
      BY <1>1, <1>6, <2>2, EmptyWithoutGenesis DEF CommitGenesis, With
    <3>2. pc'[s] \in {"refresh", "insert_block"}
      BY <1>1, <1>6, <2>2 DEF CommitGenesis, AfterInitialize
    <3> QED BY <3>1, <3>2 DEF WinInv, Ahead
  <2> QED BY <2>1, <2>2
<1>7. ASSUME NEW s \in Session, CommitBlock(s) PROVE WinInv'
  <2> DEFINE new == tip[s].index + 1
  <2>1. tip[s].index \in DOMAIN blocks /\ tip[s].index \in Nat
    BY <1>1, <1>7 DEF TipCommitted, CommitBlock, IsTable
  <2>2. CASE new \in DOMAIN blocks
    <3>1. 1 \in DOMAIN blocks
      <4>1. 0..new \subseteq DOMAIN blocks /\ 1 \in 0..new
        BY <1>1, <2>1, <2>2 DEF Contiguous
      <4> QED BY <4>1
    <3> QED BY <1>5, <1>7, <2>2, <3>1 DEF CommitBlock, Ahead
  <2>3. CASE new \notin DOMAIN blocks
    <3>1. pc'[s] = "refresh" /\ DOMAIN blocks' # {}
      BY <1>1, <1>7, <2>3 DEF CommitBlock, With
    <3> QED BY <3>1 DEF WinInv, Ahead
  <2> QED BY <2>2, <2>3
<1> QED BY <1>2, <1>4, <1>6, <1>7 DEF Next, Step

\* However many requests collide, one that is not killed gets its answer.
THEOREM ChainSomeoneWins == Spec => []SomeRequestWins
<1>1. Init => WinInv
  BY DEF Init, WinInv
<1>2. WinInv => SomeRequestWins
  BY DEF WinInv, Ahead, SomeRequestWins
<1> QED BY <1>1, <1>2, StepWins, ChainInvariant, PTL DEF Spec
-----------------------------------------------------------------------------
(***************************************************************************)
(* The readers.  The inductive invariant behind their reports: the numbers *)
(* in use are an interval, and an answer is the root of the requested rows *)
(* below some number up to which the table was complete.                   *)
(***************************************************************************)
TableShape == DOMAIN blocks = {} \/ \E t \in Nat : DOMAIN blocks = 0..t

AskedTypeOK ==
    /\ asked \in [Reader -> Nat \X Nat]
    /\ reading \in [Reader -> {"new", "refused", "counted", "answered"}]
    /\ counted \in [Reader -> SUBSET Nat]
    /\ root = [r \in Reader |-> root[r]]

RowsBelow(r, n) == {i \in Requested(r) : i < n}

Complete(n) == n = 0 \/ n - 1 \in DOMAIN blocks

RootAt(r, n) ==
    /\ root[r] = RootOf(blocks, RowsBelow(r, n))
    /\ \A i \in counted[r] : i < n
    /\ Complete(n)

CountOK(r) == asked[r][1] <= asked[r][2] /\ counted[r] \subseteq Requested(r)

AnswerOK(r) == \E n \in 0..asked[r][2] + 1 : RootAt(r, n)

ReaderInv ==
    /\ TableShape
    /\ AskedTypeOK
    /\ \A r \in Reader : reading[r] \in {"counted", "answered"} => CountOK(r)
    /\ \A r \in Reader : reading[r] = "answered" => AnswerOK(r)

\* The numbers below a complete one are all in use.
LEMMA BelowComplete ==
    ASSUME ChainInv, NEW n \in Nat, Complete(n), NEW i \in Nat, i < n
    PROVE  i \in DOMAIN blocks
<1>1. n - 1 \in Nat /\ n - 1 \in DOMAIN blocks
  BY DEF Complete
<1>2. 0..(n - 1) \subseteq DOMAIN blocks
  BY <1>1 DEF ChainInv, Contiguous
<1>. QED  BY <1>1, <1>2

\* The table a step leaves is the one it found, or that with one more number.
LEMMA ShapeKept ==
    ASSUME ChainInv, TableShape, [Next]_chainVars
    PROVE  TableShape'
<1>1. TableInv /\ TableInv'
  BY SplitInv, StepOnTable
<1>2. ASSUME UNCHANGED blocks PROVE TableShape'
  BY <1>2 DEF TableShape
<1>3. ASSUME NEW s \in Session, CommitGenesis(s) PROVE TableShape'
  <2>1. CASE 0 \in DOMAIN blocks
    BY <1>2, <1>3, <2>1 DEF CommitGenesis
  <2>2. CASE 0 \notin DOMAIN blocks
    <3>1. DOMAIN blocks' = {0}
      BY <1>1, <1>3, <2>2, EmptyWithoutGenesis DEF CommitGenesis, With
    <3>2. {0} = 0..0 /\ 0 \in Nat
      OBVIOUS
    <3>. QED  BY <3>1, <3>2 DEF TableShape
  <2>. QED  BY <2>1, <2>2
<1>4. ASSUME NEW s \in Session, CommitBlock(s) PROVE TableShape'
  <2>. DEFINE t == tip[s].index
  <2>1. t \in DOMAIN blocks /\ t \in Nat
    BY <1>4 DEF ChainInv, TypeOK, IsTable, TipCommitted, CommitBlock
  <2>2. CASE t + 1 \in DOMAIN blocks
    BY <1>2, <1>4, <2>2 DEF CommitBlock
  <2>3. CASE t + 1 \notin DOMAIN blocks
    <3>1. DOMAIN blocks' = DOMAIN blocks \union {t + 1}
      BY <1>4, <2>3 DEF CommitBlock, With
    <3>. HIDE DEF t
    <3>2. DOMAIN blocks = 0..t
      BY <1>1, <2>1, <2>3, ContiguousDomain
    <3>3. DOMAIN blocks' = 0..(t + 1) /\ t + 1 \in Nat
      BY <2>1, <3>1, <3>2
    <3>. QED  BY <3>3 DEF TableShape
  <2>. QED  BY <2>2, <2>3
<1>. QED
  BY <1>2, <1>3, <1>4 DEF Next, Call, CallInitialize, CallAddBlock, Step, SelectLatest,
     SelectGenesis, Return, Abort, chainVars

\* What is appended does not reach into a report.
LEMMA ReportsOutlast ==
    ASSUME ChainInv, ReaderInv, [Next]_chainVars, UNCHANGED readerVars
    PROVE  ReaderInv'
<1>1. Grows
  BY SplitInv, StepOnTable
<1>2. TableShape'
  BY ShapeKept DEF ReaderInv
<1>3. AskedTypeOK'
  BY DEF ReaderInv, AskedTypeOK, readerVars
<1>4. IsTable /\ IsTable' /\ ChainInv'
  BY ChainStep DEF ChainInv, TypeOK
<1>5. ASSUME NEW r \in Reader, CountOK(r) PROVE CountOK(r)'
  BY <1>1, <1>5 DEF CountOK, Requested, InRange, Grows, readerVars
<1>6. ASSUME NEW r \in Reader, AnswerOK(r) PROVE AnswerOK(r)'
  <2>1. asked[r] \in Nat \X Nat
    BY DEF ReaderInv, AskedTypeOK
  <2>2. PICK n \in 0..asked[r][2] + 1 : RootAt(r, n)
    BY <1>6 DEF AnswerOK
  <2>3. n \in Nat
    BY <2>1
  <2>4. \A i \in Nat : i < n => i \in DOMAIN blocks
    BY <2>2, <2>3, BelowComplete DEF RootAt
  <2>5. RowsBelow(r, n)' = RowsBelow(r, n)
    BY <1>1, <1>4, <2>3, <2>4 DEF RowsBelow, Requested, InRange, Grows, IsTable, readerVars
  <2>6. HashColumn(blocks', RowsBelow(r, n)) = HashColumn(blocks, RowsBelow(r, n))
    BY <1>1 DEF HashColumn, RowsBelow, Requested, InRange, Grows
  <2>7. root[r]' = RootOf(blocks, RowsBelow(r, n))'
    BY <2>2, <2>5, <2>6 DEF RootAt, RootOf, readerVars
  <2>8. Complete(n)'
    BY <1>1, <2>2 DEF RootAt, Complete, Grows
  <2>9. RootAt(r, n)'
    BY <2>2, <2>7, <2>8 DEF RootAt, readerVars
  <2>. QED  BY <2>1, <2>9 DEF AnswerOK, readerVars
<1>. QED
  BY <1>2, <1>3, <1>5, <1>6 DEF ReaderInv, readerVars

\* The first read.
LEMMA CountsInRange ==
    ASSUME ChainInv, ReaderInv, NEW r \in Reader, CountBlocks(r)
    PROVE  ReaderInv'
<1>1. UNCHANGED <<blocks, root>> /\ IsTable /\ reading[r] = "new"
  BY DEF CountBlocks, Advance, ChainInv, TypeOK, chainVars
<1>2. TableShape'
  BY <1>1 DEF ReaderInv, TableShape
<1>3. ASSUME NEW q \in Reader, q # r
      PROVE  UNCHANGED <<asked[q], reading[q], counted[q], root[q]>>
  BY <1>1, <1>3 DEF CountBlocks, Advance, ReaderInv, AskedTypeOK
<1>4. ASSUME NEW q \in Reader, q # r
      PROVE  CountOK(q)' = CountOK(q) /\ AnswerOK(q)' = AnswerOK(q)
  BY <1>1, <1>3, <1>4 DEF CountOK, AnswerOK, RootAt, Complete, RowsBelow, Requested
<1>5. PICK epoch \in Epoch :
          IF epoch[2] < epoch[1]
          THEN reading' = [reading EXCEPT ![r] = "refused"] /\ UNCHANGED <<asked, counted>>
          ELSE /\ reading' = [reading EXCEPT ![r] = "counted"]
               /\ asked' = [asked EXCEPT ![r] = epoch]
               /\ counted' = [counted EXCEPT ![r] = InRange(blocks, epoch[1], epoch[2])]
  BY DEF CountBlocks, Advance
<1>6. epoch \in Nat \X Nat
  BY ExplorerAssumption
<1>7. CASE epoch[2] < epoch[1]
  <2>1. AskedTypeOK' /\ reading'[r] = "refused"
    BY <1>1, <1>5, <1>7 DEF ReaderInv, AskedTypeOK
  <2>. QED  BY <1>2, <1>3, <1>4, <2>1 DEF ReaderInv
<1>8. CASE ~(epoch[2] < epoch[1])
  <2>1. InRange(blocks, epoch[1], epoch[2]) \subseteq Nat
    BY <1>1 DEF InRange, IsTable
  <2>2. AskedTypeOK' /\ reading'[r] = "counted"
    BY <1>1, <1>5, <1>6, <1>8, <2>1 DEF ReaderInv, AskedTypeOK
  <2>3. asked'[r] = epoch /\ counted'[r] = InRange(blocks, epoch[1], epoch[2])
    BY <1>5, <1>8 DEF ReaderInv, AskedTypeOK
  <2>4. CountOK(r)'
    BY <1>1, <1>6, <1>8, <2>3 DEF CountOK, Requested
  <2>. QED  BY <1>2, <1>3, <1>4, <2>2, <2>4 DEF ReaderInv
<1>. QED  BY <1>7, <1>8

\* The second read finds the requested rows up to some number.
LEMMA HashesSomePrefix ==
    ASSUME ChainInv, ReaderInv, NEW r \in Reader, HashBlocks(r)
    PROVE  ReaderInv'
<1>1. UNCHANGED <<blocks, asked, counted>> /\ IsTable /\ reading[r] = "counted"
  BY DEF HashBlocks, Advance, ChainInv, TypeOK, chainVars
<1>2. TableShape' /\ AskedTypeOK'
  BY <1>1 DEF ReaderInv, TableShape, AskedTypeOK, HashBlocks, Advance
<1>3. ASSUME NEW q \in Reader PROVE CountOK(q)' = CountOK(q)
  BY <1>1 DEF CountOK, Requested
<1>4. ASSUME NEW q \in Reader, q # r
      PROVE  AnswerOK(q)' = AnswerOK(q) /\ reading'[q] = reading[q]
  <2>1. UNCHANGED <<asked[q], reading[q], counted[q], root[q]>>
    BY <1>1, <1>4 DEF HashBlocks, Advance, ReaderInv, AskedTypeOK
  <2>. QED  BY <1>1, <2>1 DEF AnswerOK, RootAt, Complete, RowsBelow, Requested
<1>5. AnswerOK(r)'
  <2>1. asked[r] \in Nat \X Nat /\ CountOK(r)
    BY <1>1 DEF ReaderInv, AskedTypeOK
  <2>2. root'[r] = RootOf(blocks, Requested(r))
    BY DEF HashBlocks, EpochRoot, Requested, ReaderInv, AskedTypeOK
  <2>3. \E n \in 0..asked[r][2] + 1 : Complete(n) /\ \A i \in Requested(r) : i < n
    <3>. DEFINE last == asked[r][2]
    <3>1. last \in Nat
      BY <2>1
    <3>2. \A i \in Requested(r) : i \in Nat /\ i \in DOMAIN blocks /\ i < last + 1
      BY <1>1, <3>1 DEF Requested, InRange, IsTable
    <3>. HIDE DEF last
    <3>3. CASE DOMAIN blocks = {}
      BY <3>1, <3>2, <3>3 DEF Complete, last
    <3>4. ASSUME NEW t \in Nat, DOMAIN blocks = 0..t PROVE <2>3
      <4>1. CASE last <= t
        <5>1. Complete(last + 1)
          BY <3>1, <3>4, <4>1 DEF Complete
        <5>. QED  BY <3>1, <3>2, <5>1 DEF last
      <4>2. CASE t < last
        <5>1. Complete(t + 1) /\ t + 1 \in 0..last + 1
          BY <3>1, <3>4, <4>2 DEF Complete
        <5>. QED  BY <3>2, <3>4, <5>1 DEF last
      <4>. QED  BY <3>1, <4>1, <4>2
    <3>. QED  BY <3>3, <3>4 DEF ReaderInv, TableShape
  <2>4. PICK n \in 0..asked[r][2] + 1 : Complete(n) /\ \A i \in Requested(r) : i < n
    BY <2>3
  <2>5. RowsBelow(r, n) = Requested(r)
    BY <2>4 DEF RowsBelow
  <2>6. RootAt(r, n)'
    BY <1>1, <2>1, <2>2, <2>4, <2>5 DEF RootAt, Complete, RowsBelow, Requested, CountOK
  <2>. QED  BY <1>1, <2>6 DEF AnswerOK
<1>. QED
  BY <1>1, <1>2, <1>3, <1>4, <1>5 DEF ReaderInv

LEMMA ReadersStart == ExplorerInit => ChainInv /\ ReaderInv
<1>. SUFFICES ASSUME ExplorerInit PROVE ChainInv /\ ReaderInv
  OBVIOUS
<1>1. ChainInv /\ TableShape
  BY InitInv DEF ExplorerInit, Init, TableShape
<1>2. AskedTypeOK
  BY DEF ExplorerInit, AskedTypeOK
<1>. QED  BY <1>1, <1>2 DEF ExplorerInit, ReaderInv

LEMMA ReadersStep == ChainInv /\ ReaderInv /\ [ExplorerNext]_explorerVars => ChainInv' /\ ReaderInv'
<1>. SUFFICES ASSUME ChainInv, ReaderInv, [ExplorerNext]_explorerVars
              PROVE  ChainInv' /\ ReaderInv'
  OBVIOUS
<1>1. CASE [Next]_chainVars /\ UNCHANGED readerVars
  BY <1>1, ChainStep, ReportsOutlast
<1>2. ASSUME NEW r \in Reader, ReadStep(r) PROVE ChainInv' /\ ReaderInv'
  <2>1. UNCHANGED chainVars
    BY <1>2 DEF ReadStep, CountBlocks, HashBlocks
  <2>. QED  BY <1>2, <2>1, ChainStep, CountsInRange, HashesSomePrefix DEF ReadStep
<1>. QED  BY <1>1, <1>2 DEF ExplorerNext, explorerVars

\* The chain beside its readers, and the readers beside the growing chain.
THEOREM ExplorerInvariant == ExplorerSpec => [](ChainInv /\ ReaderInv)
BY ReadersStart, ReadersStep, PTL DEF ExplorerSpec

\* The readers change nothing of the chain: what is shown of its requests alone
\* holds beside the readers too.
THEOREM ExplorerImplementsChain == ExplorerSpec => Spec
<1>1. ExplorerInit => Init
  BY DEF ExplorerInit
<1>2. [ExplorerNext]_explorerVars => [Next]_chainVars
  BY DEF ExplorerNext, ReadStep, CountBlocks, HashBlocks, explorerVars
<1>. QED  BY <1>1, <1>2, PTL DEF Spec, ExplorerSpec

\* A report is the root of its range at one moment, complete when the range was.
THEOREM ReportsAlwaysHold == ExplorerSpec => []ReportsHold
<1>1. ASSUME ChainInv, ReaderInv PROVE ReportsHold
  <2>. SUFFICES ASSUME NEW r \in Reader, reading[r] = "answered"
                PROVE  LET first == asked[r][1]
                           last == asked[r][2]
                       IN  /\ \E n \in 0..last + 1 :
                                 /\ root[r] = RootOf(blocks, {i \in Requested(r) : i < n})
                                 /\ \A i \in counted[r] : i < n
                           /\ Cardinality(counted[r]) = last - first + 1 =>
                                 counted[r] = first..last /\ root[r] = EpochRoot(blocks, first, last)
    BY Zenon DEF ReportsHold
  <2>. DEFINE first == asked[r][1]
              last == asked[r][2]
  <2>1. first \in Nat /\ last \in Nat /\ first <= last
    BY <1>1 DEF ReaderInv, AskedTypeOK, CountOK
  <2>2. IsTable /\ counted[r] \subseteq Requested(r)
    BY <1>1 DEF ReaderInv, CountOK, ChainInv, TypeOK
  <2>3. PICK n \in 0..last + 1 : RootAt(r, n)
    BY <1>1 DEF ReaderInv, AnswerOK
  <2>4. Requested(r) \subseteq first..last
    BY <2>1, <2>2 DEF Requested, InRange, IsTable
  <2>5. ASSUME Cardinality(counted[r]) = last - first + 1
        PROVE  counted[r] = first..last /\ root[r] = EpochRoot(blocks, first, last)
    <3>1. IsFiniteSet(first..last) /\ Cardinality(first..last) = last - first + 1
      <4>. HIDE DEF first, last
      <4>. QED  BY <2>1, FS_Interval
    <3>2. counted[r] \subseteq first..last
      BY <2>2, <2>4
    <3>3. counted[r] = first..last
      BY <2>5, <3>1, <3>2, FS_Subset
    <3>4. last < n
      BY <2>1, <2>3, <3>3 DEF RootAt
    <3>5. \A i \in Requested(r) : i < n
      BY <2>1, <2>3, <2>4, <3>4
    <3>6. RowsBelow(r, n) = InRange(blocks, first, last)
      BY <3>5 DEF RowsBelow, Requested
    <3>. QED  BY <2>3, <3>3, <3>6 DEF RootAt, EpochRoot
  <2>. QED  BY <2>3, <2>5 DEF RootAt, RowsBelow
<1>. QED  BY <1>1, ExplorerInvariant, PTL
-----------------------------------------------------------------------------
(***************************************************************************)
(* Tampering with the table.                                               *)
(***************************************************************************)
\* A digest determines the string it was computed from, and no more.
LEMMA HashDetermines ==
    ASSUME NEW i \in Nat, NEW p \in Digest, NEW d \in Content, NEW e \in Content
    PROVE  Hash(i, p, d) = Hash(i, p, e) <=> SameText(d, e)
<1>1. Canonical[d] \in Text /\ Canonical[e] \in Text
  BY DEF Text
<1>2. /\ Hash(i, p, d)[Len(p) + 1] = <<i, Canonical[d]>>
      /\ Hash(i, p, e)[Len(p) + 1] = <<i, Canonical[e]>>
  BY <1>1 DEF Hash, Digest
<1>3. Hash(i, p, d) = Hash(i, p, e) => Canonical[d] = Canonical[e]
  BY <1>2
<1>. QED  BY <1>3 DEF Hash, SameText

\* The table as the invariant describes it.
LEMMA TableFacts ==
    ASSUME ChainInv
    PROVE  /\ \A k \in DOMAIN blocks : /\ k \in Nat /\ 0 \in DOMAIN blocks
                                       /\ k > 0 => k - 1 \in DOMAIN blocks
                                       /\ blocks[k] \in Block
                                       /\ blocks[k].hash = Hash(k, blocks[k].prev, blocks[k].data)
                                       /\ k > 0 => blocks[k].prev = blocks[k - 1].hash
           /\ 0 \in DOMAIN blocks => blocks[0].prev = ZeroHash
           /\ \A j, k \in DOMAIN blocks : j < k => j + 1 \in DOMAIN blocks
<1>1. \A k \in DOMAIN blocks : k \in Nat /\ 0..k \subseteq DOMAIN blocks
  BY DEF ChainInv, TypeOK, IsTable, Contiguous
<1>2. \A k \in DOMAIN blocks : 0 \in 0..k /\ (k > 0 => k - 1 \in 0..k)
  BY <1>1
<1>3. \A j, k \in DOMAIN blocks : j < k => j + 1 \in 0..k
  BY <1>1
<1>. QED
  BY <1>1, <1>2, <1>3 DEF ChainInv, TypeOK, IsTable, Hashed, Linked, GenesisFirst

\* The table as it is passes the checks of single blocks.
LEMMA TablePasses ==
    ASSUME ChainInv
    PROVE  StartsAtZero(blocks) /\ PassesOneByOne(blocks)
<1>1. StartsAtZero(blocks)
  BY TableFacts DEF StartsAtZero, IsFirst
<1>2. \A k \in DOMAIN blocks : BlockIntact(blocks, k)
  BY TableFacts DEF BlockIntact
<1>3. ASSUME NEW j \in DOMAIN blocks, NEW k \in DOMAIN blocks, Precedes(blocks, j, k)
      PROVE  BlockLinked(blocks, j, k)
  <2>1. j \in Nat /\ k \in Nat /\ j < k /\ k - 1 \in DOMAIN blocks
    BY <1>3, TableFacts DEF Precedes
  <2>2. j = k - 1
    BY <1>3, <2>1 DEF Precedes
  <2>. QED  BY <1>3, <2>1, <2>2, TableFacts DEF BlockLinked
<1>. QED  BY <1>1, <1>2, <1>3 DEF PassesOneByOne

\* A row with new contents and the old digest.
LEMMA EditFound ==
    ASSUME ChainInv, NEW i \in DOMAIN blocks, NEW d \in Content
    PROVE  ErrorsIn(Edited(i, d)) = {} <=> SameText(d, blocks[i].data)
<1>. DEFINE new == Edited(i, d)
<1>1. /\ i \in Nat /\ blocks[i] \in Block
      /\ blocks[i].hash = Hash(i, blocks[i].prev, blocks[i].data)
  BY TableFacts
<1>2. /\ DOMAIN new = DOMAIN blocks /\ new[i].data = d
      /\ \A k \in DOMAIN blocks : new[k].hash = blocks[k].hash /\ new[k].prev = blocks[k].prev
      /\ \A k \in DOMAIN blocks : k # i => new[k] = blocks[k]
  <2>1. blocks = [k \in DOMAIN blocks |-> blocks[k]]
    BY DEF ChainInv, TypeOK, IsTable
  <2>. QED  BY <1>1, <2>1 DEF Edited, Block
<1>. HIDE DEF new
<1>3. blocks[i].hash = Hash(i, blocks[i].prev, d) <=> SameText(d, blocks[i].data)
  BY <1>1, HashDetermines DEF Block, SameText
<1>4. BlockIntact(new, i) <=> SameText(d, blocks[i].data)
  BY <1>2, <1>3 DEF BlockIntact
<1>5. StartsAtZero(new)
  BY <1>2, TablePasses DEF StartsAtZero, IsFirst
<1>6. PassesOneByOne(new) <=> BlockIntact(new, i)
  BY <1>2, TablePasses DEF PassesOneByOne, BlockIntact, BlockLinked, Precedes
<1>. QED  BY <1>4, <1>5, <1>6, ErrorsFound DEF new

LEMMA RehashedRows ==
    ASSUME ChainInv, NEW i \in DOMAIN blocks, NEW d \in Content
    PROVE  /\ DOMAIN Rehashed(i, d) = DOMAIN blocks
           /\ \A k \in DOMAIN blocks : Rehashed(i, d)[k].prev = blocks[k].prev
           /\ \A k \in DOMAIN blocks : k # i => Rehashed(i, d)[k] = blocks[k]
           /\ Rehashed(i, d)[i].data = d
           /\ Rehashed(i, d)[i].hash = Hash(i, blocks[i].prev, d)
           /\ Rehashed(i, d)[i].hash = blocks[i].hash <=> SameText(d, blocks[i].data)
<1>1. IsTable
  BY DEF ChainInv, TypeOK
<1>2. /\ i \in Nat /\ blocks[i] \in Block
      /\ blocks[i].hash = Hash(i, blocks[i].prev, blocks[i].data)
  BY TableFacts
<1>3. /\ DOMAIN Rehashed(i, d) = DOMAIN blocks
      /\ \A k \in DOMAIN blocks : k # i => Rehashed(i, d)[k] = blocks[k]
      /\ Rehashed(i, d)[i] = NewBlock(i, blocks[i].prev, d)
  BY <1>1 DEF Rehashed, IsTable
<1>4. Hash(i, blocks[i].prev, d) = blocks[i].hash <=> SameText(d, blocks[i].data)
  BY <1>2, HashDetermines DEF Block
<1>. QED  BY <1>3, <1>4 DEF NewBlock

\* A row with new contents and their digest.
LEMMA RehashFound ==
    ASSUME ChainInv, NEW i \in DOMAIN blocks, NEW d \in Content
    PROVE  LET unseen == SameText(d, blocks[i].data)
               valid == ErrorsIn(Rehashed(i, d)) = {}
           IN  /\ valid <=> unseen \/ IsLatest(i)
               /\ PassesOneByOne(Rehashed(i, d)) <=> valid
<1>. DEFINE new == Rehashed(i, d)
            unseen == SameText(d, blocks[i].data)
<1>1. /\ DOMAIN new = DOMAIN blocks
      /\ \A k \in DOMAIN blocks : new[k].prev = blocks[k].prev
      /\ \A k \in DOMAIN blocks : k # i => new[k] = blocks[k]
      /\ new[i].data = d /\ new[i].hash = Hash(i, blocks[i].prev, d)
      /\ new[i].hash = blocks[i].hash <=> unseen
  BY RehashedRows
<1>. HIDE DEF new, unseen
<1>2. StartsAtZero(new)
  BY <1>1, TableFacts DEF StartsAtZero, IsFirst
<1>3. \A k \in DOMAIN new : BlockIntact(new, k)
  BY <1>1, TableFacts DEF BlockIntact
<1>4. ASSUME unseen \/ IsLatest(i),
             NEW j \in DOMAIN new, NEW k \in DOMAIN new, Precedes(new, j, k)
      PROVE  BlockLinked(new, j, k)
  <2>1. j \in Nat /\ k \in Nat /\ i \in Nat /\ j < k /\ k - 1 \in DOMAIN blocks
    BY <1>1, <1>4, TableFacts DEF Precedes
  <2>2. j = k - 1
    BY <1>1, <1>4, <2>1 DEF Precedes
  <2>3. j # i \/ unseen
    BY <1>1, <1>4, <2>1 DEF IsLatest
  <2>4. new[k].prev = blocks[k - 1].hash /\ new[j].hash = blocks[j].hash
    BY <1>1, <2>1, <2>2, <2>3, TableFacts
  <2>. QED  BY <2>1, <2>2, <2>4 DEF BlockLinked
<1>5. ASSUME ~IsLatest(i), ~unseen PROVE ~PassesOneByOne(new)
  <2>. \A k \in DOMAIN blocks : k \in Nat
    BY TableFacts
  <2>1. PICK k \in DOMAIN blocks : k > i /\ k \in Nat /\ i \in Nat
    BY <1>5 DEF IsLatest
  <2>2. i + 1 \in DOMAIN blocks
    BY <2>1, TableFacts
  <2>3. Precedes(new, i, i + 1)
    BY <1>1, <2>1, TableFacts DEF Precedes
  <2>4. new[i + 1].prev = blocks[i].hash
    <3>1. i + 1 > 0 /\ (i + 1) - 1 = i
      BY <2>1
    <3>. QED  BY <1>1, <2>2, <3>1, TableFacts
  <2>5. ~BlockLinked(new, i, i + 1)
    BY <1>1, <1>5, <2>4 DEF BlockLinked
  <2>. QED  BY <1>1, <2>2, <2>3, <2>5 DEF PassesOneByOne
<1>6. PassesOneByOne(new) <=> unseen \/ IsLatest(i)
  BY <1>3, <1>4, <1>5 DEF PassesOneByOne
<1>. QED  BY <1>2, <1>6, ErrorsFound DEF new, unseen

\* A row less.
LEMMA RemovalFound ==
    ASSUME ChainInv, NEW i \in DOMAIN blocks
    PROVE  ErrorsIn(Removed(i)) = {} <=> IsLatest(i)
<1>. DEFINE left == Removed(i)
<1>1. DOMAIN left = DOMAIN blocks \ {i} /\ \A k \in DOMAIN left : left[k] = blocks[k]
  BY DEF Removed
<1>. HIDE DEF left
<1>2. ASSUME IsLatest(i) PROVE StartsAtZero(left) /\ PassesOneByOne(left)
  <2>1. \A k \in DOMAIN left : k < i /\ k \in DOMAIN blocks /\ k \in Nat
    BY <1>1, <1>2, TableFacts DEF IsLatest
  <2>2. \A k \in DOMAIN left : 0 \in DOMAIN left /\ (k > 0 => k - 1 \in DOMAIN left)
    BY <1>1, <2>1, TableFacts
  <2>3. StartsAtZero(left)
    BY <1>1, <2>1, <2>2, TableFacts DEF StartsAtZero, IsFirst
  <2>4. \A k \in DOMAIN left : BlockIntact(left, k)
    BY <1>1, <2>1, TableFacts DEF BlockIntact
  <2>5. ASSUME NEW j \in DOMAIN left, NEW k \in DOMAIN left, Precedes(left, j, k)
        PROVE  BlockLinked(left, j, k)
    <3>1. k > 0 /\ k - 1 \in DOMAIN left /\ j = k - 1
      BY <2>1, <2>2, <2>5 DEF Precedes
    <3>2. left[k] = blocks[k] /\ left[j] = blocks[k - 1] /\ k = j + 1
      BY <1>1, <2>1, <3>1
    <3>3. blocks[k].prev = blocks[k - 1].hash
      BY <2>1, <3>1, TableFacts
    <3>. QED  BY <3>2, <3>3 DEF BlockLinked
  <2>. QED  BY <2>3, <2>4, <2>5 DEF PassesOneByOne
<1>3. ASSUME ~IsLatest(i) PROVE ~(StartsAtZero(left) /\ PassesOneByOne(left))
  <2>. \A k \in DOMAIN blocks : k \in Nat
    BY TableFacts
  <2>1. PICK k \in DOMAIN blocks : k > i /\ k \in Nat /\ i \in Nat
    BY <1>3 DEF IsLatest
  <2>2. i + 1 \in DOMAIN left
    BY <1>1, <2>1, TableFacts
  <2>3. \A j \in DOMAIN left : j \in Nat /\ (j < i \/ j >= i + 1)
    BY <1>1, <2>1, TableFacts
  <2>4. CASE i = 0
    <3>1. IsFirst(left, i + 1) /\ i + 1 # 0
      BY <2>1, <2>3, <2>4 DEF IsFirst
    <3>. QED  BY <2>2, <3>1 DEF StartsAtZero
  <2>5. CASE i > 0
    <3>1. i - 1 \in DOMAIN left
      BY <1>1, <2>1, <2>5, TableFacts
    <3>2. Precedes(left, i - 1, i + 1)
      BY <2>1, <2>3 DEF Precedes
    <3>3. ~BlockLinked(left, i - 1, i + 1)
      BY <2>1 DEF BlockLinked
    <3>. QED  BY <2>2, <3>1, <3>2, <3>3 DEF PassesOneByOne
  <2>. QED  BY <2>1, <2>4, <2>5
<1>. QED  BY <1>2, <1>3, ErrorsFound DEF left

\* validate_chain sees a change of one row unless the canonical string stays as
\* it was, or the row is the latest and gets a new digest or is lost.
THEOREM TamperAlwaysEvident == ExplorerSpec => []TamperEvident
<1>1. ChainInv => TamperEvident
  BY EditFound, RehashFound, RemovalFound DEF TamperEvident
<1>. QED  BY <1>1, ExplorerInvariant, PTL
-----------------------------------------------------------------------------
(***************************************************************************)
(* Rows in the order of their numbers: the rank of a number in a set of    *)
(* numbers, counted from below.                                            *)
(***************************************************************************)
RankIn(S, i) == Cardinality({j \in S : j <= i})

LEMMA RankAtMost ==
    ASSUME NEW S \in SUBSET Nat, IsFiniteSet(S), NEW i \in S
    PROVE  /\ RankIn(S, i) \in 1..Cardinality(S)
           /\ \A k \in S : i < k => RankIn(S, i) < RankIn(S, k)
<1>. DEFINE below(k) == {j \in S : j <= k}
<1>1. \A k \in S : below(k) \in SUBSET S /\ k \in below(k)
  OBVIOUS
<1>2. \A k \in S : /\ IsFiniteSet(below(k)) /\ Cardinality(below(k)) \in Nat
                   /\ Cardinality(below(k)) <= Cardinality(S)
  BY <1>1, FS_Subset, FS_CardinalityType
<1>3. Cardinality(S) \in Nat
  BY FS_CardinalityType
<1>4. RankIn(S, i) # 0
  BY <1>1, <1>2, FS_EmptySet DEF RankIn
<1>5. ASSUME NEW k \in S, i < k PROVE RankIn(S, i) < RankIn(S, k)
  <2>5. \A j \in S : j \in Nat
    OBVIOUS
  <2>6. i \in Nat /\ k \in Nat
    BY <2>5, <1>5
  <2>7. \A j \in S : j <= i => j <= k
    BY <1>5, <2>5, <2>6
  <2>8. k \notin below(i) /\ k \in below(k)
    BY <1>5, <2>6
  <2>1. below(i) \in SUBSET below(k) /\ below(i) # below(k)
    BY <2>7, <2>8
  <2>. HIDE DEF below
  <2>2. Cardinality(below(i)) <= Cardinality(below(k)) /\ Cardinality(below(i)) # Cardinality(below(k))
    BY <1>2, <2>1, FS_Subset
  <2>3. Cardinality(below(i)) \in Nat /\ Cardinality(below(k)) \in Nat
    BY <1>2
  <2>4. Cardinality(below(i)) < Cardinality(below(k))
    BY <2>2, <2>3
  <2>. QED  BY <2>4 DEF RankIn, below
<1>. QED  BY <1>2, <1>3, <1>4, <1>5 DEF RankIn

\* Every rank is taken.
LEMMA RankTaken ==
    ASSUME NEW S \in SUBSET Nat, IsFiniteSet(S), NEW m \in 1..Cardinality(S)
    PROVE  \E i \in S : RankIn(S, i) = m
<1>. DEFINE n == Cardinality(S)
            f == [i \in S |-> RankIn(S, i)]
<1>1. n \in Nat
  BY FS_CardinalityType
<1>2. f \in [S -> 1..n]
  BY RankAtMost
<1>3. ASSUME NEW i \in S, NEW k \in S, f[i] = f[k] PROVE i = k
  <2>1. RankIn(S, i) = RankIn(S, k) /\ RankIn(S, i) \in 1..n /\ i \in Nat /\ k \in Nat
    BY <1>3, RankAtMost
  <2>2. i < k => RankIn(S, i) < RankIn(S, k)
    BY RankAtMost
  <2>3. k < i => RankIn(S, k) < RankIn(S, i)
    BY RankAtMost
  <2>4. ~(i < k) /\ ~(k < i)
    <3>. HIDE DEF n
    <3>. QED  BY <1>1, <2>1, <2>2, <2>3
  <2>. QED  BY <2>1, <2>4
<1>4. IsFiniteSet(1..n) /\ Cardinality(1..n) = n
  <2>. HIDE DEF n
  <2>. QED  BY <1>1, FS_Interval
<1>5. f \in Injection(S, 1..n)
  BY <1>2, <1>3 DEF Injection, IsInjective
<1>6. f \in Surjection(S, 1..n)
  BY <1>4, <1>5, FS_Injection
<1>7. \E i \in S : f[i] = m
  BY <1>6 DEF Surjection
<1>. QED  BY <1>7

\* Latest keeps the rows of the highest ranks.
LEMMA LatestCounted ==
    ASSUME NEW S \in SUBSET Nat, IsFiniteSet(S)
    PROVE  /\ IsFiniteSet(Latest(S))
           /\ Cardinality(Latest(S)) = IF Cardinality(S) <= Limit THEN Cardinality(S) ELSE Limit
<1>. DEFINE n == Cardinality(S)
            low == IF n <= Limit THEN 1 ELSE n - Limit + 1
            g == [i \in Latest(S) |-> RankIn(S, i)]
<1>1. n \in Nat /\ Limit \in Nat \ {0}
  BY FS_CardinalityType, ExplorerAssumption
<1>2. ASSUME NEW i \in S PROVE Cardinality({j \in S : j > i}) = n - RankIn(S, i)
  <2>. DEFINE up == {j \in S : j > i}
              down == {j \in S : j <= i}
  <2>3. \A j \in S : j \in Nat /\ (j > i <=> ~(j <= i))
    BY <1>2
  <2>1. up = S \ down /\ S \cap down = down
    BY <2>3
  <2>. HIDE DEF up, down
  <2>2. Cardinality(up) = Cardinality(S) - Cardinality(down)
    BY <2>1, FS_Difference
  <2>. QED  BY <2>2 DEF up, down, RankIn
<1>3. \A i \in S : i \in Latest(S) <=> RankIn(S, i) \in low..n
  <2>. TAKE i \in S
  <2>1. RankIn(S, i) \in 1..n
    BY RankAtMost
  <2>2. i \in Latest(S) <=> n - RankIn(S, i) < Limit
    BY <1>2 DEF Latest
  <2>. HIDE DEF n
  <2>. QED  BY <1>1, <2>1, <2>2
<1>4. Latest(S) \subseteq S
  BY DEF Latest
<1>5. g \in [Latest(S) -> low..n]
  BY <1>3, <1>4
<1>6. ASSUME NEW i \in Latest(S), NEW k \in Latest(S), g[i] = g[k] PROVE i = k
  <2>1. i \in S /\ k \in S /\ i \in Nat /\ k \in Nat /\ RankIn(S, i) = RankIn(S, k)
    BY <1>4, <1>6
  <2>2. RankIn(S, i) \in 1..n /\ RankIn(S, k) \in 1..n
    BY <2>1, RankAtMost
  <2>3. ~(RankIn(S, i) < RankIn(S, k)) /\ ~(RankIn(S, k) < RankIn(S, i))
    BY <1>1, <2>1, <2>2
  <2>. QED  BY <2>1, <2>3, RankAtMost
<1>7. ASSUME NEW m \in low..n PROVE \E i \in Latest(S) : g[i] = m
  <2>1. m \in 1..n
    BY <1>1
  <2>2. PICK i \in S : RankIn(S, i) = m
    BY <2>1, RankTaken
  <2>. QED  BY <1>3, <2>2
<1>8. ExistsBijection(low..n, Latest(S))
  <2>1. g \in Bijection(Latest(S), low..n)
    BY <1>5, <1>6, <1>7 DEF Bijection, Injection, IsInjective, Surjection
  <2>2. ExistsBijection(Latest(S), low..n)
    BY <2>1 DEF ExistsBijection
  <2>. QED  BY <2>2, Fun_ExistsBijSymmetric
<1>. HIDE DEF n
<1>9. low \in Int /\ n \in Int /\ low <= n + 1 /\ n - low + 1 = IF n <= Limit THEN n ELSE Limit
  BY <1>1
<1>. HIDE DEF low
<1>10. IsFiniteSet(low..n) /\ Cardinality(low..n) = n - low + 1
  BY <1>9, FS_Interval
<1>11. IsFiniteSet(Latest(S)) /\ Cardinality(Latest(S)) = n - low + 1
  BY <1>8, <1>10, FS_Bijection
<1>. QED  BY <1>9, <1>11 DEF n

\* The latest of the numbers up to i are those less than Limit below it.
LEMMA LatestOfInterval ==
    ASSUME NEW i \in Nat
    PROVE  Latest(0..i) = {k \in 0..i : i - k < Limit}
<1>1. ASSUME NEW k \in 0..i PROVE Cardinality({j \in 0..i : j > k}) = i - k
  <2>1. {j \in 0..i : j > k} = (k + 1)..i
    BY <1>1
  <2>2. Cardinality((k + 1)..i) = i - k
    <3>1. k + 1 \in Int /\ i \in Int /\ (k + 1 > i => i - k = 0) /\ i - (k + 1) + 1 = i - k
      BY <1>1
    <3>. QED  BY <3>1, FS_Interval
  <2>. QED  BY <2>1, <2>2
<1>. QED  BY <1>1 DEF Latest

\* What the read endpoints say of one table agrees.
THEOREM QueriesAlwaysAgree == ExplorerSpec => []QueriesAgree
<1>1. ASSUME ChainInv, NEW i \in DOMAIN blocks, IsLatest(i), i <= LastRead
      PROVE  /\ i \in Listed(blocks)
             /\ \A j \in Listed(blocks) : j..i \subseteq Listed(blocks)
             /\ Cardinality(Listed(blocks)) = IF i < Limit THEN i + 1 ELSE Limit
             /\ ChainLength(blocks) = i + 1
             /\ \A d \in Content :
                   LET shown == Cardinality(ListedWith(blocks, d))
                   IN  Distribution(blocks)[d] = shown \/ (Distribution(blocks)[d] > shown /\ shown = Limit)
  <2>1. i \in Nat /\ LastRead \in Nat /\ Limit \in Nat \ {0}
    BY <1>1, TableFacts, ExplorerAssumption
  <2>2. DOMAIN blocks = 0..i
    <3>1. TableInv /\ i + 1 \notin DOMAIN blocks
      BY <1>1, <2>1, SplitInv DEF IsLatest
    <3>. QED  BY <2>1, <3>1, ContiguousDomain
  <2>3. InRange(blocks, 0, LastRead) = 0..i
    BY <1>1, <2>1, <2>2 DEF InRange
  <2>4. Listed(blocks) = {k \in 0..i : i - k < Limit}
    BY <2>1, <2>3, LatestOfInterval DEF Listed
  <2>5. i \in Listed(blocks) /\ \A j \in Listed(blocks) : j..i \subseteq Listed(blocks)
    BY <2>1, <2>4
  <2>6. IsFiniteSet(0..i) /\ Cardinality(0..i) = i + 1
    BY <2>1, FS_Interval
  <2>7. Cardinality(Listed(blocks)) = IF i < Limit THEN i + 1 ELSE Limit
    <3>1. Cardinality(Latest(0..i)) = IF i + 1 <= Limit THEN i + 1 ELSE Limit
      BY <2>1, <2>6, LatestCounted
    <3>. QED  BY <2>1, <2>3, <3>1 DEF Listed
  <2>8. ChainLength(blocks) = i + 1
    BY <2>2, <2>6 DEF ChainLength
  <2>9. ASSUME NEW d \in Content, NEW shown, shown = Cardinality(ListedWith(blocks, d))
        PROVE  Distribution(blocks)[d] = shown \/ (Distribution(blocks)[d] > shown /\ shown = Limit)
    <3>. DEFINE with == {k \in 0..i : blocks[k].data = d}
    <3>1. Distribution(blocks)[d] = Cardinality(with) /\ shown = Cardinality(Latest(with))
      BY <2>2, <2>3, <2>9 DEF Distribution, ListedWith
    <3>2. with \in SUBSET (0..i) /\ with \in SUBSET Nat
      OBVIOUS
    <3>. HIDE DEF with
    <3>3. IsFiniteSet(with) /\ Cardinality(with) \in Nat
      BY <2>6, <3>2, FS_Subset, FS_CardinalityType
    <3>. QED  BY <2>1, <3>1, <3>2, <3>3, LatestCounted
  <2>. QED  BY <2>5, <2>7, <2>8, <2>9
<1>2. ChainInv => QueriesAgree
  BY <1>1, Zenon DEF QueriesAgree
<1>. QED  BY <1>2, ExplorerInvariant, PTL
-----------------------------------------------------------------------------
(***************************************************************************)
(* Merkle roots.  A root is reached through a tower of levels; going down  *)
(* two towers with one root, the levels agree, because no level holds a    *)
(* digest twice.                                                           *)
(***************************************************************************)
\* The library's induction takes an operator; this one takes a set.
LEMMA LeastNumber ==
    ASSUME NEW T, T \subseteq Nat, T # {}
    PROVE  \E n \in T : \A m \in T : n <= m
<1>1. PICK n \in T : \A m \in T : ~(<<m, n>> \in OpToRel(<, Nat))
  BY NatLessThanWellFounded, WFMin
<1>2. \A m \in T : ~(m < n)
  BY <1>1 DEF OpToRel
<1>. QED  BY <1>2

LEMMA Counting ==
    ASSUME NEW S, 0 \in S, \A m \in Nat : m \in S => m + 1 \in S
    PROVE  Nat \subseteq S
<1>. SUFFICES ASSUME Nat \ S # {} PROVE FALSE
  OBVIOUS
<1>1. PICK n \in Nat \ S : \A m \in Nat \ S : n <= m
  BY LeastNumber
<1>2. n # 0 /\ n - 1 \in Nat
  BY <1>1
<1>3. n - 1 \in S
  BY <1>1, <1>2
<1>. QED  BY <1>1, <1>2, <1>3

\* A level: a list that is not empty and holds nothing twice.
IsLevel(s) ==
    /\ Len(s) \in Nat \ {0}
    /\ s = [i \in 1..Len(s) |-> s[i]]
    /\ \A i, j \in 1..Len(s) : s[i] = s[j] => i = j

LEMMA LengthOf ==
    ASSUME NEW n \in Nat, NEW s, s = [i \in 1..n |-> s[i]]
    PROVE  Len(s) = n
<1>. DEFINE R == {s[i] : i \in 1..n}
<1>1. \A i \in 1..n : s[i] \in R
  OBVIOUS
<1>. HIDE DEF R
<1>2. s \in [1..n -> R]
  BY <1>1
<1>. QED  BY <1>2

LEMMA NodeDetermines ==
    ASSUME NEW a, NEW b, NEW c, NEW d, Node(a, b) = Node(c, d)
    PROVE  a = c /\ b = d
<1>1. Node(a, b).left = a /\ Node(a, b).right = b /\ Node(c, d).left = c /\ Node(c, d).right = d
  BY DEF Node
<1>. QED  BY <1>1

\* A leaf, a node and the root of nothing are never the same digest.
LEMMA DigestsDiffer ==
    ASSUME NEW a, NEW b, NEW c
    PROVE  Leaf(a) # Node(b, c) /\ Leaf(a) # EmptyRoot /\ Node(b, c) # EmptyRoot
<1>1. DOMAIN Leaf(a) = {"leaf"} /\ DOMAIN Node(b, c) = {"left", "right"} /\ DOMAIN EmptyRoot = {"empty"}
  BY DEF Leaf, Node, EmptyRoot
<1>. QED  BY <1>1

LEMMA NextLevelShape ==
    ASSUME NEW s, IsLevel(s), Len(s) > 1
    PROVE  /\ IsLevel(NextLevel(s))
           /\ Len(NextLevel(s)) = (Len(s) + 1) \div 2
           /\ Len(NextLevel(s)) < Len(s)
           /\ \A i \in 1..Len(NextLevel(s)) :
                 NextLevel(s)[i] = Node(s[2 * i - 1], s[IF 2 * i <= Len(s) THEN 2 * i ELSE Len(s)])
<1>. DEFINE k == Len(s)
            n == (k + 1) \div 2
            up == NextLevel(s)
            r(i) == IF 2 * i <= k THEN 2 * i ELSE k
<1>1. k \in Nat /\ k > 1
  BY DEF IsLevel
<1>2. up = [i \in 1..n |-> Node(s[2 * i - 1], s[r(i)])]
  BY DEF NextLevel
<1>. HIDE DEF k, up
<1>3. n \in Nat \ {0} /\ n < k
  BY <1>1
<1>4. \A i \in 1..n : 2 * i - 1 \in 1..k /\ 2 * i - 1 \in Nat
  BY <1>1
<1>. HIDE DEF n
<1>5. \A i \in 1..n : up[i] = Node(s[2 * i - 1], s[r(i)])
  BY <1>2
<1>6. up = [i \in 1..n |-> up[i]]
  BY <1>2
<1>7. Len(up) = n
  BY <1>3, <1>6, LengthOf
<1>8. ASSUME NEW i \in 1..n, NEW j \in 1..n, up[i] = up[j] PROVE i = j
  <2>1. s[2 * i - 1] = s[2 * j - 1]
    BY <1>5, <1>8, NodeDetermines
  <2>2. 2 * i - 1 = 2 * j - 1
    BY <1>4, <2>1 DEF IsLevel, k
  <2>. QED  BY <1>3, <2>2
<1>9. IsLevel(up)
  BY <1>3, <1>6, <1>7, <1>8 DEF IsLevel
<1>. QED  BY <1>3, <1>5, <1>7, <1>9 DEF up, n, k

\* Going down one level: no level is another one with its last digest repeated.
LEMMA LevelsBelowAgree ==
    ASSUME NEW s, NEW t, IsLevel(s), IsLevel(t), Len(s) > 1, Len(t) > 1,
           NextLevel(s) = NextLevel(t)
    PROVE  s = t
<1>. DEFINE k == Len(s)
            l == Len(t)
            n == Len(NextLevel(s))
            r(i, m) == IF 2 * i <= m THEN 2 * i ELSE m
<1>1. k \in Nat /\ l \in Nat /\ k > 1 /\ l > 1 /\ n = (k + 1) \div 2 /\ n = (l + 1) \div 2
  BY NextLevelShape DEF IsLevel
<1>2. \A i \in 1..n : Node(s[2 * i - 1], s[r(i, k)]) = Node(t[2 * i - 1], t[r(i, l)])
  BY NextLevelShape
<1>. HIDE DEF n
<1>3. \A i \in 1..n : s[2 * i - 1] = t[2 * i - 1] /\ s[r(i, k)] = t[r(i, l)]
  <2>. TAKE i \in 1..n
  <2>. QED  BY <1>2, NodeDetermines
<1>4. /\ \A i, j \in 1..k : s[i] = s[j] => i = j
      /\ \A i, j \in 1..l : t[i] = t[j] => i = j
      /\ s = [i \in 1..k |-> s[i]] /\ t = [i \in 1..l |-> t[i]]
  BY DEF IsLevel
<1>. HIDE DEF k, l
<1>5. n \in Nat /\ n \in 1..n
  BY <1>1
<1>6. s[2 * n - 1] = t[2 * n - 1] /\ s[r(n, k)] = t[r(n, l)]
  BY <1>3, <1>5
<1>7. k = l
  <2>1. CASE k = 2 * n /\ l = 2 * n - 1
    <3>1. s[2 * n] = t[2 * n - 1] /\ 2 * n \in 1..k /\ 2 * n - 1 \in 1..k
      BY <1>1, <1>5, <1>6, <2>1
    <3>. QED  BY <1>4, <1>5, <1>6, <3>1
  <2>2. CASE k = 2 * n - 1 /\ l = 2 * n
    <3>1. t[2 * n] = s[2 * n - 1] /\ 2 * n \in 1..l /\ 2 * n - 1 \in 1..l
      BY <1>1, <1>5, <1>6, <2>2
    <3>. QED  BY <1>4, <1>5, <1>6, <3>1
  <2>. QED  BY <1>1, <1>5, <2>1, <2>2
<1>8. ASSUME NEW j \in 1..k PROVE s[j] = t[j]
  <2>1. PICK i \in 1..n : j = 2 * i - 1 \/ (j = 2 * i /\ 2 * i <= k)
    <3>1. (j + 1) \div 2 \in 1..n
      BY <1>1, <1>8
    <3>2. j = 2 * ((j + 1) \div 2) - 1 \/ (j = 2 * ((j + 1) \div 2) /\ 2 * ((j + 1) \div 2) <= k)
      BY <1>1, <1>8
    <3>. QED  BY <3>1, <3>2
  <2>. QED  BY <1>3, <1>7, <2>1
<1>. QED  BY <1>4, <1>7, <1>8

\* One turn of the loop, and the levels it passes through.
StepUp(below) == IF Len(below) > 1 THEN NextLevel(below) ELSE below
IsLoop(up, s, n) == up = [l \in 0..n |-> IF l = 0 THEN s ELSE StepUp(up[l - 1])]

\* The recursive function in MerkleRoot exists.
LEMMA LoopExists ==
    ASSUME NEW s, NEW n \in Nat
    PROVE  \E up : IsLoop(up, s, n)
<1>. DEFINE S == {m \in Nat : \E up : IsLoop(up, s, m)}
<1>1. 0 \in S
  <2>1. IsLoop([l \in 0..0 |-> s], s, 0)
    BY DEF IsLoop
  <2>. QED  BY <2>1
<1>2. ASSUME NEW m \in Nat, m \in S PROVE m + 1 \in S
  <2>1. PICK up : IsLoop(up, s, m)
    BY <1>2
  <2>. DEFINE more == [l \in 0..m + 1 |-> IF l = m + 1 THEN StepUp(up[m]) ELSE up[l]]
  <2>2. ASSUME NEW l \in 0..m + 1
        PROVE  more[l] = IF l = 0 THEN s ELSE StepUp(more[l - 1])
    <3>1. CASE l = 0
      BY <2>1, <3>1 DEF IsLoop
    <3>2. CASE l # 0 /\ l <= m
      <4>1. l \in 0..m /\ l - 1 \in 0..m /\ l # m + 1 /\ l - 1 # m + 1
        BY <3>2
      <4>2. more[l] = up[l] /\ more[l - 1] = up[l - 1]
        BY <4>1
      <4>3. up[l] = StepUp(up[l - 1])
        BY <2>1, <3>2, <4>1 DEF IsLoop
      <4>. QED  BY <3>2, <4>2, <4>3
    <3>3. CASE l = m + 1
      <4>1. more[l] = StepUp(up[m]) /\ more[l - 1] = up[m] /\ l # 0
        BY <3>3
      <4>. QED  BY <4>1
    <3>. QED  BY <3>1, <3>2, <3>3
  <2>3. more = [l \in 0..m + 1 |-> more[l]]
    OBVIOUS
  <2>. HIDE DEF more
  <2>4. IsLoop(more, s, m + 1)
    BY <2>2, <2>3 DEF IsLoop
  <2>. QED  BY <2>4
<1>3. Nat \subseteq S
  <2>. HIDE DEF S
  <2>. QED  BY <1>1, <1>2, Counting
<1>. QED  BY <1>3

LEMMA MerkleLoop ==
    ASSUME NEW s, IsLevel(s)
    PROVE  \E up : IsLoop(up, s, Len(s)) /\ MerkleRoot(s) = up[Len(s)][1]
<1>. DEFINE n == Len(s)
            up[level \in 0..n] ==
                IF level = 0 THEN s
                ELSE LET below == up[level - 1]
                     IN  IF Len(below) > 1 THEN NextLevel(below) ELSE below
<1>1. n \in Nat \ {0}
  BY DEF IsLevel
<1>2. s # <<>>
  BY <1>1
<1>3. MerkleRoot(s) = up[n][1]
  BY <1>2 DEF MerkleRoot
<1>4. IsLoop(up, s, n)
  <2>. HIDE DEF n
  <2>1. PICK g : IsLoop(g, s, n)
    BY <1>1, LoopExists
  <2>. QED  BY <2>1 DEF IsLoop, StepUp
<1>. HIDE DEF up
<1>. QED  BY <1>3, <1>4

LEMMA StepUpShape ==
    ASSUME NEW s, IsLevel(s)
    PROVE  /\ IsLevel(StepUp(s))
           /\ Len(s) = 1 => StepUp(s) = s
           /\ Len(s) > 1 => StepUp(s) = NextLevel(s) /\ Len(StepUp(s)) < Len(s)
<1>1. Len(s) \in Nat \ {0}
  BY DEF IsLevel
<1>. QED  BY <1>1, NextLevelShape DEF StepUp

\* h levels above s there is a single digest.
IsTower(up, s, h) ==
    /\ up[0] = s
    /\ \A l \in 0..h : IsLevel(up[l])
    /\ \A l \in Nat : l < h => Len(up[l]) > 1 /\ up[l + 1] = NextLevel(up[l])
    /\ Len(up[h]) = 1

LEMMA TowerExists ==
    ASSUME NEW s, IsLevel(s)
    PROVE  \E up : \E h \in Nat : IsTower(up, s, h) /\ MerkleRoot(s) = up[h][1]
<1>1. PICK up : IsLoop(up, s, Len(s)) /\ MerkleRoot(s) = up[Len(s)][1]
  BY MerkleLoop
<1>. DEFINE n == Len(s)
<1>2. n \in Nat \ {0}
  BY DEF IsLevel
<1>. HIDE DEF n
<1>3. up[0] = s /\ \A l \in Nat : l < n => up[l + 1] = StepUp(up[l])
  <2>1. up = [l \in 0..n |-> IF l = 0 THEN s ELSE StepUp(up[l - 1])]
    BY <1>1 DEF IsLoop, n
  <2>2. ASSUME NEW l \in Nat, l < n PROVE up[l + 1] = StepUp(up[l])
    <3>1. l + 1 \in 0..n /\ l + 1 # 0 /\ (l + 1) - 1 = l
      BY <1>2, <2>2
    <3>. QED  BY <2>1, <3>1
  <2>. QED  BY <1>2, <2>1, <2>2
\* Each turn shortens the level, until one digest is left.
<1>4. \A l \in 0..n : IsLevel(up[l]) /\ (Len(up[l]) = 1 \/ Len(up[l]) <= n - l)
  <2>. DEFINE S == {l \in Nat : l <= n => IsLevel(up[l]) /\ (Len(up[l]) = 1 \/ Len(up[l]) <= n - l)}
  <2>1. 0 \in S
    BY <1>2, <1>3 DEF n
  <2>2. ASSUME NEW m \in Nat, m \in S PROVE m + 1 \in S
    <3>. SUFFICES ASSUME m + 1 <= n
                  PROVE  IsLevel(up[m + 1]) /\ (Len(up[m + 1]) = 1 \/ Len(up[m + 1]) <= n - (m + 1))
      OBVIOUS
    <3>1. up[m + 1] = StepUp(up[m]) /\ IsLevel(up[m]) /\ (Len(up[m]) = 1 \/ Len(up[m]) <= n - m)
      BY <1>2, <1>3, <2>2
    <3>2. IsLevel(up[m + 1])
      BY <3>1, StepUpShape
    <3>3. Len(up[m]) \in Nat \ {0} /\ Len(up[m + 1]) \in Nat \ {0}
      BY <3>1, <3>2 DEF IsLevel
    <3>4. Len(up[m]) = 1 => Len(up[m + 1]) = 1
      BY <3>1, StepUpShape
    <3>5. Len(up[m]) > 1 => Len(up[m + 1]) < Len(up[m])
      BY <3>1, StepUpShape
    <3>6. \A a, b \in Nat \ {0} : /\ a = 1 \/ a <= n - m
                                  /\ a = 1 => b = 1
                                  /\ a > 1 => b < a
                                  => b = 1 \/ b <= n - (m + 1)
      BY <1>2
    <3>7. Len(up[m + 1]) = 1 \/ Len(up[m + 1]) <= n - (m + 1)
      BY <3>1, <3>3, <3>4, <3>5, <3>6, Zenon
    <3>. QED  BY <3>2, <3>7
  <2>3. Nat \subseteq S
    <3>. HIDE DEF S
    <3>. QED  BY <2>1, <2>2, Counting
  <2>. QED  BY <1>2, <2>3
<1>5. \A l \in 0..n : Len(up[l]) \in Nat \ {0}
  BY <1>4 DEF IsLevel
<1>6. Len(up[n]) = 1
  BY <1>2, <1>4, <1>5
<1>. DEFINE T == {l \in 0..n : Len(up[l]) = 1}
<1>7. PICK h \in T : \A l \in T : h <= l
  <2>1. T \subseteq Nat /\ T # {}
    BY <1>2, <1>6
  <2>. HIDE DEF T
  <2>. QED  BY <2>1, LeastNumber
<1>8. h \in 0..n /\ h \in Nat /\ Len(up[h]) = 1
  BY <1>2, <1>7
<1>9. \A l \in Nat : l < h => Len(up[l]) > 1
  <2>. TAKE l \in Nat
  <2>. HAVE l < h
  <2>1. l \in 0..n /\ l \notin T
    BY <1>2, <1>7, <1>8
  <2>2. Len(up[l]) \in Nat \ {0} /\ Len(up[l]) # 1
    BY <1>5, <2>1
  <2>3. \A k \in Nat \ {0} : k # 1 => k > 1
    OBVIOUS
  <2>. QED  BY <2>2, <2>3, Zenon
<1>10. IsTower(up, s, h)
  <2>1. \A l \in Nat : l < h => up[l + 1] = NextLevel(up[l])
    <3>. TAKE l \in Nat
    <3>. HAVE l < h
    <3>1. l < n /\ l \in 0..n
      BY <1>2, <1>8
    <3>. QED  BY <1>3, <1>4, <1>9, <3>1, StepUpShape
  <2>2. \A l \in 0..h : l \in 0..n
    BY <1>2, <1>8
  <2>. QED  BY <1>3, <1>4, <1>8, <1>9, <2>1, <2>2 DEF IsTower
<1>11. up[n] = up[h]
  <2>. DEFINE S == {k \in Nat : h + k <= n => up[h + k] = up[h]}
  <2>1. 0 \in S
    BY <1>8
  <2>2. ASSUME NEW k \in Nat, k \in S PROVE k + 1 \in S
    <3>. SUFFICES ASSUME h + (k + 1) <= n PROVE up[h + (k + 1)] = up[h]
      OBVIOUS
    <3>1. h + k \in Nat /\ h + k < n /\ (h + k) + 1 = h + (k + 1) /\ up[h + k] = up[h]
      BY <1>2, <1>8, <2>2
    <3>2. up[h + (k + 1)] = StepUp(up[h])
      BY <1>3, <3>1
    <3>. QED  BY <1>4, <1>8, <3>2, StepUpShape
  <2>3. Nat \subseteq S
    <3>. HIDE DEF S
    <3>. QED  BY <2>1, <2>2, Counting
  <2>4. n - h \in Nat /\ h + (n - h) = n
    BY <1>2, <1>8
  <2>. QED  BY <2>3, <2>4
<1>. QED  BY <1>1, <1>8, <1>10, <1>11 DEF n

\* Two towers with one root, the first no higher than the second: going down they
\* agree as far as the first one reaches.
LEMMA TowersAgree ==
    ASSUME NEW s, NEW t, NEW up, NEW vp, NEW h \in Nat, NEW e \in Nat, h <= e,
           IsTower(up, s, h), IsTower(vp, t, e), up[h][1] = vp[e][1]
    PROVE  s = vp[e - h]
<1>. DEFINE S == {k \in Nat : k <= h => up[h - k] = vp[e - k]}
<1>1. 0 \in S
  <2>1. IsLevel(up[h]) /\ IsLevel(vp[e]) /\ Len(up[h]) = 1 /\ Len(vp[e]) = 1
    BY DEF IsTower
  <2>2. up[h] = [i \in 1..1 |-> up[h][i]] /\ vp[e] = [i \in 1..1 |-> vp[e][i]]
    BY <2>1 DEF IsLevel
  <2>3. \A i \in 1..1 : up[h][i] = vp[e][i]
    OBVIOUS
  <2>4. up[h] = vp[e]
    BY <2>2, <2>3
  <2>. QED  BY <2>4
<1>2. ASSUME NEW k \in Nat, k \in S PROVE k + 1 \in S
  <2>. SUFFICES ASSUME k + 1 <= h PROVE up[h - (k + 1)] = vp[e - (k + 1)]
    OBVIOUS
  <2>. DEFINE i == h - (k + 1)
              j == e - (k + 1)
  <2>1. i \in Nat /\ j \in Nat /\ i < h /\ j < e /\ i + 1 = h - k /\ j + 1 = e - k /\ i \in 0..h /\ j \in 0..e
    OBVIOUS
  <2>2. up[i + 1] = vp[j + 1]
    BY <1>2, <2>1
  <2>. HIDE DEF i, j
  <2>3. /\ IsLevel(up[i]) /\ Len(up[i]) > 1 /\ up[i + 1] = NextLevel(up[i])
        /\ IsLevel(vp[j]) /\ Len(vp[j]) > 1 /\ vp[j + 1] = NextLevel(vp[j])
    BY <2>1 DEF IsTower
  <2>4. up[i] = vp[j]
    BY <2>2, <2>3, LevelsBelowAgree
  <2>. QED  BY <2>4 DEF i, j
<1>3. h \in S
  <2>. HIDE DEF S
  <2>. QED  BY <1>1, <1>2, Counting
<1>4. up[0] = vp[e - h]
  BY <1>3
<1>. QED  BY <1>4 DEF IsTower

HoldsLeaves(s) == \A i \in 1..Len(s) : \E x : s[i] = Leaf(x)

\* Above the leaves every digest is a node.
LEMMA NodesAbove ==
    ASSUME NEW t, NEW vp, NEW e \in Nat, NEW l \in Nat, 0 < l, l <= e, IsTower(vp, t, e)
    PROVE  1 \in 1..Len(vp[l]) /\ \E x, y : vp[l][1] = Node(x, y)
<1>1. l - 1 \in Nat /\ l - 1 < e /\ (l - 1) + 1 = l /\ l - 1 \in 0..e
  OBVIOUS
<1>2. IsLevel(vp[l - 1]) /\ Len(vp[l - 1]) > 1 /\ vp[l] = NextLevel(vp[l - 1])
  BY <1>1 DEF IsTower
<1>3. Len(vp[l]) \in Nat \ {0}
  BY <1>2, NextLevelShape DEF IsLevel
<1>4. 1 \in 1..Len(vp[l])
  BY <1>3
<1>. QED  BY <1>2, <1>4, NextLevelShape

LEMMA LowerTower ==
    ASSUME NEW s, NEW t, NEW up, NEW vp, NEW h \in Nat, NEW e \in Nat, h <= e,
           IsTower(up, s, h), IsTower(vp, t, e), up[h][1] = vp[e][1], HoldsLeaves(s)
    PROVE  s = t
<1>1. s = vp[e - h]
  BY TowersAgree
<1>2. CASE h = e
  BY <1>1, <1>2 DEF IsTower
<1>3. CASE h < e
  <2>1. e - h \in Nat /\ 0 < e - h /\ e - h <= e
    BY <1>3
  <2>2. 1 \in 1..Len(s) /\ \E x, y : s[1] = Node(x, y)
    BY <1>1, <2>1, NodesAbove
  <2>. QED  BY <2>2, DigestsDiffer DEF HoldsLeaves
<1>. QED  BY <1>2, <1>3

\* Lists of different leaves with one root are one list.
LEMMA MerkleInjective ==
    ASSUME NEW s, NEW t, IsLevel(s), IsLevel(t), HoldsLeaves(s), HoldsLeaves(t),
           MerkleRoot(s) = MerkleRoot(t)
    PROVE  s = t
<1>1. PICK up : \E h \in Nat : IsTower(up, s, h) /\ MerkleRoot(s) = up[h][1]
  BY TowerExists
<1>2. PICK h \in Nat : IsTower(up, s, h) /\ MerkleRoot(s) = up[h][1]
  BY <1>1
<1>3. PICK vp : \E e \in Nat : IsTower(vp, t, e) /\ MerkleRoot(t) = vp[e][1]
  BY TowerExists
<1>4. PICK e \in Nat : IsTower(vp, t, e) /\ MerkleRoot(t) = vp[e][1]
  BY <1>3
<1>5. up[h][1] = vp[e][1]
  BY <1>2, <1>4
<1>6. CASE h <= e
  BY <1>2, <1>4, <1>5, <1>6, LowerTower
<1>7. CASE e <= h
  BY <1>2, <1>4, <1>5, <1>7, LowerTower
<1>. QED  BY <1>6, <1>7

\* No list has the root of the empty one.
LEMMA RootNotEmpty ==
    ASSUME NEW s, IsLevel(s), HoldsLeaves(s)
    PROVE  MerkleRoot(s) # EmptyRoot
<1>1. PICK up : \E h \in Nat : IsTower(up, s, h) /\ MerkleRoot(s) = up[h][1]
  BY TowerExists
<1>2. PICK h \in Nat : IsTower(up, s, h) /\ MerkleRoot(s) = up[h][1]
  BY <1>1
<1>3. CASE h = 0
  <2>1. up[h] = s /\ 1 \in 1..Len(s)
    BY <1>2, <1>3 DEF IsTower
  <2>. QED  BY <1>2, <2>1, DigestsDiffer DEF HoldsLeaves
<1>4. CASE h > 0
  BY <1>2, <1>4, NodesAbove, DigestsDiffer
<1>. QED  BY <1>3, <1>4

-----------------------------------------------------------------------------
(***************************************************************************)
(* From the root of some rows back to the rows: their order is that of     *)
(* their ranks, and a digest belongs to one number.                        *)
(***************************************************************************)
\* Rows whose digests were computed for their own numbers.
HoldsDigests(table, rows) ==
    /\ rows \in SUBSET Nat /\ IsFiniteSet(rows)
    /\ \A i \in rows : \E p \in Digest, d \in Content : table[i].hash = Hash(i, p, d)

\* Such a digest determines the number.
LEMMA HashNumbers ==
    ASSUME NEW i \in Nat, NEW j \in Nat, NEW p \in Digest, NEW q \in Digest,
           NEW d \in Content, NEW e \in Content, Hash(i, p, d) = Hash(j, q, e)
    PROVE  i = j
<1>0. Canonical[d] \in Text /\ Canonical[e] \in Text
  BY DEF Text
<1>1. /\ Len(Hash(i, p, d)) = Len(p) + 1 /\ Len(Hash(j, q, e)) = Len(q) + 1
      /\ Len(p) \in Nat /\ Len(q) \in Nat
  BY <1>0 DEF Hash, Digest
<1>2. Len(p) = Len(q)
  BY <1>1
<1>3. /\ Hash(i, p, d)[Len(p) + 1] = <<i, Canonical[d]>>
      /\ Hash(j, q, e)[Len(q) + 1] = <<j, Canonical[e]>>
  BY <1>0 DEF Hash, Digest
<1>4. <<i, Canonical[d]>> = <<j, Canonical[e]>>
  BY <1>2, <1>3
<1>. QED  BY <1>4

LEMMA DigestNumbers ==
    ASSUME NEW table, NEW rows, NEW other, NEW more, HoldsDigests(table, rows),
           HoldsDigests(other, more), NEW i \in rows, NEW j \in more,
           table[i].hash = other[j].hash
    PROVE  i = j
<1>1. PICK p \in Digest, d \in Content : table[i].hash = Hash(i, p, d)
  BY DEF HoldsDigests
<1>2. PICK q \in Digest, e \in Content : other[j].hash = Hash(j, q, e)
  BY DEF HoldsDigests
<1>3. i \in Nat /\ j \in Nat /\ Hash(i, p, d) = Hash(j, q, e)
  BY <1>1, <1>2 DEF HoldsDigests
<1>. QED  BY <1>3, HashNumbers

Nth(rows, n) == CHOOSE i \in rows : RankIn(rows, i) = n

LEMMA NthRow ==
    ASSUME NEW rows \in SUBSET Nat, IsFiniteSet(rows)
    PROVE  /\ \A n \in 1..Cardinality(rows) : Nth(rows, n) \in rows /\ RankIn(rows, Nth(rows, n)) = n
           /\ \A i \in rows : RankIn(rows, i) \in 1..Cardinality(rows) /\ Nth(rows, RankIn(rows, i)) = i
<1>1. \A n \in 1..Cardinality(rows) : Nth(rows, n) \in rows /\ RankIn(rows, Nth(rows, n)) = n
  BY RankTaken DEF Nth
<1>2. ASSUME NEW i \in rows
      PROVE  RankIn(rows, i) \in 1..Cardinality(rows) /\ Nth(rows, RankIn(rows, i)) = i
  <2>. DEFINE k == Nth(rows, RankIn(rows, i))
  <2>1. RankIn(rows, i) \in 1..Cardinality(rows)
    BY RankAtMost
  <2>2. k \in rows /\ RankIn(rows, k) = RankIn(rows, i)
    BY <1>1, <2>1
  <2>. HIDE DEF k
  <2>3. i \in Nat /\ k \in Nat /\ Cardinality(rows) \in Nat
    BY <2>2, FS_CardinalityType
  <2>4. ~(RankIn(rows, i) < RankIn(rows, k)) /\ ~(RankIn(rows, k) < RankIn(rows, i))
    BY <2>1, <2>2, <2>3
  <2>5. ~(i < k) /\ ~(k < i)
    BY <2>2, <2>4, RankAtMost
  <2>6. k = i
    BY <2>3, <2>5
  <2>. QED  BY <2>1, <2>6 DEF k
<1>. QED  BY <1>1, <1>2

LEMMA OrderedColumn ==
    ASSUME NEW table, NEW rows
    PROVE  InOrder(HashColumn(table, rows)) =
              [n \in 1..Cardinality(rows) |-> Leaf(HashColumn(table, rows)[Nth(rows, n)])]
<1>1. DOMAIN HashColumn(table, rows) = rows
  BY DEF HashColumn
<1>. QED  BY <1>1 DEF InOrder, Nth, RankIn

LEMMA LeafDetermines ==
    ASSUME NEW a, NEW b, Leaf(a) = Leaf(b)
    PROVE  a = b
<1>1. Leaf(a).leaf = a /\ Leaf(b).leaf = b
  BY DEF Leaf
<1>. QED  BY <1>1

LEMMA ColumnShape ==
    ASSUME NEW table, NEW rows, HoldsDigests(table, rows), rows # {}
    PROVE  LET s == InOrder(HashColumn(table, rows))
           IN  /\ IsLevel(s) /\ HoldsLeaves(s) /\ Len(s) = Cardinality(rows)
               /\ \A i \in rows : s[RankIn(rows, i)] = Leaf(table[i].hash)
<1>. DEFINE s == InOrder(HashColumn(table, rows))
            n == Cardinality(rows)
<1>1. rows \in SUBSET Nat /\ IsFiniteSet(rows) /\ n \in Nat \ {0}
  BY FS_CardinalityType, FS_EmptySet DEF HoldsDigests
<1>2. \A i \in rows : HashColumn(table, rows)[i] = table[i].hash
  BY DEF HashColumn
<1>3. \A k \in 1..n : Nth(rows, k) \in rows /\ RankIn(rows, Nth(rows, k)) = k
  BY <1>1, NthRow
<1>4. s = [k \in 1..n |-> Leaf(HashColumn(table, rows)[Nth(rows, k)])]
  BY OrderedColumn
<1>. HIDE DEF s, n
<1>5. \A k \in 1..n : s[k] = Leaf(table[Nth(rows, k)].hash)
  BY <1>2, <1>3, <1>4
<1>6. s = [k \in 1..n |-> s[k]]
  BY <1>4
<1>7. Len(s) = n
  BY <1>1, <1>6, LengthOf
<1>8. ASSUME NEW k \in 1..n, NEW l \in 1..n, s[k] = s[l] PROVE k = l
  <2>1. table[Nth(rows, k)].hash = table[Nth(rows, l)].hash
    BY <1>5, <1>8, LeafDetermines
  <2>2. Nth(rows, k) = Nth(rows, l)
    BY <1>3, <2>1, DigestNumbers
  <2>. QED  BY <1>3, <2>2
<1>9. IsLevel(s)
  BY <1>1, <1>6, <1>7, <1>8 DEF IsLevel
<1>10. HoldsLeaves(s)
  BY <1>5, <1>7 DEF HoldsLeaves
<1>11. \A i \in rows : s[RankIn(rows, i)] = Leaf(table[i].hash)
  <2>. TAKE i \in rows
  <2>1. RankIn(rows, i) \in 1..n /\ Nth(rows, RankIn(rows, i)) = i
    BY <1>1, NthRow DEF n
  <2>. QED  BY <1>5, <2>1
<1>. QED  BY <1>7, <1>9, <1>10, <1>11 DEF s, n

\* One root, one set of rows and one digest for each.
LEMMA RootDetermines ==
    ASSUME NEW table, NEW rows, NEW other, NEW more, HoldsDigests(table, rows), rows # {},
           HoldsDigests(other, more), RootOf(table, rows) = RootOf(other, more)
    PROVE  rows = more /\ \A i \in rows : table[i].hash = other[i].hash
<1>. DEFINE s == InOrder(HashColumn(table, rows))
            t == InOrder(HashColumn(other, more))
<1>1. /\ IsLevel(s) /\ HoldsLeaves(s) /\ Len(s) = Cardinality(rows)
      /\ \A i \in rows : s[RankIn(rows, i)] = Leaf(table[i].hash)
  BY ColumnShape
<1>2. MerkleRoot(s) = MerkleRoot(t)
  BY DEF RootOf
<1>3. more # {}
  <2>. SUFFICES ASSUME more = {} PROVE FALSE
    OBVIOUS
  <2>1. t = <<>>
    <3>1. Cardinality(more) = 0 /\ 1..0 = {}
      BY FS_EmptySet
    <3>2. t = [n \in {} |-> Leaf(HashColumn(other, more)[Nth(more, n)])]
      BY <3>1, OrderedColumn
    <3>. QED  BY <3>2
  <2>2. MerkleRoot(t) = EmptyRoot
    BY <2>1 DEF MerkleRoot
  <2>. QED  BY <1>1, <1>2, <2>2, RootNotEmpty
<1>4. /\ IsLevel(t) /\ HoldsLeaves(t) /\ Len(t) = Cardinality(more)
      /\ \A i \in more : t[RankIn(more, i)] = Leaf(other[i].hash)
  BY <1>3, ColumnShape
<1>. HIDE DEF s, t
<1>5. s = t
  BY <1>1, <1>2, <1>4, MerkleInjective
<1>6. Cardinality(rows) = Cardinality(more)
  BY <1>1, <1>4, <1>5
<1>7. rows \in SUBSET Nat /\ IsFiniteSet(rows) /\ more \in SUBSET Nat /\ IsFiniteSet(more)
  BY DEF HoldsDigests
<1>8. ASSUME NEW i \in rows PROVE i \in more /\ table[i].hash = other[i].hash
  <2>. DEFINE n == RankIn(rows, i)
  <2>1. n \in 1..Cardinality(more)
    BY <1>6, <1>7, NthRow
  <2>2. PICK j \in more : RankIn(more, j) = n
    BY <1>7, <2>1, RankTaken
  <2>3. Leaf(table[i].hash) = Leaf(other[j].hash)
    BY <1>1, <1>4, <1>5, <2>2
  <2>4. table[i].hash = other[j].hash
    BY <2>3, LeafDetermines
  <2>5. i = j
    BY <2>4, DigestNumbers
  <2>. QED  BY <2>4, <2>5
<1>9. rows = more
  <2>1. rows \in SUBSET more
    BY <1>8
  <2>. QED  BY <1>6, <1>7, <2>1, FS_Subset
<1>. QED  BY <1>8, <1>9

\* The rows of the table, of a range of it, and of the table after a change.
LEMMA TableHoldsDigests ==
    ASSUME ChainInv, TableShape, NEW rows \in SUBSET (DOMAIN blocks)
    PROVE  HoldsDigests(blocks, rows)
<1>1. IsFiniteSet(DOMAIN blocks)
  <2>1. ASSUME NEW t \in Nat PROVE IsFiniteSet(0..t)
    BY FS_Interval
  <2>. QED  BY <2>1, FS_EmptySet DEF TableShape
<1>2. IsFiniteSet(rows)
  BY <1>1, FS_Subset
<1>3. rows \in SUBSET Nat
  BY TableFacts
<1>4. \A i \in rows : \E p \in Digest, d \in Content : blocks[i].hash = Hash(i, p, d)
  BY TableFacts DEF Block
<1>. QED  BY <1>2, <1>3, <1>4 DEF HoldsDigests

LEMMA RehashedHoldsDigests ==
    ASSUME ChainInv, TableShape, NEW i \in DOMAIN blocks, NEW d \in Content
    PROVE  HoldsDigests(Rehashed(i, d), DOMAIN blocks)
<1>1. HoldsDigests(blocks, DOMAIN blocks)
  BY TableHoldsDigests
<1>2. ASSUME NEW k \in DOMAIN blocks
      PROVE  \E p \in Digest, e \in Content : Rehashed(i, d)[k].hash = Hash(k, p, e)
  <2>1. CASE k = i
    <3>1. blocks[i].prev \in Digest
      BY TableFacts DEF Block
    <3>. QED  BY <2>1, <3>1, RehashedRows
  <2>2. CASE k # i
    <3>1. Rehashed(i, d)[k] = blocks[k]
      BY <2>2, RehashedRows
    <3>2. \E p \in Digest, e \in Content : blocks[k].hash = Hash(k, p, e)
      BY <1>1 DEF HoldsDigests
    <3>. QED  BY <3>1, <3>2
  <2>. QED  BY <2>1, <2>2
<1>. QED  BY <1>1, <1>2 DEF HoldsDigests

LEMMA RemovedHoldsDigests ==
    ASSUME ChainInv, TableShape, NEW i \in DOMAIN blocks
    PROVE  HoldsDigests(Removed(i), DOMAIN blocks \ {i})
<1>1. HoldsDigests(blocks, DOMAIN blocks \ {i})
  BY TableHoldsDigests
<1>2. \A k \in DOMAIN blocks \ {i} : Removed(i)[k] = blocks[k]
  BY DEF Removed
<1>. QED  BY <1>1, <1>2 DEF HoldsDigests

\* Every range of the chain has a root of its own.
LEMMA RangesDiffer ==
    ASSUME ChainInv, TableShape, NEW p \in Nat \X Nat, NEW q \in Nat \X Nat,
           p[1] \in DOMAIN blocks, p[2] \in DOMAIN blocks, p[1] <= p[2],
           q[1] \in DOMAIN blocks, q[2] \in DOMAIN blocks, q[1] <= q[2],
           EpochRoot(blocks, p[1], p[2]) = EpochRoot(blocks, q[1], q[2])
    PROVE  p = q
<1>1. ASSUME NEW a \in DOMAIN blocks, NEW b \in DOMAIN blocks
      PROVE  InRange(blocks, a, b) = a..b
  <2>1. a \in Nat /\ b \in Nat /\ 0..b \subseteq DOMAIN blocks /\ DOMAIN blocks \subseteq Nat
    BY TableFacts DEF ChainInv, Contiguous
  <2>2. a..b \subseteq 0..b
    BY <2>1
  <2>3. a..b \subseteq DOMAIN blocks
    BY <2>1, <2>2
  <2>. QED  BY <2>1, <2>3 DEF InRange
<1>. DEFINE R == InRange(blocks, p[1], p[2])
            Q == InRange(blocks, q[1], q[2])
<1>2. R = p[1]..p[2] /\ Q = q[1]..q[2]
  BY <1>1
<1>3. R \in SUBSET (DOMAIN blocks) /\ Q \in SUBSET (DOMAIN blocks)
  BY DEF InRange
<1>4. HoldsDigests(blocks, R) /\ HoldsDigests(blocks, Q) /\ RootOf(blocks, R) = RootOf(blocks, Q)
  BY <1>3, TableHoldsDigests DEF EpochRoot
<1>5. R # {}
  BY <1>2
<1>. HIDE DEF R, Q
<1>6. R = Q
  BY <1>4, <1>5, RootDetermines
<1>7. \A a, b, c, d \in Nat : a <= b /\ c <= d /\ a..b = c..d => a = c /\ b = d
  <2>. SUFFICES ASSUME NEW a \in Nat, NEW b \in Nat, NEW c \in Nat, NEW d \in Nat,
                       a <= b, c <= d, a..b = c..d
                PROVE  a = c /\ b = d
    OBVIOUS
  <2>1. a \in c..d /\ b \in c..d /\ c \in a..b /\ d \in a..b
    OBVIOUS
  <2>. QED  BY <2>1
<1>8. p[1] = q[1] /\ p[2] = q[2]
  BY <1>2, <1>6, <1>7
<1>. QED  BY <1>8

\* No two ranges of the chain share a root, and no change of what is hashed of
\* one row leaves the root of the whole as it was.
THEOREM RootsAlwaysDistinguish == ExplorerSpec => []RootsDistinguish
<1>1. ASSUME ChainInv, TableShape PROVE RootsDistinguish
  <2>. DEFINE rows == DOMAIN blocks
              ranges == {p \in rows \X rows : p[1] <= p[2]}
              before == RootOf(blocks, rows)
              roots == {EpochRoot(blocks, p[1], p[2]) : p \in ranges}
  <2>1. Cardinality(roots) = Cardinality(ranges)
    <3>. DEFINE f == [p \in ranges |-> EpochRoot(blocks, p[1], p[2])]
    <3>1. rows \subseteq Nat /\ IsFiniteSet(rows)
      BY <1>1, TableHoldsDigests DEF HoldsDigests
    <3>2. IsFiniteSet(ranges)
      <4>. HIDE DEF rows
      <4>1. IsFiniteSet(rows \X rows)
        BY <3>1, FS_Product
      <4>. QED  BY <4>1, FS_Subset
    <3>3. \A p \in ranges : p \in Nat \X Nat /\ p[1] \in rows /\ p[2] \in rows /\ p[1] <= p[2]
      BY <3>1
    <3>4. \A p \in ranges : f[p] = EpochRoot(blocks, p[1], p[2])
      OBVIOUS
    <3>5. f \in Surjection(ranges, roots)
      <4>. HIDE DEF ranges
      <4>. QED  BY DEF Surjection
    <3>6. \A p, q \in ranges : f[p] = f[q] => p = q
      <4>. HIDE DEF ranges, f
      <4>. QED  BY <1>1, <3>3, <3>4, RangesDiffer
    <3>. HIDE DEF ranges, f, roots
    <3>7. f \in Injection(ranges, roots)
      BY <3>5, <3>6 DEF Surjection, Injection, IsInjective
    <3>. QED  BY <3>2, <3>5, <3>7, FS_Surjection
  <2>2. ASSUME NEW i \in rows PROVE RootOf(Removed(i), rows \ {i}) # before
    <3>1. HoldsDigests(blocks, rows) /\ HoldsDigests(Removed(i), rows \ {i}) /\ rows # {}
      BY <1>1, <2>2, TableHoldsDigests, RemovedHoldsDigests
    <3>2. rows # rows \ {i}
      BY <2>2
    <3>. QED  BY <3>1, <3>2, RootDetermines
  <2>3. ASSUME NEW i \in rows, NEW d \in Content, ~SameText(d, blocks[i].data)
        PROVE  RootOf(Rehashed(i, d), rows) # before
    <3>1. HoldsDigests(blocks, rows) /\ HoldsDigests(Rehashed(i, d), rows) /\ rows # {}
      BY <1>1, <2>3, TableHoldsDigests, RehashedHoldsDigests
    <3>2. Rehashed(i, d)[i].hash # blocks[i].hash
      BY <1>1, <2>3, RehashedRows
    <3>. QED  BY <2>3, <3>1, <3>2, RootDetermines
  <2>. HIDE DEF rows, ranges, roots, before
  <2>4. /\ Cardinality(roots) = Cardinality(ranges)
        /\ \A i \in rows :
              /\ RootOf(Removed(i), rows \ {i}) # before
              /\ \A d \in Content : ~SameText(d, blocks[i].data) =>
                    RootOf(Rehashed(i, d), rows) # before
    BY <2>1, <2>2, <2>3
  <2>. QED  BY <2>4, Zenon DEF RootsDistinguish, rows, ranges, roots, before
<1>2. ChainInv /\ ReaderInv => RootsDistinguish
  BY <1>1 DEF ReaderInv
<1>. QED  BY <1>2, ExplorerInvariant, PTL
=============================================================================
