------------------------------ MODULE Explorer -------------------------------
(***************************************************************************)
(* The read side of the ledger beside its writers: the epoch report of     *)
(* backend/app/api/v1/blockchain.py:126, with the Merkle root of           *)
(* blockchain/block.py:157, the listing of the latest blocks, and the      *)
(* checks of single blocks in blockchain/validator.py.                     *)
(*                                                                         *)
(* A Reader is one request for an epoch report.  It reads its range twice, *)
(* once to count the blocks and once to hash them, while the sessions of   *)
(* module Chain go on appending.                                           *)
(***************************************************************************)
EXTENDS Chain, FiniteSets

CONSTANTS Reader,   \* the requests for a report
          Epoch,    \* the ranges they ask for: pairs of a first and a last index
          LastRead, \* the 999999 of list_blocks and get_chain_statistics
          Limit     \* how many blocks list_blocks returns

ASSUME ExplorerAssumption ==
    Epoch \subseteq Nat \X Nat /\ LastRead \in Nat /\ Limit \in Nat \ {0}

VARIABLES asked,    \* per reader, its range
          reading,  \* where it stands
          counted,  \* the indices of the blocks it has counted
          root      \* the Merkle root it was answered

readerVars == <<asked, reading, counted, root>>
explorerVars == <<chainVars, readerVars>>
-----------------------------------------------------------------------------
(***************************************************************************)
(* compute_merkle_root.  A digest determines what it was computed from: a  *)
(* leaf is a block's hash, a node the pair of digests below it.            *)
(***************************************************************************)
Leaf(hash) == [leaf |-> hash]
Node(l, r) == [left |-> l, right |-> r]
EmptyRoot == [empty |-> TRUE]

\* Fault: the last digest of an odd level is dropped.
NextLevelDrops(level) ==
    [i \in 1..(Len(level) \div 2) |-> Node(level[2 * i - 1], level[2 * i])]

\* One level up; an odd level repeats its last digest.
NextLevel(level) ==
    [i \in 1..((Len(level) + 1) \div 2) |->
        Node(level[2 * i - 1], level[IF 2 * i <= Len(level) THEN 2 * i ELSE Len(level)])]

\* The loop goes up until one digest is left.
MerkleRoot(hashes) ==
    LET up[level \in 0..Len(hashes)] ==
            IF level = 0 THEN hashes
            ELSE LET below == up[level - 1]
                 IN  IF Len(below) > 1 THEN NextLevel(below) ELSE below
    IN  IF hashes = <<>> THEN EmptyRoot ELSE up[Len(hashes)][1]

(***************************************************************************)
(* Queries of BlockchainManager on a table of blocks                       *)
(***************************************************************************)
InRange(table, first, last) == {i \in DOMAIN table : first <= i /\ i <= last}

\* The current_hash column of some rows, and its values in the order of the rows.
HashColumn(table, rows) == [i \in rows |-> table[i].hash]
InOrder(column) ==
    LET Rank(i) == Cardinality({j \in DOMAIN column : j <= i})
    IN  [n \in 1..Cardinality(DOMAIN column) |->
            Leaf(column[CHOOSE i \in DOMAIN column : Rank(i) = n])]

RootOf(table, rows) == MerkleRoot(InOrder(HashColumn(table, rows)))

\* Fault: the start of the range is forgotten.
EpochRootFromZero(table, first, last) == RootOf(table, InRange(table, 0, last))

EpochRoot(table, first, last) == RootOf(table, InRange(table, first, last))

\* Fault: the first instead of the last blocks.
ListedFirst(table) == {i \in InRange(table, 0, LastRead) : i < Limit}

\* The last Limit of a set of indices.
Latest(rows) == {i \in rows : Cardinality({j \in rows : j > i}) < Limit}

\* list_blocks: unfiltered, blocks[-limit:] of those up to LastRead; filtered by
\* event type or severity, ORDER BY index DESC LIMIT.
Listed(table) == Latest(InRange(table, 0, LastRead))
ListedWith(table, d) == Latest({i \in DOMAIN table : table[i].data = d})

\* get_chain_length, and the distribution of get_chain_statistics.
ChainLength(table) == Cardinality(DOMAIN table)
Distribution(table) ==
    [d \in Content |-> Cardinality({i \in InRange(table, 0, LastRead) : table[i].data = d})]

(***************************************************************************)
(* validator.py: one block, and one block against its predecessor          *)
(***************************************************************************)
BlockIntact(table, i) == table[i].hash = Hash(i, table[i].prev, table[i].data)

\* Fault: only the numbers are compared.
BlockLinkedByIndex(table, j, i) == i = j + 1

BlockLinked(table, j, i) == table[i].prev = table[j].hash /\ i = j + 1
-----------------------------------------------------------------------------
ExplorerInit ==
    /\ Init
    /\ asked = [r \in Reader |-> <<0, 0>>]
    /\ reading = [r \in Reader |-> "new"]
    /\ counted = [r \in Reader |-> {}]
    /\ root = [r \in Reader |-> EmptyRoot]

Advance(r, from, to) == reading[r] = from /\ reading' = [reading EXCEPT ![r] = to]
Requested(r) == InRange(blocks, asked[r][1], asked[r][2])

\* end_index before start_index is a 400; otherwise the first read.
CountBlocks(r) ==
    /\ \E epoch \in Epoch :
          IF epoch[2] < epoch[1]
          THEN Advance(r, "new", "refused") /\ UNCHANGED <<asked, counted>>
          ELSE /\ Advance(r, "new", "counted")
               /\ asked' = [asked EXCEPT ![r] = epoch]
               /\ counted' = [counted EXCEPT ![r] = InRange(blocks, epoch[1], epoch[2])]
    /\ UNCHANGED <<chainVars, root>>

\* The second read, and the answer.
HashBlocks(r) ==
    /\ Advance(r, "counted", "answered")
    /\ root' = [root EXCEPT ![r] = EpochRoot(blocks, asked[r][1], asked[r][2])]
    /\ UNCHANGED <<chainVars, asked, counted>>

ReadStep(r) == CountBlocks(r) \/ HashBlocks(r)

ExplorerNext ==
    \/ Next /\ UNCHANGED readerVars
    \/ \E r \in Reader : ReadStep(r)

ExplorerSpec == ExplorerInit /\ [][ExplorerNext]_explorerVars
-----------------------------------------------------------------------------
(***************************************************************************)
(* Properties                                                              *)
(***************************************************************************)
\* blockchain.py:144 reads the range twice.  The root is that of the range as it
\* stood at one moment, no block counted is missing from it, and when the range
\* was complete at the first read the report is exact and stays reproducible,
\* however many blocks are appended meanwhile or later.
ReportsHold ==
    \A r \in Reader : reading[r] = "answered" =>
        LET first == asked[r][1]
            last == asked[r][2]
        IN  /\ \E n \in 0..last + 1 :
                  /\ root[r] = RootOf(blocks, {i \in Requested(r) : i < n})
                  /\ \A i \in counted[r] : i < n
            /\ Cardinality(counted[r]) = last - first + 1 =>
                  counted[r] = first..last /\ root[r] = EpochRoot(blocks, first, last)

\* The table after somebody changed one row of it behind the program's back: a
\* column, a column and the digest, or the whole row.
Edited(i, d) == [blocks EXCEPT ![i].data = d]
Rehashed(i, d) == [blocks EXCEPT ![i] = NewBlock(i, blocks[i].prev, d)]
Removed(i) == [j \in DOMAIN blocks \ {i} |-> blocks[j]]

PassesOneByOne(table) ==
    /\ \A i \in DOMAIN table : BlockIntact(table, i)
    /\ \A i, j \in DOMAIN table : Precedes(table, j, i) => BlockLinked(table, j, i)

\* chain.py:223: what validate_chain does not report is exactly a change that
\* leaves the canonical string as it was (block.py:104), a new digest on the
\* latest block, and the loss of it.  What it passes also passes the checks of
\* single blocks in validator.py.
TamperEvident ==
    \A i \in DOMAIN blocks :
        /\ \A d \in Content :
              LET unseen == SameText(d, blocks[i].data)
                  valid == ErrorsIn(Rehashed(i, d)) = {}
              IN  /\ ErrorsIn(Edited(i, d)) = {} <=> unseen
                  /\ valid <=> unseen \/ IsLatest(i)
                  /\ PassesOneByOne(Rehashed(i, d)) <=> valid
        /\ ErrorsIn(Removed(i)) = {} <=> IsLatest(i)

\* block.py:184 repeats the last digest of an odd level, so that a list and the
\* list with its last digest repeated have one root.  No chain holds a digest
\* twice: different ranges of it never share a root, and no single change of what
\* is hashed leaves the root of the whole chain as it was, also on the latest
\* block, where validate_chain sees nothing.
RootsDistinguish ==
    LET rows == DOMAIN blocks
        ranges == {p \in rows \X rows : p[1] <= p[2]}
        before == RootOf(blocks, rows)
    IN  /\ Cardinality({EpochRoot(blocks, p[1], p[2]) : p \in ranges}) = Cardinality(ranges)
        /\ \A i \in rows :
              /\ RootOf(Removed(i), rows \ {i}) # before
              /\ \A d \in Content : ~SameText(d, blocks[i].data) =>
                    RootOf(Rehashed(i, d), rows) # before

\* What the read endpoints say of one table agrees, as long as the chain has not
\* outgrown the LastRead of blockchain.py:55: the listing ends with the latest
\* block and has no hole, the length is one more than the latest index, and the
\* statistics count what the filtered listings show.
QueriesAgree ==
    \A i \in DOMAIN blocks : IsLatest(i) /\ i <= LastRead =>
        /\ i \in Listed(blocks)
        /\ \A j \in Listed(blocks) : j..i \subseteq Listed(blocks)
        /\ Cardinality(Listed(blocks)) = IF i < Limit THEN i + 1 ELSE Limit
        /\ ChainLength(blocks) = i + 1
        /\ \A d \in Content :
              LET shown == Cardinality(ListedWith(blocks, d))
              IN  Distribution(blocks)[d] = shown \/ (Distribution(blocks)[d] > shown /\ shown = Limit)
=============================================================================
