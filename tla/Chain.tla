------------------------------- MODULE Chain --------------------------------
(***************************************************************************)
(* BlockchainManager (backend/app/blockchain/chain.py) on PostgreSQL.      *)
(*                                                                         *)
(* A Session is one request: it owns one AsyncSession and makes one call,  *)
(* add_block or initialize_chain.  Every action is one round trip to the   *)
(* database.  Under READ COMMITTED a SELECT sees the table as committed    *)
(* when it runs, and nothing the session read is re-checked at COMMIT but  *)
(* the primary key of the row it inserts.                                  *)
(*                                                                         *)
(* A block is its number (the primary key, the domain of `blocks'), the    *)
(* link `prev', the stored digest `hash' and all its other columns         *)
(* (`data'), of which the digest covers what Canonical keeps.              *)
(***************************************************************************)
EXTENDS Naturals, Sequences

CONSTANTS Session,  \* the requests
          Data,     \* contents of ordinary blocks
          Genesis,  \* contents of the genesis block
          Canonical \* the string compute_block_hash makes of each contents

ASSUME GenesisAssumption == Genesis \notin Data

VARIABLES blocks,   \* the blockchain_blocks table: function from index to row
          pc,       \* where each request stands
          data,     \* what it appends; Genesis when it calls initialize_chain
          tip,      \* its latest_block: number and hash of the row it read
          ret       \* the index of the block it inserted or found

chainVars == <<blocks, pc, data, tip, ret>>

Content == Data \union {Genesis}

(***************************************************************************)
(* The canonical string names the block's number and previous digest, and  *)
(* formats the other columns with a loss: the trust snapshot to four       *)
(* decimals, missing metadata as {}, created_at not at all.  So two        *)
(* contents may have one string, and nothing is assumed of Canonical.      *)
(* SHA-256 keeps different strings apart: a digest is represented by the   *)
(* previous digest extended with this block's number and string.  ZeroHash *)
(* is the "0" * 64 of the genesis block.                                   *)
(***************************************************************************)
SameText(d, e) == Canonical[d] = Canonical[e]
Text == {Canonical[d] : d \in Content}
Digest == Seq(Nat \X Text)
ZeroHash == <<>>
Hash(index, prev, d) == Append(prev, <<index, Canonical[d]>>)

Block == [prev : Digest, data : Content, hash : Digest]

NewBlock(index, prev, d) ==
    [prev |-> prev, data |-> d, hash |-> Hash(index, prev, d)]

\* The table with one more row.
With(index, row) ==
    [i \in DOMAIN blocks \union {index} |-> IF i = index THEN row ELSE blocks[i]]

IsLatest(i) == i \in DOMAIN blocks /\ \A j \in DOMAIN blocks : j <= i

\* The row a SELECT of block i hands to the session.
Row(i) == [index |-> i, hash |-> blocks[i].hash]

InFlight == {"select_latest", "select_genesis", "insert_genesis", "insert_block", "refresh"}
Ended == {"done", "conflict", "aborted"}
-----------------------------------------------------------------------------
Init ==
    /\ blocks = [i \in {} |-> NewBlock(0, ZeroHash, Genesis)]
    /\ pc = [s \in Session |-> "new"]
    /\ data = [s \in Session |-> Genesis]
    /\ tip = [s \in Session |-> [index |-> 0, hash |-> ZeroHash]]
    /\ ret = [s \in Session |-> 0]

\* A request calls add_block for contents d.
CallAddBlock(s, d) ==
    /\ pc[s] = "new"
    /\ pc' = [pc EXCEPT ![s] = "select_latest"]
    /\ data' = [data EXCEPT ![s] = d]
    /\ UNCHANGED <<blocks, tip, ret>>

\* A request calls initialize_chain.
CallInitialize(s) ==
    /\ pc[s] = "new"
    /\ pc' = [pc EXCEPT ![s] = "select_genesis"]
    /\ UNCHANGED <<blocks, data, tip, ret>>

\* add_block reads the block with the highest index; with none it initialises.
SelectLatest(s) ==
    /\ pc[s] = "select_latest"
    /\ \/ /\ DOMAIN blocks = {}
          /\ pc' = [pc EXCEPT ![s] = "select_genesis"]
          /\ UNCHANGED tip
       \/ \E i \in DOMAIN blocks :
             /\ IsLatest(i)
             /\ tip' = [tip EXCEPT ![s] = Row(i)]
             /\ pc' = [pc EXCEPT ![s] = "insert_block"]
    /\ UNCHANGED <<blocks, data, ret>>

\* Where initialize_chain returns to: its caller or the rest of add_block.
AfterInitialize(s) == IF data[s] = Genesis THEN "refresh" ELSE "insert_block"

\* initialize_chain looks for block 0 and returns it untouched if it is there.
SelectGenesis(s) ==
    /\ pc[s] = "select_genesis"
    /\ \/ /\ 0 \in DOMAIN blocks
          /\ tip' = [tip EXCEPT ![s] = Row(0)]
          /\ pc' = [pc EXCEPT ![s] = AfterInitialize(s)]
       \/ /\ 0 \notin DOMAIN blocks
          /\ pc' = [pc EXCEPT ![s] = "insert_genesis"]
          /\ UNCHANGED tip
    /\ UNCHANGED <<blocks, data, ret>>

\* INSERT of block 0 and COMMIT: the primary key admits one genesis block.
CommitGenesis(s) ==
    /\ pc[s] = "insert_genesis"
    /\ \/ /\ 0 \in DOMAIN blocks
          /\ pc' = [pc EXCEPT ![s] = "conflict"]
          /\ UNCHANGED <<blocks, tip>>
       \/ /\ 0 \notin DOMAIN blocks
          /\ blocks' = With(0, NewBlock(0, ZeroHash, Genesis))
          /\ tip' = [tip EXCEPT ![s] = [index |-> 0, hash |-> Hash(0, ZeroHash, Genesis)]]
          /\ pc' = [pc EXCEPT ![s] = AfterInitialize(s)]
    /\ UNCHANGED <<data, ret>>

\* Fault: the INSERT is an upsert, so a later writer replaces the row.
CommitBlockOverwrites(s) ==
    /\ pc[s] = "insert_block"
    /\ LET new == tip[s].index + 1 IN
          /\ blocks' = With(new, NewBlock(new, tip[s].hash, data[s]))
          /\ ret' = [ret EXCEPT ![s] = new]
    /\ pc' = [pc EXCEPT ![s] = "refresh"]
    /\ UNCHANGED <<data, tip>>

\* Fault: a unique violation is read as "already stored".
CommitBlockSwallows(s) ==
    /\ pc[s] = "insert_block"
    /\ LET new == tip[s].index + 1 IN
          /\ blocks' = IF new \in DOMAIN blocks THEN blocks
                       ELSE With(new, NewBlock(new, tip[s].hash, data[s]))
          /\ ret' = [ret EXCEPT ![s] = new]
    /\ pc' = [pc EXCEPT ![s] = "refresh"]
    /\ UNCHANGED <<data, tip>>

\* Fault: the new block takes latest_block's own number.
CommitBlockOffByOne(s) ==
    /\ pc[s] = "insert_block"
    /\ LET new == tip[s].index IN
       \/ /\ new \in DOMAIN blocks
          /\ pc' = [pc EXCEPT ![s] = "conflict"]
          /\ UNCHANGED <<blocks, ret>>
       \/ /\ new \notin DOMAIN blocks
          /\ blocks' = With(new, NewBlock(new, tip[s].hash, data[s]))
          /\ ret' = [ret EXCEPT ![s] = new]
          /\ pc' = [pc EXCEPT ![s] = "refresh"]
    /\ UNCHANGED <<data, tip>>

\* INSERT of the block that follows latest_block, and COMMIT.
CommitBlock(s) ==
    /\ pc[s] = "insert_block"
    /\ LET new == tip[s].index + 1 IN
       \/ /\ new \in DOMAIN blocks
          /\ pc' = [pc EXCEPT ![s] = "conflict"]
          /\ UNCHANGED <<blocks, ret>>
       \/ /\ new \notin DOMAIN blocks
          /\ blocks' = With(new, NewBlock(new, tip[s].hash, data[s]))
          /\ ret' = [ret EXCEPT ![s] = new]
          /\ pc' = [pc EXCEPT ![s] = "refresh"]
    /\ UNCHANGED <<data, tip>>

\* refresh of the committed row, and the answer to the caller.
Return(s) ==
    /\ pc[s] = "refresh"
    /\ pc' = [pc EXCEPT ![s] = "done"]
    /\ UNCHANGED <<blocks, data, tip, ret>>

\* Fault: a failure after COMMIT deletes the block again.
AbortDeletes(s) ==
    /\ pc[s] \in InFlight
    /\ pc' = [pc EXCEPT ![s] = "aborted"]
    /\ blocks' = [i \in DOMAIN blocks \ (IF pc[s] = "refresh" THEN {ret[s]} ELSE {})
                    |-> blocks[i]]
    /\ UNCHANGED <<data, tip, ret>>

\* The worker dies or loses its connection: get_db rolls back what the
\* session has not committed.  After its COMMIT the block stays.
Abort(s) ==
    /\ pc[s] \in InFlight
    /\ pc' = [pc EXCEPT ![s] = "aborted"]
    /\ UNCHANGED <<blocks, data, tip, ret>>

Call(s) == CallInitialize(s) \/ \E d \in Data : CallAddBlock(s, d)

Step(s) ==
    \/ SelectLatest(s)
    \/ SelectGenesis(s)
    \/ CommitGenesis(s)
    \/ CommitBlock(s)
    \/ Return(s)

Next == \E s \in Session : Call(s) \/ Step(s) \/ Abort(s)

Spec == Init /\ [][Next]_chainVars
-----------------------------------------------------------------------------
(***************************************************************************)
(* validate_chain: the errors it reports on a table of blocks, block by    *)
(* block in index order.                                                   *)
(***************************************************************************)
IsFirst(table, i) == \A j \in DOMAIN table : i <= j

\* j is the row just before i in index order.
Precedes(table, j, i) == j < i /\ \A k \in DOMAIN table : k <= j \/ k >= i

\* The first row, and the pairs of one row and the next.
FirstRows(table) == {k \in DOMAIN table : IsFirst(table, k)}
Neighbours(table) ==
    {p \in (DOMAIN table) \X (DOMAIN table) : Precedes(table, p[1], p[2])}

ErrorsIn(table) ==
    {<<i, "first_index">> : i \in {k \in FirstRows(table) : k # 0}}
    \union {<<i, "genesis_link">> : i \in {k \in FirstRows(table) : table[k].prev # ZeroHash}}
    \union {<<i, "hash_mismatch">> : i \in {k \in DOMAIN table :
               table[k].hash # Hash(k, table[k].prev, table[k].data)}}
    \union {<<p[2], "chain_break">> : p \in {q \in Neighbours(table) :
               table[q[2]].prev # table[q[1]].hash}}
    \union {<<p[2], "index_gap">> : p \in {q \in Neighbours(table) : q[2] # q[1] + 1}}

ValidationErrors == ErrorsIn(blocks)
-----------------------------------------------------------------------------
(***************************************************************************)
(* Properties                                                              *)
(***************************************************************************)
IsTable ==
    /\ DOMAIN blocks \subseteq Nat
    /\ blocks = [i \in DOMAIN blocks |-> blocks[i]]
    /\ \A i \in DOMAIN blocks : blocks[i] \in Block

\* Every variable has the type its column or local variable has in the code.
TypeOK ==
    /\ IsTable
    /\ pc \in [Session -> {"new"} \union InFlight \union Ended]
    /\ data \in [Session -> Content]
    /\ tip \in [Session -> [index : Nat, hash : Digest]]
    /\ ret \in [Session -> Nat]

\* However requests interleave, fail or die, validate_chain finds no error in
\* the table (chain.py:223): concurrent appends never fork or tear the chain.
ChainValidates == ValidationErrors = {}

\* No request changes or removes a committed block.
AppendOnly ==
    [][\A i \in DOMAIN blocks : i \in DOMAIN blocks' /\ blocks'[i] = blocks[i]]_blocks

Appended(s) == pc[s] \in {"refresh", "done"} /\ data[s] # Genesis

\* A block answered to one add_block caller holds that caller's event, and no
\* two callers are answered the same block (chain.py:198-218).
AnswersAreOwnBlocks ==
    \A s \in Session : Appended(s) =>
        /\ ret[s] \in DOMAIN blocks
        /\ blocks[ret[s]].data = data[s]
        /\ \A t \in Session : Appended(t) /\ ret[t] = ret[s] => t = s

\* Contention alone never makes everyone fail: when requests met conflicts and
\* none was aborted, one of them was answered.
SomeRequestWins ==
    /\ \A s \in Session : pc[s] \in {"new", "done", "conflict"}
    /\ \E s \in Session : pc[s] = "conflict"
    => \E s \in Session : pc[s] = "done"

(***************************************************************************)
(* The inductive invariant behind the safety properties: the numbers run   *)
(* from 0 without a gap, every block carries its own digest and its        *)
(* predecessor's, and a session about to insert holds a committed row.     *)
(***************************************************************************)
Contiguous == \A i \in DOMAIN blocks : 0..i \subseteq DOMAIN blocks
Hashed == \A i \in DOMAIN blocks : blocks[i].hash = Hash(i, blocks[i].prev, blocks[i].data)
Linked == \A i \in DOMAIN blocks : i > 0 => blocks[i].prev = blocks[i - 1].hash
GenesisFirst ==
    0 \in DOMAIN blocks => blocks[0].prev = ZeroHash /\ blocks[0].data = Genesis
TipCommitted ==
    \A s \in Session : pc[s] = "insert_block" =>
        /\ tip[s].index \in DOMAIN blocks
        /\ tip[s].hash = blocks[tip[s].index].hash
CallShape ==
    \A s \in Session :
        /\ pc[s] = "new" => data[s] = Genesis
        /\ pc[s] \in {"select_latest", "insert_block"} => data[s] \in Data

ChainInv ==
    /\ TypeOK
    /\ Contiguous /\ Hashed /\ Linked /\ GenesisFirst
    /\ TipCommitted /\ CallShape
    /\ AnswersAreOwnBlocks

\* The table read as the abstract log, and the answers as its receipts.
L == INSTANCE Ledger WITH
        entries <- [i \in DOMAIN blocks |-> blocks[i].data],
        receipts <- {[index |-> ret[s], data |-> data[s]] :
                        s \in {t \in Session : pc[t] = "done" /\ data[t] # Genesis}}

\* The sessions implement the append-only log of module Ledger.
ImplementsLedger == L!Spec
=============================================================================
