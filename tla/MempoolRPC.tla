------------------------------ MODULE MempoolRPC ------------------------------
(***************************************************************************)
(* getrawmempool and getmempoolinfo of rpcblockchain.cpp over the          *)
(* transaction memory pool.                                                *)
(*                                                                         *)
(* The pool (txmempool.cpp) is outside this file.  Its state is the set of *)
(* transactions in mapTx; its methods size(), GetTotalTxSize() and        *)
(* DynamicMemoryUsage() each take LOCK(mempool.cs) for themselves and      *)
(* return the entry count, the sum of the entries' sizes and the sum of    *)
(* their memory usage.  Other threads add transactions (AcceptToMemory-    *)
(* Pool from the network) and remove them (removeForBlock when a block is *)
(* connected) at any time, each under mempool.cs.                          *)
(*                                                                         *)
(* getrawmempool holds cs_main and, for the verbose form, mempool.cs over  *)
(* the whole loop, so its reply is a function of one state.                *)
(* getmempoolinfo holds no lock: mempoolInfoToJSON makes its three calls   *)
(* one after the other, and a change of the pool may fall between them;   *)
(* the call is a client whose next read is pc.                             *)
(***************************************************************************)
EXTENDS Naturals, FiniteSets, FiniteSetsExt

CONSTANTS
    Txs,       \* the transaction ids
    TxSize,    \* GetTxSize() of each transaction
    TxUsage,   \* the memory usage of each transaction's entry
    Inputs     \* the transactions whose outputs each transaction spends

(* The constants are meant as: Txs a finite set, TxSize and TxUsage in   *)
(* [Txs -> Nat \ {0}], Inputs in [Txs -> SUBSET Txs].                    *)

NoReply == [size |-> 0, bytes |-> 0, usage |-> 0, given |-> FALSE]

VARIABLES
    mapTx,     \* the transactions in the pool
    pc,        \* the next call of mempoolInfoToJSON: "size", "bytes", "usage"
    partial,   \* the fields read so far
    reply      \* the last object getmempoolinfo returned

vars == <<mapTx, pc, partial, reply>>

(* CTxMemPool::size, GetTotalTxSize, DynamicMemoryUsage.                   *)
PoolSize(pool) == Cardinality(pool)

GetTotalTxSize(pool) == MapThenSumSet(LAMBDA t : TxSize[t], pool)

DynamicMemoryUsage(pool) == MapThenSumSet(LAMBDA t : TxUsage[t], pool)

Init ==
    /\ mapTx = {}
    /\ pc = "size"
    /\ partial = NoReply
    /\ reply = NoReply

-----------------------------------------------------------------------------
(* The pool's own steps, each under mempool.cs.                            *)

(* addUnchecked, called by AcceptToMemoryPool.                              *)
AddToPool(t) ==
    /\ t \notin mapTx
    /\ mapTx' = mapTx \cup {t}
    /\ UNCHANGED <<pc, partial, reply>>

(* remove / removeForBlock: the transaction leaves the pool.                *)
RemoveFromPool(t) ==
    /\ t \in mapTx
    /\ mapTx' = mapTx \ {t}
    /\ UNCHANGED <<pc, partial, reply>>

-----------------------------------------------------------------------------
(* getmempoolinfo: mempoolInfoToJSON's three reads, each atomic alone.     *)

ReadSize ==
    /\ pc = "size"
    /\ partial' = [NoReply EXCEPT !.size = PoolSize(mapTx)]
    /\ pc' = "bytes"
    /\ UNCHANGED <<mapTx, reply>>

ReadBytes ==
    /\ pc = "bytes"
    /\ partial' = [partial EXCEPT !.bytes = GetTotalTxSize(mapTx)]
    /\ pc' = "usage"
    /\ UNCHANGED <<mapTx, reply>>

(* The last read; the object is returned and the next call may begin.     *)
ReadUsage ==
    /\ pc = "usage"
    /\ reply' = [partial EXCEPT !.usage = DynamicMemoryUsage(mapTx), !.given = TRUE]
    /\ partial' = NoReply
    /\ pc' = "size"
    /\ UNCHANGED mapTx

-----------------------------------------------------------------------------
(* getrawmempool: the verbose object (one state, under mempool.cs) and the *)
(* non-verbose list (queryHashes, under mempool.cs).                       *)

(* "depends": the inputs' transactions that mempool.exists finds.          *)
Depends(t) == {p \in Inputs[t] : p \in mapTx}

mempoolToJSON(fVerbose) ==
    IF fVerbose
    THEN [t \in mapTx |-> [size |-> TxSize[t], depends |-> Depends(t)]]
    ELSE mapTx

getrawmempool(fVerbose) == mempoolToJSON(fVerbose)

-----------------------------------------------------------------------------
Next ==
    \/ \E t \in Txs : AddToPool(t)
    \/ \E t \in Txs : RemoveFromPool(t)
    \/ ReadSize
    \/ ReadBytes
    \/ ReadUsage

Spec == Init /\ [][Next]_vars

-----------------------------------------------------------------------------
(* The help text: "size" is the current tx count, "bytes" the sum of all  *)
(* tx sizes, "usage" the total memory usage: a returned object describes  *)
(* one pool, some set of transactions with that count, that total size    *)
(* and that usage.                                                         *)
MempoolInfoConsistent ==
    reply.given =>
        \E pool \in SUBSET Txs :
            /\ PoolSize(pool) = reply.size
            /\ GetTotalTxSize(pool) = reply.bytes
            /\ DynamicMemoryUsage(pool) = reply.usage

=============================================================================
