------------------------------ MODULE ChainNode ------------------------------
(***************************************************************************)
(* The Taler daemon, as the explorer sees it over JSON-RPC.  It is outside *)
(* the repository: what is modelled is what internal/indexer relies on.    *)
(* The daemon knows a tree of blocks and has one of them as its tip; the   *)
(* answers to getblockcount, getblockhash and getblock are functions of    *)
(* that tip.  A block it has once announced can always be fetched by hash, *)
(* also after the daemon has abandoned it.                                 *)
(***************************************************************************)
EXTENDS Integers

CONSTANTS
    Block,      \* the blocks of every fork
    NoBlock,    \* "no such block": an empty hash, or an RPC error
    Tx,         \* the transactions
    MaxHeight,  \* bound: no block is higher
    Height,     \* Height[b]: the height of block b
    Ancestor,   \* Ancestor[b][h]: the block at height h of the chain ending in b
    TxsOf       \* TxsOf[b]: the transactions block b contains

Heights == 0..MaxHeight

(* The blocks form a tree: cutting a chain at height h gives the chain of   *)
(* the block found there.  A chain contains a transaction at most once.     *)
ASSUME ChainAssumption ==
    /\ MaxHeight \in Nat
    /\ NoBlock \notin Block
    /\ Height \in [Block -> Heights]
    /\ Ancestor \in [Block -> [Heights -> Block \cup {NoBlock}]]
    /\ TxsOf \in [Block -> SUBSET Tx]
    /\ \A b \in Block :
          /\ Ancestor[b][Height[b]] = b
          /\ \A h \in Heights :
                /\ h > Height[b] => Ancestor[b][h] = NoBlock
                /\ h <= Height[b] =>
                      /\ Ancestor[b][h] \in Block
                      /\ Height[Ancestor[b][h]] = h
                      /\ \A g \in 0..h : Ancestor[Ancestor[b][h]][g] = Ancestor[b][g]
                      /\ \A g \in 0..(h-1) :
                            TxsOf[Ancestor[b][h]] \cap TxsOf[Ancestor[b][g]] = {}

VARIABLE tip    \* the block the daemon currently builds on

NodeInit == tip \in Block

(* getblockhash h; NoBlock is the "Block height out of range" error.        *)
NodeBlockAt(h) == Ancestor[tip][h]

NodeHas(h) == NodeBlockAt(h) # NoBlock

(* The daemon adopts another block: a new one on top of its tip, or, in a   *)
(* reorganisation, one of a competing chain, higher or lower than its own.  *)
MoveTo(b) == b # tip /\ tip' = b

Extends(b) == Ancestor[b][Height[tip]] = tip
=============================================================================
