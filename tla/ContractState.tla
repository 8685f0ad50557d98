---------------------------- MODULE ContractState ----------------------------
(***************************************************************************)
(* The contract state of the node: ExecuteBlockContracts of                *)
(* qtum/hthcontract.cpp, which ConnectBlock calls, and the database behind *)
(* it (qtum/contractdb.cpp), beside the active chain and the coins         *)
(* database that FlushStateToDisk writes.                                  *)
(*                                                                         *)
(* SSTORE and SetContractCode write to the contract database at once,      *)
(* DisconnectBlock does not touch it, and the coins database is flushed    *)
(* later and on its own.  WriteStorage replaces the value of a key; the    *)
(* value an execution stores may depend on what it reads, so that          *)
(* executing an output twice, or after another one, can be told from       *)
(* executing it once.                                                      *)
(***************************************************************************)
EXTENDS Integers, Sequences

CONSTANTS
    Block,       \* blocks above the activation height
    Contract,    \* contract addresses
    Key,         \* keys of a contract's storage
    Value,       \* values of a key
    Zero,        \* the value of a key that was never written
    Parent,      \* the block before each block; Root before the first ones
    Root,
    Contents,    \* what the blocks may hold: the contract outputs of each, in order
    NoCode,
    NoWrite

\* The storage of one contract.
Store == [Key -> Value]

\* A contract operation of a transaction's output: OP_CREATE of addr or OP_CALL of
\* addr (an output with both counts as two); whether CheckContractTx accepts the
\* transaction; whether the script parses; whether the execution succeeds (and
\* returns code, for a constructor); the key its SSTORE writes, and the value,
\* computed from the storage it finds.
Output == [op : {"create", "call"}, addr : Contract,
           checks : BOOLEAN, parses : BOOLEAN, succeeds : BOOLEAN,
           key : Key, val : [Store -> Value]]

Code == {"initCode", "output"}

\* Which output wrote: the height of its block, the block, and its number there.
Write == [at : Nat, in : Block, out : Nat]

ASSUME ContractAssumption ==
    /\ Root \notin Block /\ Parent \in [Block -> Block \cup {Root}]
    /\ \A k \in Contents : DOMAIN k = Block /\ \A b \in Block : k[b] \in Seq(Output)
    /\ Zero \in Value /\ NoCode \notin Code /\ NoWrite \notin Write

VARIABLES
    outputs,    \* the contract outputs of each block
    chain,      \* blocks of chainActive above Root
    flushed,    \* the chain the coins database on disk is at
    invalid,    \* blocks with BLOCK_FAILED_VALID
    code,       \* pcontractdb: code of each contract
    storage,    \* pcontractdb: storage of each contract
    run,        \* ConnectBlock in progress: caller, blocks to execute, next output,
                \* whether the constructor of that output has been executed
    executed,   \* history: the last block executed, what was returned, and whether
                \* one of its executions failed
    reset,      \* history: the database was opened with fReset, and no contract
                \* has been executed since
    forward,    \* history: the node has only moved forward, one valid block after
                \* another, since it started with an empty database
    since       \* history: the height of the chain when a block was last disconnected,
                \* rejected, or left unfinished or unflushed by a stop

db == <<code, storage>>

vars == <<outputs, chain, flushed, invalid, db, run, executed, reset, forward, since>>

Idle == [for |-> "none", blocks |-> <<>>, out |-> 1, constructed |-> FALSE, failed |-> FALSE]

Init ==
    /\ outputs \in Contents
    /\ chain = <<>> /\ flushed = <<>> /\ invalid = {}
    /\ code = [c \in Contract |-> NoCode]
    /\ storage = [c \in Contract |-> [x \in Key |-> Zero]]
    /\ run = Idle
    /\ executed = [returned |-> TRUE, failed |-> FALSE]
    /\ reset = FALSE /\ forward = TRUE /\ since = 0

Tip == IF chain = <<>> THEN Root ELSE chain[Len(chain)]

Current == outputs[Head(run.blocks)]

Executing == run # Idle /\ run.out <= Len(Current)
Now == Current[run.out]

-----------------------------------------------------------------------------
(* ExecuteBlockContracts, one database write at a time.                    *)

\* ConnectTip calls ConnectBlock for the next block.
ConnectTip(b) ==
    /\ run = Idle /\ Parent[b] = Tip /\ b \notin invalid
    /\ run' = [Idle EXCEPT !.for = "connect", !.blocks = <<b>>]
    /\ reset' = FALSE
    /\ UNCHANGED <<outputs, chain, flushed, invalid, db, executed, forward, since>>

\* Mutant: the blocks are connected again in the order of the disconnecting loop.
VerifyDB_Backwards(n) ==
    /\ run = Idle /\ n \in 1..Len(chain)
    /\ run' = [Idle EXCEPT !.for = "verify",
                           !.blocks = [i \in 1..n |-> chain[Len(chain) + 1 - i]]]
    /\ forward' = FALSE
    /\ UNCHANGED <<outputs, chain, flushed, invalid, db, executed, reset, since>>

\* VerifyDB at check level 4 connects the last n blocks again, to a coins view
\* of its own.
VerifyDB(n) ==
    /\ run = Idle /\ n \in 1..Len(chain)
    /\ run' = [Idle EXCEPT !.for = "verify",
                           !.blocks = SubSeq(chain, Len(chain) - n + 1, Len(chain))]
    /\ forward' = FALSE
    /\ UNCHANGED <<outputs, chain, flushed, invalid, db, executed, reset, since>>

\* OP_SSTORE and WriteStorage: the value of the key is replaced at once.
WriteStorage(st, o) == [st EXCEPT ![o.addr] = [@ EXCEPT ![o.key] = o.val[st[o.addr]]]]

\* A script that does not parse, and a call of a contract that has no code,
\* are skipped.
SkipOutput ==
    /\ Executing /\ Now.checks
    /\ ~Now.parses \/ (Now.op = "call" /\ code[Now.addr] = NoCode)
    /\ run' = [run EXCEPT !.out = @ + 1]
    /\ UNCHANGED <<outputs, chain, flushed, invalid, db, executed, reset, forward, since>>

\* OP_CREATE: the constructor runs and writes storage; what it wrote stays when
\* it fails.
Construct ==
    /\ Executing /\ Now.checks /\ Now.parses /\ Now.op = "create" /\ ~run.constructed
    /\ storage' = WriteStorage(storage, Now)
    /\ run' = [run EXCEPT !.constructed = TRUE, !.failed = @ \/ ~Now.succeeds]
    /\ UNCHANGED <<outputs, chain, flushed, invalid, code, executed, reset, forward, since>>

\* Mutant: a failed constructor leaves no contract.
DeployedCode_NoFallback(o) == IF o.succeeds THEN "output" ELSE NoCode

\* The code stored for a constructor: the init code when it failed.
DeployedCode(o) == IF o.succeeds THEN "output" ELSE "initCode"

SetContractCode ==
    /\ Executing /\ run.constructed
    /\ code' = [code EXCEPT ![Now.addr] = DeployedCode(Now)]
    /\ run' = [run EXCEPT !.constructed = FALSE, !.out = @ + 1]
    /\ UNCHANGED <<outputs, chain, flushed, invalid, storage, executed, reset, forward, since>>

\* OP_CALL of an existing contract.
Call ==
    /\ Executing /\ Now.checks /\ Now.parses /\ Now.op = "call" /\ code[Now.addr] # NoCode
    /\ storage' = WriteStorage(storage, Now)
    /\ run' = [run EXCEPT !.out = @ + 1, !.failed = @ \/ ~Now.succeeds]
    /\ UNCHANGED <<outputs, chain, flushed, invalid, code, executed, reset, forward, since>>

\* The loop ends and true is returned; ConnectTip then moves the tip, VerifyDB
\* goes on to the next block.
Executed ==
    /\ run # Idle /\ ~Executing
    /\ executed' = [returned |-> TRUE, failed |-> run.failed]
    /\ IF run.for = "connect"
       THEN chain' = chain \o run.blocks
       ELSE UNCHANGED chain
    /\ run' = IF Len(run.blocks) = 1 THEN Idle
              ELSE [Idle EXCEPT !.for = run.for, !.blocks = Tail(run.blocks)]
    /\ UNCHANGED <<outputs, flushed, invalid, db, reset, forward, since>>

\* CheckContractTx refuses a transaction when the loop comes to it: false is
\* returned, InvalidBlockFound marks the block, the tip stays where it is, and
\* what the transactions before it wrote stays too.
RejectBlock ==
    /\ Executing /\ ~Now.checks
    /\ executed' = [returned |-> FALSE, failed |-> run.failed]
    /\ invalid' = invalid \cup {Head(run.blocks)}
    /\ run' = Idle
    /\ forward' = FALSE /\ since' = Len(chain)
    /\ UNCHANGED <<outputs, chain, flushed, db, reset>>

-----------------------------------------------------------------------------
(* The rest of the node.                                                   *)

\* DisconnectTip: DisconnectBlock has no part for contracts.
DisconnectTip ==
    /\ run = Idle /\ chain # <<>>
    /\ chain' = SubSeq(chain, 1, Len(chain) - 1)
    /\ forward' = FALSE /\ since' = Len(chain) - 1
    /\ UNCHANGED <<outputs, flushed, invalid, db, run, executed, reset>>

\* On its own schedule, and at shutdown.
FlushStateToDisk ==
    /\ run = Idle
    /\ flushed' = chain
    /\ UNCHANGED <<outputs, chain, invalid, db, run, executed, reset, forward, since>>

\* The process stops at any point and starts from what is on disk; the marks of
\* invalid blocks may not have been written.  A stop between two blocks, after a
\* flush, disturbs nothing.
Restart ==
    /\ chain' = flushed
    /\ invalid' \in {invalid, {}}
    /\ run' = Idle
    /\ IF run = Idle /\ chain = flushed THEN UNCHANGED <<forward, since>>
       ELSE forward' = FALSE /\ since' = Len(flushed)
    /\ UNCHANGED <<outputs, flushed, db, executed, reset>>

\* InitializeEVMState opens the database and takes no account of fReset.
InitializeEVMState(fReset) ==
    /\ reset' = fReset
    /\ UNCHANGED db

\* Start with -reindex, which also drops the block index and its marks, or with
\* -reindex-chainstate: the chain is built anew.
Reindex ==
    /\ run = Idle
    /\ chain' = <<>> /\ flushed' = <<>> /\ invalid' \in {invalid, {}}
    /\ InitializeEVMState(TRUE)
    /\ forward' = FALSE /\ since' = 0
    /\ UNCHANGED <<outputs, run, executed>>

Execute == SkipOutput \/ Construct \/ SetContractCode \/ Call \/ Executed \/ RejectBlock

Next ==
    \/ \E b \in Block : ConnectTip(b)
    \/ Execute
    \/ FlushStateToDisk
    \/ \E n \in 1..Len(chain) : VerifyDB(n)
    \/ DisconnectTip
    \/ Restart
    \/ Reindex

Spec == Init /\ [][Next]_vars

-----------------------------------------------------------------------------
(* What the contract state should be.                                      *)

\* The state of a replay: the database, and the output that wrote each key last.
Empty == [code |-> [c \in Contract |-> NoCode],
          storage |-> [c \in Contract |-> [x \in Key |-> Zero]],
          last |-> [c \in Contract |-> [x \in Key |-> NoWrite]]]

\* Output i of block b, at height n, applied to a state.
Apply(outs, s, n, b, i) ==
    LET o == outs[b][i]
    IN  IF ~o.parses \/ (o.op = "call" /\ s.code[o.addr] = NoCode) THEN s
        ELSE [code |-> IF o.op = "call" THEN s.code
                       ELSE [s.code EXCEPT ![o.addr] = IF o.succeeds THEN "output" ELSE "initCode"],
              storage |-> [s.storage EXCEPT ![o.addr] = [@ EXCEPT ![o.key] = o.val[s.storage[o.addr]]]],
              last |-> [s.last EXCEPT ![o.addr] = [@ EXCEPT ![o.key] = [at |-> n, in |-> b, out |-> i]]]]

\* The states after each output of b, and after each of the blocks.
AfterOutputs(outs, s, n, b) ==
    LET state[i \in 0..Len(outs[b])] == IF i = 0 THEN s ELSE Apply(outs, state[i - 1], n, b, i)
    IN  state

ApplyBlock(outs, s, n, b) == AfterOutputs(outs, s, n, b)[Len(outs[b])]

AfterBlocks(outs, blocks) ==
    LET state[n \in 0..Len(blocks)] ==
            IF n = 0 THEN Empty ELSE ApplyBlock(outs, state[n - 1], n, blocks[n])
    IN  state

Replay(blocks) == AfterBlocks(outputs, blocks)[Len(blocks)]

\* An output that stores the same value whatever it finds.
Blind(o) == \A s, t \in Store : o.val[s] = o.val[t]

\* Key x of contract c holds what the output stores, if that is always the same.
Holds(o, c, x) == Blind(o) => storage[c][x] = o.val[storage[c]]

(* Properties.                                                             *)

\* The state is well formed, and the active chain is linked.
TypeOK ==
    /\ outputs \in Contents
    /\ chain \in Seq(Block) /\ flushed \in Seq(Block)
    /\ \A i \in DOMAIN chain : Parent[chain[i]] = IF i = 1 THEN Root ELSE chain[i - 1]
    /\ \A b \in invalid : \E i \in DOMAIN outputs[b] : ~outputs[b][i].checks
    /\ code \in [Contract -> Code \cup {NoCode}]
    /\ storage \in [Contract -> Store]
    /\ run.for \in {"none", "connect", "verify"} /\ run.out \in Nat \ {0}
    /\ run.blocks \in Seq(Block)

\* The contract database holds exactly what executing the active chain from the
\* start gives, for as long as no block was rejected, disconnected or verified, and
\* the node was stopped, if at all, between two blocks and after a flush.
StateFollowsChain ==
    forward /\ run = Idle => /\ code = Replay(chain).code
                             /\ storage = Replay(chain).storage

\* Whatever abandoned, rejected, unfinished or repeated executions have left in the
\* database, a contract that the active chain creates exists, and a key holds what
\* the active chain wrote to it last, provided that the writer does not build on
\* what it found and its block was connected after the last such event.  VerifyDB,
\* which executes blocks again, is no such event.
LastWriteStands ==
    run = Idle =>
        \A c \in Contract :
            /\ Replay(chain).code[c] # NoCode => code[c] # NoCode
            /\ \A x \in Key :
                 LET w == Replay(chain).last[c][x]
                 IN  w # NoWrite /\ w.at > since => Holds(outputs[w.in][w.out], c, x)

\* InitializeEVMState's fReset: "If true, reset the state to empty".
ResetEmpties == reset => code = Empty.code /\ storage = Empty.storage

\* ConnectBlock executes contracts "only when actually connecting, not just
\* checking": a step of VerifyDB leaves the contract database alone.
CheckingExecutesNothing ==
    [][ run.for = "verify" => UNCHANGED db ]_vars

\* ExecuteBlockContracts returns "true if all contract executions succeeded".
ReturnsWhetherAllSucceeded == executed.returned => ~executed.failed

=============================================================================
