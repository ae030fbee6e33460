# A TLA+ model of the MaryJaneCoin node

MaryJaneCoin is a proof-of-stake coin of the Bitcoin, Peercoin and NovaCoin
family with a Dandelion++ relay and MimbleWimble extension blocks. This
directory holds TLA+ modules translated from the C++ code under `src/src/`, the
TLC configurations that check them, and proofs that the TLAPS proof manager
checks. File names below are relative to `src/src/`.

1. [Inventory](#1-inventory)
2. [Plan](#2-plan)
3. [Modules and code](#3-modules-and-code)
4. [Runs](#4-runs)
5. [Disagreements found](#5-disagreements-found)
6. [Proofs](#6-proofs)
7. [What is not modelled](#7-what-is-not-modelled)

## 1. Inventory

| Component | State | Operations | Must hold |
|---|---|---|---|
| Block chain (`main.cpp`) | `mapBlockIndex`, `mapOrphanBlocks`, `pindexBest`, `pnext`, `setStakeSeen` | `ProcessBlock`, `AcceptBlock`, `SetBestChain`, `Reorganize`, `ConnectBlock`, `DisconnectBlock` | the node is on the best valid branch it knows; the order of arrival does not matter |
| Transaction index (`txdb-leveldb.*`) | `hashBestChain`, `CTxIndex`, `CDiskBlockIndex`, the open batch | `TxnBegin`, `TxnCommit`, `TxnAbort`, `LoadBlockIndex` | at every moment the committed content is that of one branch |
| Memory pool (`main.cpp`) | `mapTx`, `mapNextTx` | `accept`, `remove`, `removeConflicts` | the two maps agree; nothing confirmed is in it; a reorganization loses nothing |
| Orphan transactions (`main.cpp`) | `mapOrphanTransactions`, `...ByPrev` | `AddOrphanTx`, `LimitOrphanTxSize`, the work queue of the `tx` message | bounded; none stays that could be accepted |
| Dandelion router (`dandelion.*`, `net.cpp`) | `mapStemTxs`, `setFluffedTxs`, `vStemPeers`, `nEpochStart` | `AddLocalTx`, `AddStemTx`, `MarkFluffed`, `GetStemPeer`, `ShouldFluff`, `GetEmbargoedTxs` | a transaction is in one phase; each is announced in the end |
| Extension block state (`mw/state/mw_state.*`) | outputs, spent set, range, index, kernels, supply, undo data | `ApplyBlock`, `DisconnectBlock` | the state is a function of the branch |
| Merkle mountain range (`mw/state/mmr.*`) | `vNodes`, `nLeaves` | `Append`, `Rewind`, `GetRoot`, `GetProof`, `VerifyProof` | root and proofs are those of the list of leaves |
| Wallet coins (`wallet.*`) | `mapWallet`, `vfSpent`, `hashBlock` | `AddToWalletIfInvolvingMe`, `WalletUpdateSpent`, `DisableTransaction`, `CommitTransaction`, `ScanForWalletTransactions`, `ReacceptWalletTransactions`, `FixSpentCoins` | coins on offer are unspent in the chain; no coin is lost |
| Key pool (`wallet.*`, `walletdb.*`, `keystore.*`) | `setKeyPool`, its records in `wallet.dat`, a `CReserveKey` per thread | `TopUpKeyPool`, `GetReservedKey`, `KeepKey`, `ReturnKey`, `EncryptWallet` | no key is published twice; no record is lost |
| Staking and mining (`miner.*`, `kernel.*`) | `nLastCoinStakeSearchTime` | `CreateNewBlock`, `CheckProofOfStake` | |
| Checkpoints (`checkpoints.*`) | `hashSyncCheckpoint`, `hashPendingCheckpoint`, `hashInvalidCheckpoint`, the one and the master key in the database | `ProcessSyncCheckpoint`, `AcceptPendingSyncCheckpoint`, `WriteSyncCheckpoint`, `ResetSyncCheckpoint` | the chain up to the checkpoint is final |
| Alerts (`alert.*`) | `mapAlerts`, `setKnown` of each peer | `ProcessAlert`, `RelayTo` | no cancelled alert is held; a standing one reaches everyone |
| Check queue (`checkqueue.h`) | `queue`, `nIdle`, `nTotal`, `nTodo`, `fAllOk` | `Loop`, `Add`, `Wait`, the control | `Wait` returns, and with the right answer |
| Locked memory pool (`support/lockedpool.*`) | `arenas`, three maps of free chunks each | `alloc`, `free`, `new_arena` | chunks do not overlap; free ones are merged |
| Address manager (`addrman.*`) | `mapInfo`, `mapAddr`, `vRandom`, new and tried buckets, counters | `Add_`, `Good_`, `GetAddr_`, `Select_`, serialization | the conditions of `Check_`: buckets, references, counters and random order agree |
| Network (`net.*`, `netbase.*`, `bloom.*`) | `vNodes`, bans, buffers | socket and message threads | |
| PayJoin, CoinJoin, stealth, BIP47 | sessions, keys | RPC and HTTP | |
| Tor, I2P, IRC, RPC server, GUI | - | I/O | |

**Interaction.** The message handler thread reads messages and calls
`ProcessBlock` or the `tx` handler with `cs_main` held. `ProcessBlock` moves the
block chain, which writes the transaction index, cleans up the memory pool, moves
the extension block state and notifies the wallets. RPC, miner and staker threads
take `cs_main` too. The Dandelion router has a lock of its own,
`cs_dandelion`, taken for one operation at a time; the embargo loop runs in the
message handler thread without `cs_main`.

**Hard behaviours.**

* A crash or a storage error between two database transactions of one
  `SetBestChain`. A long reorganization commits the shortest part of the branch
  with more trust first and the postponed blocks one by one.
* A reorganization that fails half way: what is outside the database transaction
  is not rolled back.
* Blocks and transactions in any order, chains of orphans, invalid ones among
  them.
* The embargo loop against a wallet relay, lock by lock; a stem peer that has
  disconnected, or that swallows what it gets; transactions that a reorganization or a
  restart puts back into the mempool.
* Arithmetic on positions of nodes around powers of two; the undo window at its
  limit.
* Full address buckets that evict into each other; ids renumbered by a restart.
* Wallets that are told of blocks before these are committed; a repair that reads
  the chain without `cs_main`; payments the mempool refuses.
* A wallet that is encrypted, or a node that stops, while threads hold keys.
* A checkpoint and the chain that leads to it, committed one after the other, and
  after the master key when a release brings a new one.
* Alerts and their cancellations on different ways through the network.
* Notifications of condition variables that may come too early; assertions that read
  counters without their mutex; neighbours of a free chunk that have to be found from either side.

`PROJECT.json` lists these under `hazards`, each with its line.

## 2. Plan

Done, in this order:

1. `BlockTree`, `ChainTypes`, `ChainState` with the abstract `BestChain`;
   `ChainStateProofs`.
2. `TxRelay` and `TxRelayProofs`.
3. `MMR` with the abstract `LeafLog`.
4. `MWState`, which uses `BlockTree` and takes the range as a log of leaves, which
   is what `LeafLogRefinement` proves; `MWStateProofs` has the proofs about both.
5. `AddrMan` and `AddrManProofs`.
6. `KeyPool` and `KeyPoolProofs`, `WalletCoins` and `WalletCoinsProofs`.
7. `SyncCheckpoint` with the abstract `FinalChain`; `SyncCheckpointProofs`.
8. `Alerts`, `CheckQueue` and `LockedPool`, which share no state; `UtilProofs` has the
   proofs about the three.

To come, most important first:

9. A composition of `ChainState` and `MWState`, with the break of the postponed
   loop seen from the extension block state.
10. `CoinJoin` sessions. `PayJoin` can follow once its commands are in the table of
    the RPC server.
11. Pure algorithms: the coin selection of the wallet, `mruset`, `limitedmap`.

## 3. Modules and code

`PROJECT.json` maps each definition to its lines. Definitions whose name starts
with `Mut` are faulty variants of the definition after them (a dropped guard, a
missing reset, an off-by-one); no specification uses them, they show that each
property can fail.

### BlockTree, ChainTypes

The blocks that may ever arrive, with `Prev` and `Work`, and their transactions
are constants. `Chain[b]` is the branch of `b`, `ChainTrust` is `nChainTrust`.
Named assumptions state that `Prev` has no cycle (and, since provers cannot do
induction over the tree, what follows from it), that no transaction is twice in
a block, and that a coinbase belongs to one height. TLC evaluates them on every
instance. Rules that read nothing but the block are the constant `BadBlock`, the
stateless admission rules of the mempool the constant `Standard`.

### ChainState

| Action | Code in `main.cpp` |
|---|---|
| `ProcessBlock`, `KeepOrphan`, `AcceptBlock` | `ProcessBlock`, `CBlock::AcceptBlock`, `AddToBlockIndex` |
| `Extend`, `ExtendFails` | `SetBestChain` when the block extends the tip |
| `Postpone`, `BeginReorganize` | the search for `pindexIntermediate` |
| `ReorganizeDisconnect`, `ReorganizeConnect`, `ReorganizeCommit` | the loops of `Reorganize`, its commit, the relinking and the mempool |
| `ConnectSecondary`, `SecondaryFails`, `SecondaryDone` | the loop over the postponed blocks |
| `AcceptBlockReturns`, `ProcessOrphan`, `NextInQueue` | the work queue of orphan blocks |
| `AcceptToMemoryPool` | `CTxMemPool::accept` |
| `StorageFault` | a failing `ReadFromDisk`, `TxnBegin` or `TxnCommit` |
| `CrashAndRestart` | the process dies; `CTxDB::LoadBlockIndex` |

`db` is the committed content of LevelDB, `txn` what is read through the open
batch. `ProcessBlock` runs under `cs_main`; it is split into steps for the crash
between them. `torn` is a history variable: it becomes `"memory"` when the loop
over the postponed blocks is left early (the tip in memory is then ahead of the
database, see [section 5](#5-disagreements-found)) and `"disk"` when something is
committed on top of that. The properties of the database are stated for
`torn # "disk"`, those of the memory for `torn = "no"`; run `chain_torn` is about
the rest.

`BestChain` is the abstract specification: a ledger that jumps from one sound
branch to another with more trust. `db` implements it.

### TxRelay

| Action | Code |
|---|---|
| `ReceiveTx` (`AcceptTx`, `KeepOrphanTx`) | the `tx` message in `ProcessMessage` with `AddOrphanTx`, `LimitOrphanTxSize` |
| `CommitTransaction`, `ResendWalletTransaction`, `RelayPrevious`, `AddLocalTx` | `wallet.cpp`, `RelayWalletTransaction` |
| `RelayPhase`, `RelayToStemPeer`, `RelayToAll` | `RelayTransaction` in `net.cpp`, one step per lock |
| `GetEmbargoedTxs`, `FluffEmbargoed` | the embargo loop of `ThreadMessageHandler2` |
| `SendRawTransaction` | the RPC `sendrawtransaction`, for transactions of others |
| `Confirm`, `Reorganize` | a block that extends the chain; `Reorganize` with `vResurrect` and `vDelete` |
| `Restart`, `ReacceptWalletTransaction` | the process ends and starts; `ReacceptWalletTransactions` for one transaction |
| `Tick` | the clock |

The handler is one step: it holds `cs_main`, runs in the thread of the embargo
loop, and so meets no other user of the router. The work queue of orphans is the
least fixed point `AcceptedWith`. Peers come and go at any time and only the choice of
stem peers looks at them, so `SelectStemPeers` takes any set of them. Times are ages up to
their limit, so the model needs no bound on the clock.

`announced` and `via` are history variables. `via` says how a transaction of the
mempool came there: with a `tx` message, from this node with a relay, or put back without
one by a reorganization or by `ReacceptWalletTransactions`
([section 5](#5-disagreements-found), item 17). What was put back and not relayed
since is excepted from the properties.

### MMR, LeafLog

All of `CMMR`, with hashes as free terms: two hashes are equal exactly when they
were made in the same way. What `VerifyProof` says of a proof is compared with the leaf at
its index for every proof that `GetProof` can make. `RefRoot` defines the root of a list of leaves by
recursion on the largest power of two, without positions; `LeafLog` is a sequence
with append and cut. The loops are recursive functions over their rounds: `PushParent`
is a round of `Append`, `PushTree` one of `GetPeaks`, `ClimbOne` one of `GetProof`,
`Combine` one of `VerifyProof`. Positions are numbers without a width, which is
the code as long as there are fewer than 2^63 leaves. `GetProof` passes over a peak that is missing in
the array; none ever is (lemma `PeaksPresent`), and the model has no such branch.

### MWState

`mwState` is `g_mwState`; `Applied` and `Undone` are the bodies of `ApplyBlock`
and `DisconnectBlock`, `RecordUndo` the window of undo data. `SetBestChain`,
`DisconnectTip`, `ConnectNext`, `Commit` and `Abort` drive them in the order of
`Reorganize`. `Abort` may come at any step, since a block can also be refused for
reasons outside the extension block. `Restart` empties the state, as the process
does. `synced` is a history variable that becomes false when one of the two has
left the state behind the chain, or when a block is disconnected that `Reuses` a
commitment of its branch (item 5 of section 5), and true again only when the chain has no
extension block below its tip. `RefState` is the state of a node that has only
ever connected one branch. The model starts at activation height, and the break
of the loop over postponed blocks is left to `ChainState`.

### AddrMan

`book` is the whole object: every public operation holds `cs`. `Add`, `Good` and
`GetAddr` are `Add_`, `Good_` and `GetAddr_`; `Restart` writes `peers.dat` and reads
it again (`Reread`). The bucket of an address is a keyed hash in the code and a
constant function here. Times decide which entry of a full bucket is thrown out
and whether a known address gets another reference; they move with the clock, so
the model allows every choice. `Attempt_` and `Connected_` change nothing else.

### KeyPool

Keys are numbers in the order in which they are made. `pool` holds the records of
`wallet.dat`, `setKeyPool` the free ones; `reserved` is the `CReserveKey` of each
thread, which lives from `GetReservedKey` (in `CreateTransaction`) to
`CommitTransaction` or to its destructor (`ReturnKey`). `TopUpKeyPool(count)` may stop
after any number of keys, since each record is written on its own.
`GetKeyFromPool` is what `getnewaddress` does, `CreateNewBlock` the key of a
coinbase, which goes back to the pool. `EncryptWallet` flushes the pool
(`NewKeyPool`), `Restart` frees all records. Every operation holds `cs_wallet` and is one
action; what interleaves is what threads do between them. `published` counts, as
history, how often a key was handed out for good.

### WalletCoins

| Action | Code |
|---|---|
| `SetBestChain`, `ConnectNext`, `Commit`, `Abort` | `SyncWithWallets` from `DisconnectBlock` and `ConnectBlock`, block by block, then the commit or the failure |
| `ReceiveTx`, `ReceiveParent` | the `tx` message; an orphan is accepted with its parent |
| `SendMoney` | `CommitTransaction` in `wallet.cpp`, also when the mempool refuses |
| `CheckWallet`, `RepairWallet` | `FixSpentCoins` with and without `fCheckOnly` |
| `Restart` | loading, `ScanForWalletTransactions`, `ReacceptWalletTransactions` |

A block holds one transaction of the model, so the chain is a sequence of
transactions.
`inMainChain` are the wallet transactions whose `hashBlock` names a block of the main
chain. `GetDepthInMainChain` is positive for these only, and `AvailableCoins` and `FixSpentCoins`
go by it, not by the transaction index. `AddToWallet` sets `hashBlock` when a block is
connected, before the chain has it, and nothing sets it back.

`lapses` is a history variable. `"abort"`: a connection failed after the wallets had been
told, and no repair has followed. The other three last until a full rescan. `"stale"`:
a reorganization failed, and may have left a `hashBlock` on the branch that was given up.
`"erased"`: a repair has then removed a transaction of the chain. `"race"`: `FixSpentCoins` ran during a
connection. The properties are stated up to these lapses
([section 5](#5-disagreements-found), items 8, 9 and 18).

### SyncCheckpoint, FinalChain

The mode is `STRICT`, the default. `AcceptBlock` applies `CheckHardened` and `CheckSync`,
moves the chain and then looks at the pending checkpoint
(`AcceptPendingSyncCheckpoint`). `ProcessSyncCheckpoint` is the message. `Adopt` moves the
chain to the checkpoint, whatever its trust, and `WriteSyncCheckpoint` is the separate
transaction that makes it the one in force; `Crash` may come between the two.
`Upgrade` is the first start of a release with another master key: the key is
committed, then `ResetSyncCheckpoint` moves the chain to the last hardened checkpoint of the release,
then `WriteSyncCheckpoint` commits that checkpoint; a crash may come after each, and the
next start does not take the reset up again. Blocks come after their parents;
orphans are in `ChainState`.

`dbBest` is `hashBestChain` of the database and `gap` the blocks of the chain without a
`pnext`. The two differ from the chain in memory after the early end of the loop over postponed
blocks (item 1 of section 5): `SetBestChain(b)` commits up to one of the blocks `Ends(b)` and makes
`b` the tip. `LoadBlockIndex` starts from `dbBest`. `lapse` is a history variable: what has taken the chain
off the checkpoint (items 19 and 20), until a block is connected or a checkpoint written.

`FinalChain` is the abstract specification: a chain in memory and a saved one that
grow or move to another branch above the checkpoint, which only moves up; the saved
chain holds the checkpoint that was in force when the chain was moved. The first start of a
release may move the chain and the checkpoint to hardened blocks of its own, in two steps,
of which it may leave out the second.

### Alerts

A network of nodes. `Receive` reads one message of a connection: `ReadVersion` is the
handshake, which sends what the node holds, `ReadAlert` the `alert` message with
`ProcessAlert` and the relay, `ReadEarly` an alert before the version, which is
dropped. `Issue` is `sendalert`. `Disconnect` and `Restart` lose the messages under
way, and what the ends knew of each other. The time is the same everywhere.

### CheckQueue

A critical section of `Loop` is two actions. `Enter` (a thread calls `Loop`), `Finish` (a
batch has been run) and `Resume` (a wait ends) take the mutex and count the thread in, its batch
off or its wait off; `Look` decides, and returns, waits or takes a batch, which lets go of
the mutex. In between the thread is `"in"`, and `Add`, which takes the mutex, cannot run (`Free`).
`NewControl`, the constructor of a control, does not take it: its assertions (`Asserts`) read the
counters at any moment. `Spurious` is a wakeup without a notification. Which checks a
batch takes is of no consequence, so the queue is a set; the size of a batch is
computed as in the code. The header has no user in this tree.

### LockedPool

`Arena` with its maps `chunks_used`, `size_to_free_chunk`, `chunks_free` and
`chunks_free_end`; iterators are the entries they point to. `alloc` tries the arenas in turn and
then `new_arena`, whose first arena is cut to `Limit`; `free` releases and merges
with the neighbours, one map operation after the other as in the code.

## 4. Runs

| Run | Configuration | Result |
|---|---|---|
| `chain_fork` | two branches that overtake each other, up to three blocks deep; two crashes, one storage fault | passes, 60,800 states |
| `chain_torn` | three branches of two blocks, one crash | violates `NoUnspentPrevout` |
| `tx_relay` | five transactions, one of the wallet with a supporting one, one that waits for two parents, one invalid; a peer, limit of two orphans; any reorganizations and restarts | passes, 264,000 states |
| `mmr` | 11 leaves of two values | passes, 4,095 states |
| `mw_state` | four branches, a refused block, a commitment made again, window of 2 | passes, 304 states |
| `addr_man` | four addresses, two sources, new buckets of two entries and a tried bucket of one | passes, 145,000 states up to symmetry |
| `key_pool` | two threads, a pool of two, seven keys | passes, 223,000 states up to symmetry |
| `wallet_coins` | five transactions that compete for two coins, reorganizations of two blocks | passes, 1,433,000 states |
| `sync_checkpoint` | two branches and two blocks that do not connect, one of them with a block above it, five checkpoints, two releases; a crash and a fault | passes, 60,800 states |
| `alerts` | three nodes in a line, three alerts that cancel one another, one of them the last alert; one fault | passes, 407,000 states |
| `check_queue` | two workers, four checks, two of which fail, batches of two | passes, 51,500 states |
| `locked_pool` | a first arena of 8 bytes, a second of 12, requests of six sizes | passes, 7,800 states |

**Chain.** `DiskLedgerExact`: the committed index is exactly that of the branch
of `hashBestChain`. `MemoryMatchesDisk`: the tip in memory is the committed one
whenever `ProcessBlock` has returned. `LinksFormMainChain`: `pnext` and the
`hashNext` fields are the path to the tip. `ImplementsBestChain`: the database
shows sound branches only, with growing trust. `ProcessBlockReturns`: liveness.
`PoolMarksExact`: the mempool's map of spent outputs. `NoTransactionLost`: when the
tip moves, every disconnected transaction that may be in the mempool is confirmed or
in it again, unless an input is gone or is spent by another transaction.
`OnBestValidChain`, `NoConnectableOrphan`: the order of arrival does not matter, the
second as long as the chain is not torn. The first speaks of indexed blocks: a block that is
refused because its kernel is on another branch is not indexed, and may come again.

**Relay.** `PhasesDisjoint`: nothing is in the stem phase and past it.
`RelayAccounted`: a pool transaction is announced, in the stem phase, in the
hands of the relay, or was put back by a reorganization or a restart.
`EventuallyAnnounced`: the embargo works, with vanished peers too, and the wallet's own
transactions are announced even when they were put back. `NoAcceptableOrphan`: the
work queue leaves no orphan behind whose inputs came in messages.

**Extension blocks.** `RootExact`, `ImplementsLeafLog`: appends and rewinds
leave the range of the remaining leaves. `ProofsDecide`: a proof that verifies is
for the leaf at its index, and proofs verify exactly for the leaves of the last two
mountains. `PathIndependent`: the state is a function of the branch,
also with commitments made again, until a block that makes one is disconnected.
`ProofIndexExact`: every output has its leaf. `UndoUsable`: the undo data are
bounded and those of the last blocks, in both containers, and the "state inconsistent"
branches are not reached.

**Addresses.** `BookConsistent`: what `Check_` (compiled only for debugging)
tests, without the times, that a tried entry is in the bucket of its address, and that no
bucket outgrows its size. `TriedKept`: a tried address is demoted, never dropped in
one step. `RereadExact`: `peers.dat` gives back every address with its buckets.

**Wallet.** `RecordsAccounted`: until the wallet is encrypted, every record is
free or held by one thread, which has its key. `NoKeyReuse`: no key is published
twice. `KeptKeysLeavePool`: a key taken for good never comes back, also with
encryption and restarts. `OfferedUnspent`: `CreateTransaction` selects only what the
chain has as unspent. `NoCoinLost`: an unspent coin marked spent has a spender in the
wallet. `WalletComplete`: nothing in the chain that concerns the wallet is missing, and
the wallet knows its depth. `RepairRestores`: after `FixSpentCoins` exactly the right coins are
on offer. Each is stated up to the lapses that break it.

**Checkpoints and alerts.** `CheckpointInMainChain`: the checkpoint in force is on the
main chain, up to two lapses; without the one of a release, chain and checkpoint are on one
branch always. `ImplementsFinalChain`: below the checkpoint the chain never changes but for the
first start of a release, and what a restart finds is on the same branch.
`PendingTaken`, `PendingDecided`: a checkpoint that came before its block is settled when the
block comes, and in the end, unless the chain has a gap. `CancelledGone`: no node holds an alert
with one that cancels it. `AlertsSettle`: an alert that stands for good is held by all nodes in the
end. An alert that some node has ever read before the version of its sender (`dropped`) is excepted:
the message is thrown away there, while its sender has noted the alert as known to that node and
does not send it on this connection again.

**Check queue, locked pool.** `WaitReturns`: no notification is lost.
`ResultExact`: `Wait` tells whether all checks returned true. `ControlAsserts`: between
two controls nothing is left to do and no result is left, and `nTotal` and `nIdle` differ by the
threads that have the mutex; so of the assertions that the next control makes without the
mutex only `nTotal == nIdle` can fail, and only for a thread that is on its way.
`ChunksPartition`: used and free chunks tile the arena. `WholeWhenFree`: an arena
with no used chunk is one free chunk.

**Bounds.** In `chain_fork` every order of arrival of two branches is met with
three reorganizations, double spends and shared kernels across them, and a block
whose kernel is known to the other branch only; a crash between the two commits of a
block leaves it indexed and not connected, so that the next one postpones, and a second
crash meets the recovery from the first. `chain_torn` is the
smallest tree with an invalid block among the postponed ones.
`tx_relay` has both kinds of transactions and a supporting one, an embargo of one tick,
and three orphans with a limit of two; both a transaction of the wallet and one paid to it are
mined and put back; with `EpochTicks` 0 an epoch may end at each use, and
the new stem peers may be the old ones, so that a longer one adds no behaviour. 7 and 11 leaves are ranges
with three mountains, of neighbouring and of distant sizes. With a window of two the
undo data run out during the move to `z1`. In `addr_man` every bucket overflows and an
evicted entry finds its own bucket full. Seven keys let a pool of two be used up
and filled again while both threads hold one. In `wallet_coins` no chain is longer than
`MaxHeight`, so only the depth of a reorganization is bounded; `a` and `d` compete for a coin, `b`
spends change, and the coinstake `s` competes with nobody but can be disconnected. In
`sync_checkpoint` the branch of the checkpoints has less trust than the other, and the
second release hardens a block of it; `x3` fails as a postponed block, and `y4` is connected above it. In `alerts` the node in the middle may
hold, cancel or miss what the ends exchange; one fault is a lost connection
or a restart. In `locked_pool` requests are served exactly, with a rest, from a
second arena or not at all.

`MaxCrashes`, `MaxFaults`, `MaxLeaves`, `MaxIds` (ids given out between two
restarts), `MaxKeys`, `MaxHeight`, `MaxFork`, `MaxTime` and `MaxArenas` are the
only bounds in guards. Addresses in `addr_man` and threads in `key_pool` are
interchangeable and no property of these runs is a liveness property, which justifies
the symmetry.

**Fairness.** `ChainState`: weak fairness of the steps of `ProcessBlock`, since
the thread that holds `cs_main` waits for nobody. `TxRelay`: weak fairness of the
wallet relay (it holds `cs_main`), of the embargo loop (the message handler comes
round every 100 ms) and of the clock, and strong fairness of `ResendWalletTransaction` for the
wallet's own transactions, which is enabled whenever no relay is under way:
`ResendWalletTransactions` is called for every message sent and goes through the wallet half an hour
after the last time at the latest, provided that a block has come since. Nothing is
assumed of peers or of the arrival of transactions. `SyncCheckpoint`: the steps under `cs_main` and those of a start go on, and a block
that no rule refuses arrives some time. `Alerts`: messages that have arrived are read
and `ThreadOpenConnections` calls lost peers again. `CheckQueue`: checks
return, a thread of `Loop` that asks for the mutex gets it in the end although others ask too
(strong fairness of `Finish` and `Resume` for each thread), and the one that has it lets go of
it; whether workers are started and when the master calls `Wait` is left open. The other modules have no liveness properties.

**Deadlock** is not checked where everything may have arrived (`ChainState`,
`SyncCheckpoint`), been confirmed (`TxRelay`) or settled (`Alerts`), since the node
then waits for messages, nor where the bound on keys ends the behaviour (`KeyPool`).

## 5. Disagreements found

The first has a run. The others were met as counterexamples of stronger
properties; what the model says instead, and what to drop from it to see them, is
in brackets.

1. `main.cpp:2025`. When a postponed block fails to connect, `SetBestChain`
   leaves the loop with `break` and still makes the last block the tip. The next
   block is then connected to an index that lacks its parent, which the self check
   at `-checklevel=5` reports as `*** found unspent prevout` (`chain_torn`). As
   it reports success, a block that does not connect can become a checkpoint, too
   [`Connects` in `SyncCheckpoint`].
2. `dandelion.cpp:172`. `ShouldFluff` answers "fluff" while there are no stem
   peers and does not select any; a node without wallet transactions never leaves
   that state and announces everything at once [with `Local = {}`
   `mapStemTxs` stays empty in `TxRelay`].
3. `mw/state/mmr.cpp:279`. `GetProof` lists the peaks to the right one by one
   where `GetRoot` bags them first; with two or more of them the proof does not
   verify. The tests use one mountain only [`ProofsDecide` states exactly this].
4. `main.cpp:1824`. The extension block state is moved outside the database
   transaction and is not moved back by `TxnAbort`; nor is it saved across a
   restart [`synced` in `PathIndependent`].
5. `mw/state/mw_state.cpp:305`. `ApplyBlock` ignores a refusal of `SpendOutput`;
   with a commitment made again after it was spent, which no rule forbids, the output
   survives the block that spends it. `DisconnectBlock` of the block that made it again then
   erases the entry of the proof index where the older one was [`Reuses` in `synced`].
6. `miner.cpp:119`. The key of a coinbase goes back to the pool when
   `CreateNewBlock` returns, and `CheckWork` keeps a reservation that was never
   filled; the same key is then given out as an address [mined keys are not
   counted in `published`].
7. `wallet.cpp:3078`. `EncryptWallet` flushes the free records and numbers new
   ones from 1 while threads hold old numbers. A reservation may then be kept or
   returned under the number of another key, and a key made before the encryption
   may return to the pool [`~crypted` in `RecordsAccounted` and `NoKeyReuse`].
8. `main.cpp:1719`. Wallets are told of blocks before the commit; when the
   reorganization fails coins stay marked as the given up blocks had it, until a
   repair [the lapse `"abort"`].
9. `wallet.cpp:3352`. `FixSpentCoins` takes `cs_wallet` but not `cs_main`, and
   during a connection compares the wallet with an index that is about to change
   [the lapse `"race"`].
10. `wallet.cpp:3420`. With `fCheckOnly` the repair still writes the flags of the
    inputs of conflicted transactions [`CheckWallet` changes `vfSpent`].
11. `wallet.cpp:405`. When a transaction is found in a block its own outputs
    become unspent first, those that a pending payment spends included
    [`NoCoinLost` speaks of the chain, not of pending payments].
12. `main.cpp:3908`. For an accepted orphan `SyncWithWallets` is called with its
    parent; the wallet learns of the orphan from its block only
    [`ReceiveParent`; `WalletComplete` speaks of the chain only].
13. `wallet.cpp:3110`. `-keypool=0` is let through (`max(..., 0)`). The pool then has
    one key; while a thread holds it the set is empty and `TopUpKeyPool` counts from
    1 again, writes over the held record, and what the thread keeps or returns is
    another key [`TargetSize > 0` in two theorems of `KeyPoolProofs`].
14. `main.cpp:2025`, again. A node with a torn chain refuses a valid block, whose
    inputs its index does not have, and keeps the orphans that wait for it
    [`torn = "no"` in `NoConnectableOrphan`].
15. `main.cpp:1923`. A reorganization puts the transactions of the disconnected
    blocks back into the mempool before it removes the ones that conflict with the new
    branch; a transaction that is refused on account of such a conflict is lost
    with it [`mapTx` in `NoTransactionLost`].
16. `checkpoints.cpp:376`. `hashInvalidCheckpoint` stays set, and with it the
    warning, after the checkpoint it names has been accepted
    [no property relates it to the checkpoint in force].
17. `main.cpp:1924`, `wallet.cpp:1002`. What a reorganization puts back into the mempool, or
    `ReacceptWalletTransactions` at a start, is neither announced nor entered into the
    stem phase. The wallet resends its own transactions; one of somebody else, which a
    reorganization has put back or which was accepted as the support of an own one, stays
    in the mempool unannounced unless it comes or is submitted again
    [`via` in `RelayAccounted` and `EventuallyAnnounced`]. Orphans that wait for such a
    transaction are not tried, either [`via` in `NoAcceptableOrphan`].
18. `wallet.cpp:490`. `AddToWallet` writes the `hashBlock` of a block that is being connected, and
    `TxnAbort` does not bring the old one back. After a failed reorganization a transaction that
    is in both branches has no depth (`main.cpp:800`): its coins are not on offer, `FixSpentCoins`
    sets their flags and does not change that, and at `wallet.cpp:3488` it erases
    a generation that is in the chain. A full rescan helps [the lapses `"stale"` and `"erased"`].
19. `main.cpp:3001`. The new master key of a release is committed before `ResetSyncCheckpoint` moves
    the chain (`checkpoints.cpp:229`) and writes the checkpoint (`checkpoints.cpp:247`). After a crash or a
    failing write in between no start takes the reset up again: the chain is on the branch of the hardened
    checkpoint, the checkpoint in force is on another one, and `CheckSync` refuses every block
    of the node's own chain [the lapse `"reset"`].
20. `main.cpp:2037`, with item 1. The torn tip can become the checkpoint; a restart then ends
    the chain at `hashBestChain`, below the checkpoint in force, though on its branch
    [the lapse `"behind"`].
21. `checkqueue.h:131`. `assert(pqueue->nTotal == pqueue->nIdle)` is evaluated without the mutex, and
    fails for a worker that starts late, or that wakes late or for no reason, while it is between
    its two counts [`ControlAsserts` counts these workers].

Items 13 to 15 were met when the proofs failed. 3 to 5 concern code that is compiled only with MWEB enabled, which is not the
default.

## 6. Proofs

The theorems hold for every value of the constants that satisfies the named
assumptions, with no bound on blocks, transactions, crashes, faults, threads or chunks.

**ChainStateProofs.** `TypeCorrect`, from the inductive `IInv`: `TypeOK` and
`JobInv`, which says where `pindexNew`, `pindexIntermediate` and `cursor` stand for
each value of `pc`; without it `Prev[cursor]` might be `Prev[Genesis]`. `TipOnDisk`
and `TipTrustGrows`, from `TipInv`: until postponed blocks are connected the disk is
never ahead of memory and the two agree unless `torn`; while they are connected the
committed tip is `cursor`, and the target has more trust.

`PoolMarks`: `PoolMarksExact` is inductive with the types; the lemmas
`MarkedExact` and `UnmarkedExact` say what adding and removing sets of
transactions does to an exact marking.

`LedgerOnDisk`, from `LedgerInv`: `db` is the exact index of
`db.best`, and `txn` that of `cursor` while a reorganization runs. Exactness alone
is not inductive: to undo a block one must know that its transactions spend
nothing they could not spend and occur nowhere else on the branch. `Exact`
adds that every input on the branch has its source below (`Sourced`), from which
`NoRepeat` and `SpendsOnce` follow; `ConnectExact` and `DisconnectExact` are the two
steps. `DiskImplementsBestChain` is the refinement: initial states map to initial
states, each step to a step of `BestChain` or a stutter.

`LinksFollowTip`, from `LinkInv`: in the middle of a reorganization the links in the open
transaction are the path to `cursor`, which is on one of the two branches and, once
it goes up, above the fork. `BestValidChain`, from `IndexInv` (indexed
blocks come with their branches) and `BestInv`: of the valid indexed blocks only the
one that is being tried may have more trust than the tip, and every block that
`SetBestChain` stands on is valid, so that no postponed block fails.
`OrphansWorkedOff`, from `OrphanInv`: an orphan whose parent is indexed waits for a block
of the work queue, for the one that is being tried, or for one that does not connect.
`TransactionsAreKept` is an action property: it follows from `PoolMarksExact`,
`LedgerInv` and `PoolApart` (nothing confirmed is in the mempool), because `accept`
refuses a transaction that was disconnected only for an input.

**TxRelayProofs.** `RelayTypeCorrect`; `PhasesStayDisjoint` and
`NoTransactionForgotten`, with reorganizations, restarts and submitted transactions, from `PhaseInv`, whose part `PeerInv` says that a relay
past its look at the phase holds a transaction that is in the stem phase or that the
embargo loop has announced in between; `OrphansAllTried` from `OrphanInv` and the lemma
`AcceptedFacts` on the fixed point; `OrphanLimit`.

**MWStateProofs.** `StateOfBranch` and `ProofsAvailable`, for every tree of blocks; branches
may make a commitment twice (finding 5 shows what that leads to, and `synced` says where). The
inductive invariant says that, while `synced`, the state is `RefState[cursor]`, that
every unspent output has the entry of its leaf (`StateOK`), and that every undo record is the one its block
made from such a state. The heart is `UndoneApplied`: `DisconnectBlock` is the inverse of `ApplyBlock` for a block
that does not reuse a commitment.
`StateTypes` and `UndoStaysUsable` do not depend on it. In `UInv` the undo data
have sizes that grow along the branch (`StackInv`): when the last block is unwound the
one below must fit the state that was cut back; `OrderInv` says that no block is twice
in `dqUndoOrder`, else the oldest one, when it is dropped, would leave an entry behind.

**MWStateProofs, mountain range.** `LeafLogRefinement`, `RootExactHolds` and
`ProofsDecideHolds`, for every number of leaves. Tree `q` of height `h` has the `2^h` leaves
from `FirstLeaf(q, h)` on and its peak at `TreePos(q, h)`, twice the number of leaves up to its
end, less the one bits of `q`, less two; its children are the trees `2q` and `2q + 1`
below it, whatever the range. `RangeInv` (theorem `RangeInvariant`): the array is as long as
`NodeCountForLeaves` says, has every leaf at its position, and at the peak of every
complete tree the hash of the peaks of its children. Appending leaf `i` completes one tree
for each trailing one bit of `i` (`NewestTree`), and the left child, `SubtreeSize` back,
is in the array (`LeftChild`); rewinding cuts behind the last complete tree.

The bits of `nLeaves` from `h` on are the `q` with `Shifted(q, h, nLeaves)`, and for an odd
one the tree `q - 1` is a mountain (`MountainFacts`). By induction on the
height, from the low bits up, the bag of the mountains from there on is the reference
over the leaves from `FirstLeaf(q, h)` on (`BagIs`, `TreeRoot`).

For the proofs, `GetHeight` finds the height of a tree from its position (`HeightAt`), so no
two trees share a peak (`SamePeak`), and `IsLeftSibling` tells the children apart
(`SiblingAt`): beside a right child, at the distance of a sibling, is a node within
the next tree (`InsideTree`) or above the child (`Spine`), never one of its height. Hence each round
of `GetProof` goes from a tree over the leaf to its parent and stops at the mountain
(`ClimbStep`, `PathFacts`), the search finds that mountain (`MyPeak`), and
`VerifyProof` goes the same way back: along the path and past the mountains on the
left it has the right hash exactly if it started with it (`PathDecides`,
`LeftDecides`). On the right it agrees with the bag for the last two mountains; for an
earlier one it would need a hash that is part of itself (`RightDecides`, `NoSelf`).

The functions of `MMR` are recursive. That they satisfy their equations, and what they
compute, is proved by induction over sets of numbers (`StrongSet`, `StepSet`), from the
well-foundedness of the order of the natural numbers; `NatRec` gives a function that is
defined from its value at a smaller number.

**AddrManProofs.** `BookStaysConsistent`, `RereadIsExact`, `TriedAreKept`, for any
addresses and any number and size of the buckets. `BookInv` is `Sound(book, NoId)`:
`vRandom` and `nRandomPos` are inverse to each other (`Ordered`), `mapAddr` leads to
the entries (`Known`), the counters count (`Counted`), the references are the new
buckets (`Referred`), and the tried buckets are as `TriedBucketOf` has it (`Settled`)
and within their sizes (`Bounded`). `Add_` counts a reference
before `ShrinkNew` makes room for it, so that the books in between are `Sound(m, x)`: right
but for the entry `x`, which has one reference too many; `ShrinkFacts` shows that what
`ShrinkNew` takes out is another entry. For `MakeTried` the books in between are `Moved`
(the entry is in no bucket) and `Returned` (the evicted one is in a new bucket
already); that there is room for it follows from the promotion, which has just left
one. `GetAddr_` swaps any number of times: a property of all the swaps is proved by a
least counterexample (`SwapInduction`). For `peers.dat`, `FileId` is shown to be a
bijection from the entries to the numbers below their count, by the ranks of the
entries written (`RankFacts`), what is read is the book renamed along it
(`RereadShape`), and a renaming keeps a book sound and what it knows.

**KeyPoolProofs.** `KeptKeysStayOut`, from `KInv`: a key is in one record at most, a
thread holds it under the number of that record only, and a published key is in
none. `RecordsStayAccounted` and `KeysUsedOnce`, from `AInv`: every number that a thread
holds is below some free one, so that `TopUpKeyPool`, which counts on from the last,
does not meet it. This takes `TargetSize > 0`, the hypothesis of the two theorems (item 13
of section 5).

**WalletCoinsProofs.** `WalletHasAll`, `OffersUnspent`, `CoinsAreKept`, and the action
property `RepairIsExact`, from two invariants. `WInv` is about transactions and flags. Between
operations the wallet was told of the chain (`Told`): it has what involves it, the coins the
chain spends are marked, and other coins of the chain are marked only if a payment in the wallet
spends them, up to the lapses. In the middle of a connection it was told of a part of the old or of
the new chain, and what is left to do is exactly the way from there (`Fits`).
`DInv` is about depths: only transactions of the chain have one, and without a failed reorganization all
that involve the wallet do, but for those of blocks that the connection under way takes off. To
connect a block takes the depth of its transaction only, which is on the branch to come; hence
a commit leaves every depth right, and an abort does if nothing was taken off. What a
rescan computes is a recursive function over the chain; its effect is proved by a least
counterexample.

**SyncCheckpointProofs.** `CheckpointOnMainChain`, `CheckpointTypes` and the
refinement `CheckpointsAreFinal`. `CInv` adds to the types that the branch of an
indexed block is indexed, that the checkpoint is on the main chain up to the lapses, that a
checkpoint about to be written is above it, and what is pending during a reset. The point is
`CheckSyncDescends`: a block that passes `CheckSync` and is not indexed descends from the
checkpoint, so that moving to it, by trust or by a newer checkpoint, leaves the chain below
alone. For what is on disk, `SetBestChainFacts` says that a chain that is moved
above a block of it keeps that block on disk too (`Linear`: the blocks of a branch are in a
line), so a crash between the commit of the chain and that of the checkpoint leaves the chain on the
branch of the older checkpoint. For the reset of a release this is not so (item 19), and
`FinalChain` says what it may do. `PendingIsTaken`: `PendingTaken` is inductive with `CInv`.

**UtilProofs, check queue.** `AssertsHold` (`ControlAsserts`, with the critical sections open to
the constructor), `WaitTellsTheTruth`, `CountersAreExact`,
`BatchesAreApart`, `QueueTypes`, for any number of workers and checks. `QInv`
says that the counters count what is pending and who waits, that batches are apart, that
`fAllOk` and the `fOk` of a running thread are false only if an added check fails,
and that a failing check which is no longer pending has left `fAllOk` false.

**UtilProofs, locked pool.** `ChunksTile`, `MapsDoAgree`, `FreeChunksMerged`,
`ArenaWholeAgain`, `PoolTypes`, for every size, alignment, limit and sequence of calls.
`Cut` and `Join` say that splitting a chunk of a tiling, or joining two
neighbours, gives a tiling. Between its map operations `free` passes through arenas
whose maps have stale entries: `Loose(A, c, P, E)` is an arena that lacks the chunk
`c` and has stale begins `P` and ends `E`; `MergePrevOK`, `MergeNextOK` and
`EnteredOK` lead from one such arena to the next and back to an exact one.

**UtilProofs, alerts.** `CancelledStayGone`, for every network and any alerts.
`AlertInv` adds that only alerts that were sent are held or under way, finitely many;
`ProcessedSound` is the argument, and time does not bring an expired alert back.

The types of these modules, and `TrustGrows`, `OrphansBounded`,
`CountersExact`, `BatchesApart`, `MapsAgree` and `Coalesced`, are stated by theorems and
not repeated in the runs.

**Only model-checked.** Liveness (`ProcessBlockReturns`, `EventuallyAnnounced`,
`PendingDecided`, `AlertsSettle`, `WaitReturns`), which the prover does not support. Every
other property of a passing run is stated by a theorem.

## 7. What is not modelled

* In the chain: a failing commit of the block index entry in `AddToBlockIndex`,
  `nBestInvalidTrust` (a warning), the creation of the
  genesis block, `-blocknotify`, `MultiSend`, the repair
  after a failed self check.
* In the relay: `SignAndBroadcast` of PayJoin, which accepts and relays like `sendrawtransaction`,
  double spends (they are in `ChainState` and `WalletCoins`), the limit of 5000 bytes on an orphan, Bloom filters and
  `fRelayTxes`, the expiry of `mapRelay`, the number of hops (0 or 1 in all calls).
* In the extension blocks: all cryptography (`BadMW`), the scan of the extension
  block wallet, `SaveToDB`, `LoadFromDB`, `Snapshot` and `Restore`, which nothing calls.
* In the address manager: times, services, ports, and files written with another number of
  buckets.
* In the wallet: coin selection, fees, change, accounts, `MultiSend`, the
  format of Berkeley DB, its flushing and salvage, and the encryption of keys itself.
* In the checkpoints: the modes advisory and permissive, the requests for missing
  blocks (`AskFor`), the signature. In the alerts: texts, priorities, the
  signature.
* In the check queue: `fQuit`, which nothing sets. In the locked pool: the page allocators of
  the operating systems and the statistics.
* The components with status `not_modelled` in `PROJECT.json`, each with its
  reason.
