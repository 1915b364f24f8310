# TLA+ models of go-tangerine's consensus-side components

This directory holds TLA+ models of the concurrent and stateful parts of the
consensus code vendored into go-tangerine (`src/vendor/.../tangerine-consensus`)
and of the code beside it (`src/unnamed/part_000` to `part_002`, `src/dex`).
The TLC configurations check them. Every module is written from the Go source.
The few actions written from `spec.md` instead are marked `spec_modelled` in
`PROJECT.json`: they stand for code this repository does not contain
(`agreement.go`, the governance).

## The system's parts and how they interact

| Part | Source | State | Operations | Interacts with |
|---|---|---|---|---|
| NodeSetCache | `src/unnamed/part_000` | `rounds` (round → crs, node set, notary set), `keyPool` (node → public key, refCnt), one RWMutex | Exists, GetNodeSet, GetNotarySet (get, then update on a miss), GetPublicKey, Touch, Purge, update (fetch, increment, store, sweep) | the governance (NodeSet/CRS/Configuration per round, each possibly not ready yet); every vote and block verifier reads it |
| BA agreement states | `core/agreement-state.go`, `types.NewVote` in `part_001` | current state, the agreementData (isLeader, lockValue, period, the leader's block) | clocks() and nextState() of Fast, FastVote, Initial, PreCommit, Commit, Forward, PullVote, Sleep | the agreement driver (`agreement.go`, not in src), which waits the clocks, processes votes, jumps periods and restarts positions; recv.ProposeVote broadcasts |
| nonBlocking | `core/nonblocking.go` lines 1-137 | `events` queue, `eventsChange` (sync.Cond), `running` (WaitGroup), one worker goroutine | BlockConfirmed, BlockDelivered (addEvent), run, wait | the consensus core submits; the application is called back by the worker |
| dex cache | `src/unnamed/part_002` lines 332-499 | voteCache per position with FIFO `votePosition`, blockCache, finalizedBlockCache | addVote, votes, addBlock(s), addFinalizedBlock, blocks, finalizedBlock | the dex protocol manager (pull requests) |
| Signer, crypto | `core/utils/signer.go`, `crypto.go` | none (pure) | SignBlock, SignVote, SignCRS, SignDKG*, Hash*, Verify* | every producer and verifier |
| blockProposer | `src/dex/blockproposer.go`, `core/rawdb/accessors_core_chain_tip.go` | running, syncing, proposing flags, stopCh, WaitGroup, b.mu, the stored compaction chain tip | Start, Stop, the proposer goroutine (initConsensus or syncConsensus with its ListenLoop, running the core, the exit goroutine) | the node service (Stop from svc.Stop), the protocol manager (SetReceiveCoreMessage), the blockchain's head events, the consensus core |
| Dexcon engine | `src/consensus/dexcon/dexcon.go` | the governance state: round heights, last proposed heights, disqualified nodes, total supply, halvings; balances | Finalize (inExtendedRound, calculateBlockReward); every other method is a stub | the blockchain (Finalize per block), the governance contract state |
| others | api_backend.go, config.go, feeder.go | – | RPC pass-through, defaults, load tooling | – |

The hard behaviours are these:
- NodeSetCache's readers release the read lock before they update.
- update may fail halfway through.
- The sweep computes on uint64.
- The BA's votes must keep their ballot order across period jumps and restarts.
- nonBlocking hands events between submitters, a worker and wait() through a condition variable and a WaitGroup.
- The dex cache evicts under bounds.
- blockProposer's Start and Stop race with its goroutine and with the exit goroutine, whose svc.Stop calls Stop again.
- Dexcon's Finalize derives round boundaries, rewards and disqualifications from governance state that it writes itself, block after block.

`PROJECT.json` lists every hazard at the line where it bites.

## Modules

### NodeSetCache.tla (+ MC_NodeSetCache.tla)

The state maps directly onto the code:
- `rounds` and `keyPool` are the cache's maps. A public key is abstracted to its node identity.
- `pending[t]` is the round a caller's `get` missed. The caller has released the read lock and is about to call `update`.
- `avail[r]` is the set of governance answers that are ready for round `r`.

Each locked section is one step.
- `Get` models `get`, under the read lock.
- `UpdateAfterMiss` models the `update` call that follows a miss.
- `Touch` and `Purge` are each one step.
- `Update` has one disjunct per outcome of `update`:
  - the node set is nil;
  - the CRS is zero;
  - the configuration is nil, which returns after the refCnt increments;
  - success, which stores the round and runs the sweep.
- `Swept` is the sweep test `round-rID <= 5`, computed modulo `RoundModulus`, the stand-in for 2^64.
- `Publish` is the governance making one more answer ready.

### AgreementState.tla (+ MC_AgreementState.tla)

Each `nextState` is one action, named after its state (`FastNext`, `InitialNext` and so on). It casts the state's vote into the `votes` history and moves on once `ticks` has reached `Clocks(state)`.
- `Tick` is the driver's ticker.
- The writers of the agreement data live in `agreement.go` and are modelled from the spec:
  - `Restart` moves to the next position.
  - `EnterPeriod` is the jump on a Com quorum. It sets a lock value and goes to PreCommit of a later period.
  - `LeaderBlock` is a new leader block arriving.
  - `Decide` parks the BA in Sleep.
- The driver holds the agreement lock around `nextState`, so each state's step is atomic.

### NonBlocking.tla (+ MC_NonBlocking.tla)

Every critical section that does not block is one step, enabled while `lockHolder = Free`. `cond.Wait` is a pc value `"parked"`. A Broadcast (`WakeWorker`, `WakeWaiter`) moves every parked thread back to taking the lock.

The actions map to the code as follows:
- `Submit` and `AddEvent` are the submitters, split into the call and the locked append with its Broadcast.
- The worker is `WorkerTake` (pop and `running.Add(1)` under the lock), `WorkerDispatch` (the callback) and `WorkerDone` (`Done`, then Broadcast).
- `wait()` is `WaitCall`, then `WaitCheck`, then `WaitReturn`. `WaitCheck` parks while the queue is non-empty, or else keeps the lock into `running.Wait()`. `WaitReturn` happens once the counter is 0.
- The `submitted` and `delivered` histories exist only for the properties.

### DexCache.tla (+ MC_DexCache.tla)

Every method of the dex `cache` holds `c.lock` for its whole body, so each method is one step.
- `voteCache` is a partial function from position to the set of cached vote keys. A vote is its position and the rest of its `voteKey`.
- `votePosition` and `voteSize` are the code's fields of the same names.
- `AddVote` follows `addVote` in order: evict the oldest position when full, create the position, stop on a duplicate, otherwise store and count. The eviction and creation survive the early return.
- `blockCache` and `finalizedBlockCache` map hash and position to the block, with its finalized flag.
- The `NoLock` helpers return the set of states they can leave. The eviction `for k := range m { delete(m, k); break }` can delete any key, because Go randomises map iteration.
- `AddBlocks` is a RECURSIVE fold of the loop body over the batch, in one step.

### BlockProposer.tla (+ MC_BlockProposer.tla, ProposerLifecycle.tla)

The state is the proposer's fields (`running`, `syncing`, `proposing`, `stopCh`, `wg`'s counter, the holder of `b.mu`), the protocol manager's receive switch, and per goroutine generation a `pc` with the locals (`core`, the event height, and every stopCh value it has read). Each caller and each exit goroutine has a `cpc` saying where its Start or Stop call is. A channel is the generation number that made it; `closed` is the set of closed channels.
- `Start` is the successful CompareAndSwap (a failing one changes nothing). `Stop` is three actions: `StopIdle` when running is 0; `StopClose` (receive off, close, block in wg.Wait holding b.mu; a close of a closed channel sets `panicked`); `StopFinish` once the counter is 0.
- The goroutine is one action per step between the points where another goroutine can observe it: the dMoment branch, every batch of syncConsensus's loop with its three outcomes, every ListenLoop case, the inner SyncBlocks batch, running the core, the `<-b.stopCh` wait, the two defers in their LIFO order. `StopReceived` spawns the exit goroutine, which calls Stop and then `Exit` (os.Exit(1)).
- The compaction chain tip accessors are `ReadCoreCompactionChainTip` and `WriteCoreCompactionChainTip`; the core writes the tip when it delivers a block.
- The environment: the chain grows (a head event reaches the subscription only while the goroutine listens), the chain stops, dMoment passes, SyncBlocks may fail.
- `ListenMeow` is the watch cat's case. The cat meows only 120 s after its last Feed (lines 181, 191, 209), and meanwhile the goroutine is blocked in the select. So any other ready case is taken first: a pending chain head event, sub.Err(), or a closed stopCh. The case is therefore enabled only when it is the one ready.
- `IsCoreSyncing` and `IsProposing` are the atomic loads the node reports. `SyncingReported` checks that IsCoreSyncing is true exactly while a generation is inside syncConsensus, on every return path and across generations.
- `ProposerLifecycle` is the abstract contract: a run starts only when none is live, is asked to stop at most once, ends once asked unless the process exits, and `proposing` is set only while running and cleared only with no run live. `Lifecycle` maps it: `on` is `running = 1`, `stopReq` is "stopCh is closed", and `proposing` is `IsProposing`.

### Dexcon.tla (+ MC_Dexcon.tla)

The governance state Finalize reads and writes is variables; the per-round configuration the fetcher returns (`RoundLength`, `MiningVelocity`, `MinBlockInterval`, the DKG sets, `NextHalvingSupply` after n halvings) is constant. `Finalize(r, cb)` is the whole method, in the code's order: PushRoundHeight at the first block of a round, the dead-node check after `DKGDelayRound`, the reward (none for an empty block or in the extended round), the supply and halving check, PutLastProposedHeight. `Next` is the consensus core choosing the next block's round (the parent's round, or the next one once it has `RoundLength` blocks) and coinbase.

### Signer.tla (+ MC_Signer.tla)

The Signer has no state. The model is the set of messages the honest nodes have signed (`issued`, `crsIssued`) next to what one Byzantine node has sent (`forgedDKG`, `forgedCRS`). `keyIssued`, `votesIssued` and `blocksIssued` hold the master public keys and partial signatures, votes and blocks the honest nodes signed.
- Every `hash*` function is the Keccak of the bytes it encodes, modelled as an injective record of the byte sequence. `LE64`, `Bytes32` and `Bytes` write the fields as words: an 8-byte integer, four 8-byte chunks of a 32-byte value, and one word for a variable-length slice such as a payload, a signature or a marshalled time. Two slices with equal contents are equal words, whichever field they fill. The code concatenates raw bytes, though, and the words equal the bytes only where the field boundaries of two inputs line up. An input whose fields realign with another's is equal in bytes but not in words. For the votes, blocks, complaints and CRS digests the properties compare, every such realignment needs a Keccak output (a position, payload, witness or share hash) to match bytes the forger chooses. That is a preimage, which the idealised Keccak rules out. The tag in front of each word says only which of the three shapes it has, so that TLC compares contents of one shape with each other. `HashBlock` hashes the proposer, the parent, `HashPosition`, the UTC timestamp, the payload hash and `hashWitness`. `HashVote` hashes the proposer, the block hash, the period, the position, the partial signature and the type.
- `Sign(p, hash)` is an ECDSA signature only `p` can make. `SigFrom` is `SigToPub` followed by the comparison with `ProposerID`. `BLSSign` is the node's share of the round's group key.
- The honest actions are `SignDKGPrivateShare`, `SignDKGComplaint`, `SignDKGMPKReady`, `SignDKGFinalize`, `SignDKGSuccess`, `SignDKGMasterPublicKey`, `SignDKGPartialSignature`, `SignVote`, `SignBlock` and `SignCRS`. `SignBlock` sets ProposerID and PayloadHash, then Hash, then the signature, as signer.go does. Its error returns are unreachable (`UTC().MarshalBinary` and `hashWitness` never fail), so it is one step. `SignCRS` has one disjunct per branch: the wrong proposer, before `dkgDelayRound`, no BLS signer, and the BLS signature.
- The Byzantine node's actions are the attacker: `ReplayAs` re-labels an honest message under another type, `KnownShares` and `ByzComplaint` build complaints from any share it has seen, and `ForgeCRS` sends any CRS signature it can compute. Votes and blocks are not sent as actions. `ForgeableVotes` and `ForgeableBlocks` are the sets of such messages the Byzantine node could build in the current state: any field values, in anyone's name, carrying a signature seen on the wire or one it signs itself. The invariants quantify over these sets.
- The master public key and partial signature messages are signed (`SignDKGMasterPublicKey`, `SignDKGPartialSignature`), and their signatures are on the wire for the forger to reuse. No property claims they are authentic, because the code's encoding lets a forger realign them. `hashDKGPartialSignature` hashes ProposerID ‖ LE64(Round) ‖ Hash ‖ the signature bytes, and an honest complaint's bytes ProposerID ‖ LE64(Round) ‖ LE64(Reset) ‖ hashDKGPrivateShare read the same as a partial signature. That partial signature has Hash = LE64(Reset) ‖ the first 24 bytes of the share hash, and signature bytes = its last 8. The honest complaint's signature verifies for it (`crypto.go` 261-271). The word model cannot express this, so it is a hazard in PROJECT.json without a property.
- `MaxSigned` bounds how many messages the honest nodes sign in one behaviour.

## Runs

| Run | Checks | Result |
|---|---|---|
| `NodeSetCache_safety.cfg` | TypeOK, KeysOfCachedRoundsAvailable. Two threads, all operations, rounds {0,1,6,7}, only round 0 ready at first | pass (166k states) |
| `NodeSetCache_update_recount.cfg` | RefCountExact, two threads, Touch and Exists | violation: a second update of a cached round counts its keys again. The shortest trace is a repeated Touch; with Exists alone it is two misses of one round |
| `NodeSetCache_sweep_newer.cfg` | SweepKeepsNewerRounds, no Purge | violation: the uint64 wrap evicts a newer round |
| `AgreementState_safety.cfg` | TypeOK, VoteSchedule, ReachesPullVote. 2 positions, 2 periods, one block hash | pass (353k states) |
| `NonBlocking_safety.cfg` | TypeOK, DeliveredInOrder, WaitDrains, EventuallyDelivered, WaitReturns. 2 submitters, 3 events, wait() callable repeatedly | pass |
| `Signer_safety.cfg` | TypeOK, ComplaintEvidenceAuthentic, CRSSignatureAuthentic, VoteSignatureAuthentic, BlockSignatureAuthentic. Nothing verifies as an honest node's complaint evidence, CRS signature, vote or block unless that node signed exactly it. Two honest nodes and one Byzantine node, rounds {0,1} with `dkgDelayRound = 1`, two honest nodes (one without a BLS signer), up to 2 honest signatures | pass |
| `Signer_dkg_replay.cfg` | DKGMessagesAuthentic | violation: a signed MPKReady verifies as a Finalize or Success |
| `DexCache_safety.cfg` | TypeOK, VoteAccounting, FinalizedNotShadowed. 3 positions, 2 vote keys, 3 block hashes on 2 positions, size 2, batches of up to 2 | pass |
| `BlockProposer_safety.cfg` | TypeOK, StopChOwned, NoDoubleClose, SyncingReported, ImplementsLifecycle, StopQuiesces, StopReturns. Two callers, two Starts, chain height up to 2 synced one block per batch, one forced synchronise | pass (157k states) |
| `BlockProposer_receive_after_stop.cfg` | ReceiveOffAfterStop | violation: the goroutine turns core messages back on after Stop turned them off, then leaves with an error and no exit |
| `Dexcon_safety.cfg` | TypeOK, DeadNodesDisqualified, RewardOnlyInRound. Two nodes and the empty coinbase, rounds 0-3, 7 blocks, RoundLength 2, DKGDelayRound 1, a DKG set of one node in round 2 | pass |
| `NonBlocking_submit_blocks.cfg` | SubmitNeverWaitsOnCallback | violation: a submit waits behind a callback while wait() holds the lock |

What the violations show (details are in `PROJECT.json` → findings):
- **NodeSetCache (all four runs):** the key pool's reference counts are exact only in the absence of three things:
  - a repeated Touch;
  - two readers missing the same round at once.
  
  The code also keeps fewer rounds than its comment says, and it evicts newer rounds when an older one is updated.
- **nonBlocking:** the decorator is not non-blocking while `wait()` runs.
- **blockProposer:** `SetReceiveCoreMessage(true)` at line 218 can run after Stop's `SetReceiveCoreMessage(false)` (line 101). In TLC's trace, Stop closes stopCh while the goroutine is still in syncConsensus's first loop. The goroutine then enters ListenLoop with a chain head event pending, and select picks that case over the closed stopCh, since Go picks uniformly among ready cases. It sets receive on at line 218, and `GetSyncedConsensus` (line 261) then fails. The goroutine returns without running the core or reaching os.Exit, and the node keeps taking core messages with no proposer.
- **Signer:** `hashDKGMPKReady`, `hashDKGFinalize` and `hashDKGSuccess` encode the same bytes, so each of the three messages can be replayed as another. The spec requires that no two structures share an encoding.

### Bounds

**NodeSetCache rounds {0,1,6,7}.** These rounds make every outcome of the sweep reachable:
- 0 and 1 are within the window.
- 6 sweeps 0.
- 7 sweeps 0 and 1.
- Updating 0 or 1 after 6 or 7 hits the wrap.

The node sets overlap, so the reference counts reach 2 and 3. `MaxRefCnt = 3` caps the counts that the double-counting paths can grow without bound. Two threads are enough for every interleaving of a miss with another update or a purge.

**Agreement.** Two positions cover a restart. Two periods cover a period jump followed by a second pass through PreCommit, Commit and Forward. One hash, plus the null and skip hashes, distinguishes the lock and leader choices. A second hash multiplies the state space by 4 without adding a new control path.

**nonBlocking.** Three events from two submitters let the queue hold two events while a third is in flight, and let a submit race with `wait()`.

**dex cache.** Three positions against a size of 2 make `addVote` evict a position, including the incoming vote's own. Two keys per position let a position hold two votes, so an eviction removes more than one. Two hashes at p1 and one at p2, against a size of 2, make both block maps full and let two blocks compete for one position. A batch of two blocks lets one `addBlocks` call evict and then insert.

**blockProposer.** Two callers let a Stop race a Start and another Stop; the exit goroutine is a third Stop. Two Starts are a restart after the first run ended, the case where a stale stopCh or a stale `running` would show. Height 2 with batches of 1 makes syncConsensus loop and its inner loop run more than one batch. One forced synchronise exercises the timeout case.

**Dexcon.** Seven blocks over rounds 0-3 with RoundLength 2 reach extended rounds, empty blocks, rounds with and without a proposer from the previous DKG set, and three dead-node checks (rounds 2 and 3, after DKGDelayRound 1). The year is scaled to 1000 ms (TLC's integers are 32-bit); with 1000 staked, velocity 3/16 and interval 1000 the reward is 187, so the halving checkpoints 400, 800, ... are crossed.

**Signer.** Rounds 0 and 1 with `dkgDelayRound = 1` put one round on each side of the CRS gate. The second honest node has no BLS signer and no key share after round 0, so `SignCRS` reaches its `ErrNoBLSSigner` branch. `MaxSigned = 2` is enough for every attack, because each one needs one or two honest messages: a share and the complaint that embeds it, a message to replay, or a CRS signature to reuse on another block. One Byzantine node is enough, because every attack is by one node against another. Two vote types, two payloads, one block hash, one period, one partial signature, one timestamp and one witness are enough to relabel a vote's type or swap a block's payload. Each of these is one field of one signed message.

### Fairness

- **Agreement:** weak fairness on `Tick` and on the state steps. The driver's ticker fires periodically, and the driver calls `nextState` whenever the clocks have elapsed. No fairness is assumed for the environment. A restart or a period jump may never come.
- **nonBlocking:** strong fairness on the steps that take the mutex, because Go's `sync.Mutex` starvation mode hands the lock to a goroutine that keeps asking for it. Weak fairness applies to the worker's other steps and to `WaitReturn`. Nothing obliges anyone to submit or to call `wait()`.
- **blockProposer:** weak fairness on every step of the proposer goroutine and on Stop's return from wg.Wait (the Go scheduler runs every runnable goroutine); strong fairness on ListenLoop's stopCh case, because select picks uniformly among ready cases and a closed channel stays ready. Nothing obliges a caller to Start or Stop, the chain to grow or the cat to meow (`ListenMeow` has no fairness). `ProposerLifecycle` assumes weak fairness only for a run that was asked to stop to end.
- **Deadlock checking:**
  - It is off for the agreement run. After the last restart that the bound allows, a BA in Sleep waits for a restart that never comes.
  - It is off for nonBlocking, where an idle worker parked on an empty queue is a state the program may stay in.
  - It is off for blockProposer, where os.Exit(1) ends the process, and for Dexcon, which stops at the block bound.
  
  A thread stuck for any other reason is caught there by the liveness properties.

## Plan

1. Done: NodeSetCache, AgreementState, NonBlocking, DexCache, Signer, BlockProposer (with its ProposerLifecycle refinement) and Dexcon, with the runs above.
2. Refinements: NodeSetCache against an abstract window cache; AgreementState against an abstract ballot schedule per (position, period).

## Not modelled

These parts are left out, and why:
- **BLS and ECDSA arithmetic, and the Keccak hash:** abstracted, or out of TLC's reach.
- **Byte-level realignment of hashed inputs:** the Signer model writes fields as words, so it cannot show one message's bytes read as another's fields. This leaves the authenticity of master public keys and partial signatures unchecked (see the Signer section).
- **`Rehash` (`crypto.go` 369-376):** nothing under src calls it.
- **Dexcon's big.Float rounding:** calculateBlockReward is modelled in integer arithmetic at a reduced scale; the 64-bit mantissa rounding of the product, which can move the reward by one at real stake sizes, is beyond TLC's 32-bit integers. The test in `api_backend.go` checks the unscaled value.
- **RLP and JSON encoding:** conversions with no control.
- **DexAPIBackend:** RPC pass-throughs to the blockchain and the pool, plus the Dexcon test fixture.
- **dex config:** default constants; the values the models use are their CONSTANTS.
- **zoo monkey feeder:** load tooling. Its only state is a nonce counter per loop and a timer; the RPC client it drives is not under src.
- **MemBackedDB (`core/nonblocking.go` 138-399):** the consensus core's in-memory test database, not used by the node. Nothing under src constructs it, and its one caller, the consensus core, is not under src, so it has no modelled component to run against. Its one concurrency hazard is listed in PROJECT.json without a property. PutBlock checks HasBlock under the read lock and appends under a separate write lock, so two concurrent puts of one block both append its hash. UpdateBlock's check cannot go stale, because nothing ever deletes a block.
- **synchronise (ListenForceSync):** ProtocolManager.synchronise is not under src; the model only counts the goroutines the timeout spawns.
- **The test fixtures in `part_002`:** test code, not the system.
- **Dexcon.VerifyHeaders (`dexcon.go` 71-79):** its goroutine sends each result on the unbuffered `results` channel and never selects on `abort`. A caller that aborts without draining the channel therefore leaves the goroutine blocked. This is a goroutine-lifetime question with no effect on the reward and disqualification state the Dexcon model checks, so it is left to a review of the callers. Those callers are not under src. PROJECT.json lists it as a hazard without a property.
- **The agreement driver (`agreement.go`):** not in this repository's src. It appears only through the environment actions of AgreementState.
