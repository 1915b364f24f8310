---------------------------- MODULE BlockProposer ----------------------------
(***************************************************************************)
(* The block proposer of package dex (src/dex/blockproposer.go) together   *)
(* with the core compaction chain tip it resumes from                      *)
(* (src/core/rawdb/accessors_core_chain_tip.go).                           *)
(*                                                                         *)
(* Start, under b.mu, swaps running from 0 to 1, makes a new stopCh and    *)
(* launches the proposer goroutine.  The goroutine either starts a fresh   *)
(* consensus core (dMoment still ahead) or runs syncConsensus: it syncs    *)
(* the compaction chain in batches, then listens for chain heads, the      *)
(* stop channel, the force-sync timeout and the watch cat until the core   *)
(* is synced.  It then runs the core, waits for stopCh, and spawns a       *)
(* goroutine that calls svc.Stop() and os.Exit(1).  Its deferred calls     *)
(* store running = 0 and then call wg.Done.  Stop, under b.mu, closes      *)
(* stopCh when running is 1, waits on the WaitGroup and clears proposing.  *)
(*                                                                         *)
(* Every shared access is one step: the atomics, the channel operations   *)
(* and the locked sections.  Generation i is the i-th successful Start:    *)
(* its goroutine, the channel it made, and its exit goroutine.  A channel  *)
(* is its generation number, NoCh the nil channel before the first Start.  *)
(* Heights are small integers; BatchSize stands for the 2048 of           *)
(* blocksToSync.                                                           *)
(***************************************************************************)
EXTENDS Integers, FiniteSets, TLC

CONSTANTS
    Callers,        \* goroutines that call Start and Stop (the node service)
    MaxStarts,      \* bound on successful Start calls
    MaxHeight,      \* bound on the blockchain height
    BatchSize,      \* the most blocks blocksToSync returns (2048 in the code)
    MaxForceSyncs   \* bound on the synchronise goroutines the timeout spawns

ASSUME /\ MaxStarts \in Nat \ {0}
       /\ MaxHeight \in Nat
       /\ BatchSize \in Nat \ {0}
       /\ MaxForceSyncs \in Nat

Gens   == 1..MaxStarts
NoCh   == 0
NoTip  == -1     \* no compaction chain tip stored
NoEv   == -1     \* no chain head event waiting on the subscription
Nobody == 0      \* b.mu free (users are callers and generations 1..)

\* Who calls Stop: the callers, and generation i's exit goroutine (svc.Stop).
Users == Callers \cup Gens

VARIABLES
    running, syncing, proposing,   \* b.running, b.syncing, b.proposing
    receiveCore,   \* protocolManager's receive-core-message switch
    mu,            \* holder of b.mu across Stop's wg.Wait, or Nobody
    wg,            \* b.wg's counter
    stopCh,        \* b.stopCh
    closed,        \* the channels closed so far
    panicked,      \* a close of a closed channel happened
    gen,           \* successful Starts so far
    g,             \* per generation: its goroutine's pc and locals
    cpc,           \* per user: where its Start/Stop call is
    head,          \* blockchain.CurrentBlock().NumberU64()
    tip,           \* height of the stored core compaction chain tip, or NoTip
    chainEv,       \* the chain head event waiting on the subscription, or NoEv
    chainStopped,  \* the blockchain has stopped: sub.Err() is ready
    dMomentPassed, \* !b.dMoment.After(time.Now())
    forceSyncs,    \* synchronise goroutines spawned by the timeout
    exited,        \* os.Exit(1) has run
    stopped        \* a Stop that closed stopCh has returned, no Start since

vars == <<running, syncing, proposing, receiveCore, mu, wg, stopCh, closed,
          panicked, gen, g, cpc, head, tip, chainEv, chainStopped,
          dMomentPassed, forceSyncs, exited, stopped>>

Min2(a, b) == IF a < b THEN a ELSE b

-----------------------------------------------------------------------------
(* The compaction chain tip.                                               *)

\* ReadCoreCompactionChainTip: the stored height; a missing key or an RLP
\* decode failure yields height 0.
ReadCoreCompactionChainTip == IF tip = NoTip THEN 0 ELSE tip

\* WriteCoreCompactionChainTip(db, hash, height): the encoded tip replaces
\* the stored one (a failed Put is log.Crit, which exits).
WriteCoreCompactionChainTip(height) == tip' = height

\* blocksToSync(coreHeight, height): how many blocks it returns.
BlocksToSync(coreHeight, height) ==
    IF coreHeight < height THEN Min2(BatchSize, height - coreHeight) ELSE 0

\* The subscription lives from SubscribeChainHeadEvent until syncConsensus
\* returns.
Subscribed == \E i \in Gens : g[i].pc \in {"listen", "inner", "synced"}

\* IsCoreSyncing and IsProposing: atomic loads of b.syncing and b.proposing.
IsCoreSyncing == syncing = 1
IsProposing == proposing = 1

\* A proposer goroutine is inside syncConsensus, after its syncing = 1.
InSyncConsensus ==
    \E i \in Gens : g[i].pc \in {"loop", "listen", "inner", "synced"}

\* b.stopCh read by goroutine i.
ReadStopCh(i) == [g EXCEPT ![i].reads = @ \cup {stopCh}]

\* Mutant of SyncFails: the store of syncing = 0 is not deferred, so an
\* error return leaves it set.
SyncFailsKeepsSyncing(i, gi) ==
    /\ g' = [gi EXCEPT ![i].pc = "deferRunning"]
    /\ UNCHANGED syncing
    /\ chainEv' = NoEv

\* syncConsensus returns an error: its deferred syncing = 0 and
\* sub.Unsubscribe (a waiting event is dropped), and the goroutine's
\* `if err != nil { return }` on to its deferred calls.  gi is g with the
\* step's reads.
SyncFails(i, gi) ==
    /\ g' = [gi EXCEPT ![i].pc = "deferRunning"]
    /\ syncing' = 0
    /\ chainEv' = NoEv

\* What a step of the proposer goroutine leaves alone, besides its own.
ctl == <<running, proposing, mu, wg, stopCh, closed, panicked, gen, cpc,
         stopped>>
env == <<head, tip, chainStopped, dMomentPassed, forceSyncs, exited>>

-----------------------------------------------------------------------------
(* Start and Stop.                                                         *)

Init ==
    /\ running = 0 /\ syncing = 0 /\ proposing = 0
    /\ receiveCore = FALSE
    /\ mu = Nobody
    /\ wg = 0
    /\ stopCh = NoCh
    /\ closed = {}
    /\ panicked = FALSE
    /\ gen = 0
    /\ g = [i \in Gens |-> [pc |-> "none", core |-> 0, evH |-> 0, reads |-> {}]]
    /\ cpc = [u \in Users |-> IF u \in Callers THEN "idle" ELSE "none"]
    /\ head \in 0..MaxHeight
    /\ tip \in {NoTip} \cup 0..head
    /\ chainEv = NoEv
    /\ chainStopped = FALSE
    /\ dMomentPassed \in BOOLEAN
    /\ forceSyncs = 0
    /\ exited = FALSE
    /\ stopped = FALSE

\* Mutant of Start: running is stored rather than compared and swapped.
StartNoCAS(c) ==
    /\ ~exited
    /\ cpc[c] = "idle"
    /\ mu = Nobody
    /\ gen < MaxStarts
    /\ running' = 1
    /\ gen' = gen + 1
    /\ stopCh' = gen + 1
    /\ wg' = wg + 1
    /\ g' = [g EXCEPT ![gen + 1].pc = "start"]
    /\ stopped' = FALSE
    /\ UNCHANGED <<syncing, proposing, receiveCore, mu, closed, panicked, cpc,
                   head, tip, chainEv, chainStopped, dMomentPassed, forceSyncs,
                   exited>>

\* Start(svc), when the CompareAndSwap of running from 0 to 1 succeeds:
\* a new stopCh, wg.Add(1), and the goroutine.  (When it fails Start
\* returns an error and changes nothing.)
Start(c) ==
    /\ ~exited
    /\ cpc[c] = "idle"
    /\ mu = Nobody
    /\ running = 0
    /\ gen < MaxStarts
    /\ running' = 1
    /\ gen' = gen + 1
    /\ stopCh' = gen + 1
    /\ wg' = wg + 1
    /\ g' = [g EXCEPT ![gen + 1].pc = "start"]
    /\ stopped' = FALSE
    /\ UNCHANGED <<syncing, proposing, receiveCore, mu, closed, panicked, cpc,
                   head, tip, chainEv, chainStopped, dMomentPassed, forceSyncs,
                   exited>>

\* Who may call Stop now: an idle caller, or an exit goroutine at svc.Stop().
CanStop(u) == cpc[u] = IF u \in Callers THEN "idle" ELSE "svcStop"

\* Where a user goes when Stop returns.
AfterStop(u) == IF u \in Callers THEN "idle" ELSE "svcExit"

\* Stop with running = 1: take b.mu, SetReceiveCoreMessage(false),
\* close(b.stopCh) (which panics on a closed channel), then block in
\* wg.Wait holding b.mu.
StopClose(u) ==
    /\ ~exited
    /\ CanStop(u)
    /\ mu = Nobody
    /\ running = 1
    /\ receiveCore' = FALSE
    /\ IF stopCh \in closed
         THEN panicked' = TRUE /\ UNCHANGED closed
         ELSE closed' = closed \cup {stopCh} /\ UNCHANGED panicked
    /\ mu' = u
    /\ cpc' = [cpc EXCEPT ![u] = "wait"]
    /\ UNCHANGED <<running, syncing, proposing, wg, stopCh, gen, g, head, tip,
                   chainEv, chainStopped, dMomentPassed, forceSyncs, exited,
                   stopped>>

\* Stop with running = 0: take and release b.mu, return.
StopIdle(u) ==
    /\ ~exited
    /\ CanStop(u)
    /\ mu = Nobody
    /\ running = 0
    /\ cpc' = [cpc EXCEPT ![u] = AfterStop(u)]
    /\ UNCHANGED <<running, syncing, proposing, receiveCore, mu, wg, stopCh,
                   closed, panicked, gen, g, head, tip, chainEv, chainStopped,
                   dMomentPassed, forceSyncs, exited, stopped>>

\* Mutant of StopFinish: Stop returns without wg.Wait.
StopFinishNoWait(u) ==
    /\ ~exited
    /\ cpc[u] = "wait"
    /\ proposing' = 0
    /\ mu' = Nobody
    /\ cpc' = [cpc EXCEPT ![u] = AfterStop(u)]
    /\ stopped' = TRUE
    /\ UNCHANGED <<running, syncing, receiveCore, wg, stopCh, closed, panicked,
                   gen, g, head, tip, chainEv, chainStopped, dMomentPassed,
                   forceSyncs, exited>>

\* Mutant of StopFinish: proposing is not cleared.
StopFinishKeepsProposing(u) ==
    /\ ~exited
    /\ cpc[u] = "wait"
    /\ wg = 0
    /\ mu' = Nobody
    /\ cpc' = [cpc EXCEPT ![u] = AfterStop(u)]
    /\ stopped' = TRUE
    /\ UNCHANGED <<running, syncing, proposing, receiveCore, wg, stopCh, closed,
                   panicked, gen, g, head, tip, chainEv, chainStopped,
                   dMomentPassed, forceSyncs, exited>>

\* Stop, after wg.Wait returns: proposing = 0, release b.mu, return.
StopFinish(u) ==
    /\ ~exited
    /\ cpc[u] = "wait"
    /\ wg = 0
    /\ proposing' = 0
    /\ mu' = Nobody
    /\ cpc' = [cpc EXCEPT ![u] = AfterStop(u)]
    /\ stopped' = TRUE
    /\ UNCHANGED <<running, syncing, receiveCore, wg, stopCh, closed, panicked,
                   gen, g, head, tip, chainEv, chainStopped, dMomentPassed,
                   forceSyncs, exited>>

\* The exit goroutine, once svc.Stop() has returned: os.Exit(1).
Exit(i) ==
    /\ ~exited
    /\ cpc[i] = "svcExit"
    /\ exited' = TRUE
    /\ UNCHANGED <<running, syncing, proposing, receiveCore, mu, wg, stopCh,
                   closed, panicked, gen, g, cpc, head, tip, chainEv,
                   chainStopped, dMomentPassed, forceSyncs, stopped>>

-----------------------------------------------------------------------------
(* The proposer goroutine of generation i.                                 *)

\* dMoment is still ahead: SetReceiveCoreMessage(true) and initConsensus.
InitConsensus(i) ==
    /\ ~exited
    /\ g[i].pc = "start"
    /\ ~dMomentPassed
    /\ receiveCore' = TRUE
    /\ g' = [g EXCEPT ![i].pc = "run"]
    /\ UNCHANGED <<syncing, chainEv, ctl, env>>

\* syncConsensus: syncing = 1; coreHeight from the stored compaction chain
\* tip (db.GetCompactionChainTipInfo).
SyncConsensus(i) ==
    /\ ~exited
    /\ g[i].pc = "start"
    /\ dMomentPassed
    /\ syncing' = 1
    /\ g' = [g EXCEPT ![i].pc = "loop", ![i].core = ReadCoreCompactionChainTip]
    /\ UNCHANGED <<receiveCore, chainEv, ctl, env>>

\* Loop: a batch up to the chain head goes to SyncBlocks(blocks, false),
\* then `select { case <-b.stopCh: early stop; default: }`.
SyncLoopBatch(i) ==
    LET n  == BlocksToSync(g[i].core, head)
        gi == [ReadStopCh(i) EXCEPT ![i].core = @ + n]
    IN  /\ ~exited
        /\ g[i].pc = "loop"
        /\ n > 0
        /\ \/ /\ stopCh \notin closed
              /\ g' = gi
              /\ UNCHANGED <<syncing, chainEv>>
           \/ stopCh \in closed /\ SyncFails(i, gi)
           \/ SyncFails(i, g)          \* SyncBlocks returns an error
        /\ UNCHANGED <<receiveCore, ctl, env>>

\* Loop with no block to sync: break; start and feed the watch cat,
\* subscribe to chain head events.
SyncLoopDone(i) ==
    /\ ~exited
    /\ g[i].pc = "loop"
    /\ BlocksToSync(g[i].core, head) = 0
    /\ g' = [g EXCEPT ![i].pc = "listen"]
    /\ UNCHANGED <<syncing, receiveCore, chainEv, ctl, env>>

\* ListenLoop, case ev := <-ch.
ListenChainHead(i) ==
    /\ ~exited
    /\ g[i].pc = "listen"
    /\ chainEv # NoEv
    /\ g' = [g EXCEPT ![i].pc = "inner", ![i].evH = chainEv]
    /\ chainEv' = NoEv
    /\ UNCHANGED <<syncing, receiveCore, ctl, env>>

\* ListenLoop, case <-sub.Err(): "system stop".
ListenSystemStop(i) ==
    /\ ~exited
    /\ g[i].pc = "listen"
    /\ chainStopped
    /\ SyncFails(i, g)
    /\ UNCHANGED <<receiveCore, ctl, env>>

\* Mutant of ListenEarlyStop: the case logs and falls back into the loop
\* instead of returning.
ListenEarlyStopNoReturn(i) ==
    /\ ~exited
    /\ g[i].pc = "listen"
    /\ stopCh \in closed
    /\ g' = ReadStopCh(i)
    /\ UNCHANGED <<syncing, chainEv, receiveCore, ctl, env>>

\* ListenLoop, case <-b.stopCh: "early stop".
ListenEarlyStop(i) ==
    /\ ~exited
    /\ g[i].pc = "listen"
    /\ stopCh \in closed
    /\ SyncFails(i, ReadStopCh(i))
    /\ UNCHANGED <<receiveCore, ctl, env>>

\* ListenLoop, case <-time.After(forceSyncTimeout) with a best peer:
\* `go synchronise(p, true)`.  (Without a peer the case changes nothing.)
ListenForceSync(i) ==
    /\ ~exited
    /\ g[i].pc = "listen"
    /\ forceSyncs < MaxForceSyncs
    /\ forceSyncs' = forceSyncs + 1
    /\ UNCHANGED <<syncing, receiveCore, g, chainEv, ctl, head, tip,
                   chainStopped, dMomentPassed, exited>>

\* ListenLoop, case <-b.watchCat.Meow(): SetReceiveCoreMessage(true),
\* ForceSync, break ListenLoop.  The cat meows only after 120 s without a
\* Feed (watchCat started at line 181), and the goroutine is blocked in
\* this select meanwhile: any other ready case (a chain head event,
\* sub.Err(), a closed stopCh) is taken long before.  So the case is
\* taken only when it is the one ready.
ListenMeow(i) ==
    /\ ~exited
    /\ g[i].pc = "listen"
    /\ stopCh \notin closed /\ chainEv = NoEv /\ ~chainStopped
    /\ receiveCore' = TRUE
    /\ g' = [g EXCEPT ![i].pc = "synced"]
    /\ UNCHANGED <<syncing, chainEv, ctl, env>>

\* The loop inside the chain head case, one batch: SyncBlocks(blocks, true)
\* fails, or SetReceiveCoreMessage(true) and then break ListenLoop when
\* synced, else carry on from the batch's last height.
ListenSyncBatch(i) ==
    LET n == BlocksToSync(g[i].core, g[i].evH)
    IN  /\ ~exited
        /\ g[i].pc = "inner"
        /\ n > 0
        /\ \/ SyncFails(i, g) /\ UNCHANGED receiveCore
           \/ /\ receiveCore' = TRUE
              /\ \/ g' = [g EXCEPT ![i].pc = "synced"]
                 \/ g' = [g EXCEPT ![i].core = @ + n]
              /\ UNCHANGED <<syncing, chainEv>>
        /\ UNCHANGED <<ctl, env>>

\* The inner loop finds no block up to the event's height: back to select.
ListenSyncDone(i) ==
    /\ ~exited
    /\ g[i].pc = "inner"
    /\ BlocksToSync(g[i].core, g[i].evH) = 0
    /\ g' = [g EXCEPT ![i].pc = "listen"]
    /\ UNCHANGED <<syncing, receiveCore, chainEv, ctl, env>>

\* After ListenLoop: GetSyncedConsensus, sleep until nextDMoment, return
\* (deferred syncing = 0, Unsubscribe); an error ends the goroutine.
SyncedReturn(i) ==
    /\ ~exited
    /\ g[i].pc = "synced"
    /\ \/ SyncFails(i, g)
       \/ /\ g' = [g EXCEPT ![i].pc = "run"]
          /\ syncing' = 0
          /\ chainEv' = NoEv
    /\ UNCHANGED <<receiveCore, ctl, env>>

\* `go c.Run(b.stopCh)`, proposing = 1, then block on `<-b.stopCh`.
RunCore(i) ==
    /\ ~exited
    /\ g[i].pc = "run"
    /\ g' = [ReadStopCh(i) EXCEPT ![i].pc = "waitStop"]
    /\ proposing' = 1
    /\ UNCHANGED <<syncing, receiveCore, running, mu, wg, stopCh, closed,
                   panicked, gen, cpc, stopped, chainEv, env>>

\* `<-b.stopCh` returns: spawn the goroutine running svc.Stop(); os.Exit(1).
StopReceived(i) ==
    /\ ~exited
    /\ g[i].pc = "waitStop"
    /\ stopCh \in closed
    /\ g' = [ReadStopCh(i) EXCEPT ![i].pc = "deferRunning"]
    /\ cpc' = [cpc EXCEPT ![i] = "svcStop"]
    /\ UNCHANGED <<syncing, receiveCore, running, proposing, mu, wg, stopCh,
                   closed, panicked, gen, stopped, chainEv, env>>

\* Mutant of DeferRunning: the deferred store of running = 0 is missing.
DeferRunningMissing(i) ==
    /\ ~exited
    /\ g[i].pc = "deferRunning"
    /\ g' = [g EXCEPT ![i].pc = "deferDone"]
    /\ UNCHANGED <<syncing, receiveCore, running, proposing, mu, wg, stopCh,
                   closed, panicked, gen, cpc, stopped, chainEv, env>>

\* The first deferred call: atomic.StoreInt32(&b.running, 0).
DeferRunning(i) ==
    /\ ~exited
    /\ g[i].pc = "deferRunning"
    /\ running' = 0
    /\ g' = [g EXCEPT ![i].pc = "deferDone"]
    /\ UNCHANGED <<syncing, receiveCore, proposing, mu, wg, stopCh, closed,
                   panicked, gen, cpc, stopped, chainEv, env>>

\* Mutant of DeferDone: wg.Done is called twice (an explicit call besides
\* the deferred one).
DeferDoneTwice(i) ==
    /\ ~exited
    /\ g[i].pc = "deferDone"
    /\ wg' = wg - 2
    /\ g' = [g EXCEPT ![i].pc = "done"]
    /\ UNCHANGED <<syncing, receiveCore, running, proposing, mu, stopCh, closed,
                   panicked, gen, cpc, stopped, chainEv, env>>

\* Mutant of DeferDone: the goroutine ends without wg.Done.
DeferDoneMissing(i) ==
    /\ ~exited
    /\ g[i].pc = "deferDone"
    /\ g' = [g EXCEPT ![i].pc = "done"]
    /\ UNCHANGED <<syncing, receiveCore, running, proposing, mu, wg, stopCh,
                   closed, panicked, gen, cpc, stopped, chainEv, env>>

\* The second deferred call: b.wg.Done().
DeferDone(i) ==
    /\ ~exited
    /\ g[i].pc = "deferDone"
    /\ wg' = wg - 1
    /\ g' = [g EXCEPT ![i].pc = "done"]
    /\ UNCHANGED <<syncing, receiveCore, running, proposing, mu, stopCh, closed,
                   panicked, gen, cpc, stopped, chainEv, env>>

-----------------------------------------------------------------------------
(* The environment.                                                        *)

\* The running consensus core delivers the next block: the compaction
\* chain tip is written and the block joins the chain.  c.Run(ch) stops
\* once its channel ch is closed.
CoreDeliver(i) ==
    /\ ~exited
    /\ g[i].pc = "waitStop"
    /\ i \notin closed
    /\ ~chainStopped
    /\ head < MaxHeight
    /\ head' = head + 1
    /\ WriteCoreCompactionChainTip(head + 1)
    /\ UNCHANGED <<syncing, receiveCore, g, chainEv, ctl, chainStopped,
                   dMomentPassed, forceSyncs, exited>>

\* A block from the network joins the chain; the chain head feed blocks
\* until the subscriber, if any, has taken the previous event.
ChainGrow ==
    /\ ~exited
    /\ ~chainStopped
    /\ head < MaxHeight
    /\ Subscribed => chainEv = NoEv
    /\ head' = head + 1
    /\ chainEv' = IF Subscribed THEN head + 1 ELSE NoEv
    /\ UNCHANGED <<syncing, receiveCore, g, ctl, tip, chainStopped,
                   dMomentPassed, forceSyncs, exited>>

\* The blockchain stops: sub.Err() becomes ready.
ChainStop ==
    /\ ~exited
    /\ ~chainStopped
    /\ chainStopped' = TRUE
    /\ UNCHANGED <<syncing, receiveCore, g, chainEv, ctl, head, tip,
                   dMomentPassed, forceSyncs, exited>>

\* time.Now() passes b.dMoment.
DMomentPasses ==
    /\ ~exited
    /\ ~dMomentPassed
    /\ dMomentPassed' = TRUE
    /\ UNCHANGED <<syncing, receiveCore, g, chainEv, ctl, head, tip,
                   chainStopped, forceSyncs, exited>>

-----------------------------------------------------------------------------

\* The goroutine's steps that do not depend on which select case is taken.
GoroutineStep(i) ==
    \/ InitConsensus(i) \/ SyncConsensus(i)
    \/ SyncLoopBatch(i) \/ SyncLoopDone(i)
    \/ ListenSyncBatch(i) \/ ListenSyncDone(i) \/ SyncedReturn(i)
    \/ RunCore(i) \/ StopReceived(i) \/ DeferRunning(i) \/ DeferDone(i)

\* The other cases of ListenLoop's select.
ListenCase(i) ==
    \/ ListenChainHead(i) \/ ListenSystemStop(i) \/ ListenEarlyStop(i)
    \/ ListenForceSync(i) \/ ListenMeow(i)

\* Every action is guarded by ~exited: nothing runs after os.Exit(1).
Next ==
    \/ \E c \in Callers : Start(c)
    \/ \E u \in Users : StopClose(u) \/ StopIdle(u) \/ StopFinish(u)
    \/ \E i \in Gens : GoroutineStep(i) \/ ListenCase(i) \/ Exit(i)
    \/ \E i \in Gens : CoreDeliver(i)
    \/ ChainGrow \/ ChainStop \/ DMomentPasses

\* The Go scheduler runs every runnable goroutine: weak fairness for the
\* goroutine's steps and for Stop's return from wg.Wait.  select picks
\* uniformly among the ready cases, so a closed stopCh that stays ready is
\* eventually picked: strong fairness for that case.
Fairness ==
    /\ \A i \in Gens : WF_vars(GoroutineStep(i))
    /\ \A i \in Gens : SF_vars(ListenEarlyStop(i))
    /\ \A u \in Users : WF_vars(StopFinish(u))

Spec == Init /\ [][Next]_vars /\ Fairness

-----------------------------------------------------------------------------
(* Properties.                                                             *)

Pcs == {"none", "start", "loop", "listen", "inner", "synced", "run",
        "waitStop", "deferRunning", "deferDone", "done"}

TypeOK ==
    /\ running \in {0, 1} /\ syncing \in {0, 1} /\ proposing \in {0, 1}
    /\ receiveCore \in BOOLEAN
    /\ mu \in Users \cup {Nobody}
    /\ wg \in 0..MaxStarts
    /\ stopCh \in {NoCh} \cup Gens
    /\ closed \subseteq Gens
    /\ gen \in 0..MaxStarts
    /\ g \in [Gens -> [pc : Pcs, core : 0..MaxHeight, evH : 0..MaxHeight,
                       reads : SUBSET ({NoCh} \cup Gens)]]
    /\ cpc \in [Users -> {"none", "idle", "wait", "svcStop", "svcExit"}]
    /\ head \in 0..MaxHeight
    /\ tip \in {NoTip} \cup 0..MaxHeight
    /\ chainEv \in {NoEv} \cup 0..MaxHeight
    /\ forceSyncs \in 0..MaxForceSyncs

\* Start's CompareAndSwap on running keeps b.stopCh from being replaced
\* while a goroutine still reads the field (lines 80 and 83, and the two
\* selects of syncConsensus): every read by the goroutine of generation i
\* yields the channel Start made for it.
StopChOwned ==
    \A i \in Gens : g[i].reads \subseteq {i}

\* Stop closes b.stopCh only when running is 1, and the goroutine clears
\* running before wg.Done while Stop holds b.mu until wg.Wait returns: no
\* Stop, by a caller or by the exit goroutine's svc.Stop(), closes a closed
\* channel.
NoDoubleClose == ~panicked

\* When a Stop that closed stopCh returns, every proposer goroutine has
\* finished and IsProposing() reports false.
StopQuiesces ==
    [][\A u \in Users :
          (cpc[u] = "wait" /\ cpc'[u] # "wait") =>
              /\ proposing' = 0
              /\ \A i \in 1..gen : g'[i].pc = "done"]_vars

\* A Stop blocked in wg.Wait returns (or the process has exited): the
\* goroutine reaches stopCh from every place it can be.
StopReturns ==
    \A u \in Users : cpc[u] = "wait" ~> (cpc[u] # "wait" \/ exited)

\* Stop calls SetReceiveCoreMessage(false): once a Stop has returned, with
\* no Start since and no exit goroutine pending, the protocol manager no
\* longer takes core messages.
ReceiveOffAfterStop ==
    (stopped /\ \A i \in Gens : cpc[i] \notin {"svcStop", "svcExit"})
        => ~receiveCore

\* syncConsensus stores syncing = 1 first and defers the store of 0, so
\* IsCoreSyncing() reports true exactly while a proposer goroutine is
\* inside syncConsensus: on every return (early stop, system stop, a
\* SyncBlocks or GetSyncedConsensus error, success) the flag is cleared
\* before the goroutine runs the core or exits, across generations.
SyncingReported == IsCoreSyncing <=> InSyncConsensus

-----------------------------------------------------------------------------
(* Refinement.  The lifecycle the proposer promises (ProposerLifecycle):   *)
(* a run is live while running is 1, it has been asked to stop once its    *)
(* stopCh is closed, and proposing and exited are the flags themselves.    *)

Lifecycle == INSTANCE ProposerLifecycle
                 WITH on        <- running = 1,
                      stopReq   <- stopCh \in closed,
                      proposing <- IsProposing,
                      exited    <- exited

\* Start, Stop and the goroutine's deferred calls implement the lifecycle:
\* Start's CompareAndSwap starts a run only when none is live, Stop closes
\* the stopCh of a live run at most once, proposing is set only while
\* running and cleared by Stop only after wg.Wait, and a run whose stopCh
\* is closed reaches its deferred store of running = 0 unless the process
\* exits first.
ImplementsLifecycle == Lifecycle!LSpec

====
