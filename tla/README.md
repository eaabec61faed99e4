# A formal model of A-Identity

This directory holds TLA+ specifications of the server in `src/mcp` and of the
vault contracts it pays from (Solidity, Soroban, Algorand), the TLC
configurations that check them on small instances, and proofs that TLAPS checks
for every value of the constants. `PROJECT.json` indexes all of it: which lines
of the source each definition models (`map`), what each run checks (`runs`), the
change to the code's model that breaks each property (`mutants`), what can go
wrong in this code (`hazards`) and a place where the code and its own comments
disagree (`findings`).

## 1. The system

A-Identity gives an AI agent an identity (ERC-8004 style, with human
verification), a spending policy and rails to pay with. It is one Node process
over one JSON document, plus contracts on several chains.

| Component | State | Operations | Hard behaviour | Correct when |
|---|---|---|---|---|
| Settlement of instructions (`platform/instructions.ts`, `platform/core.ts`) | `state.instructions`, `agent.spentTodayUsd`, `executingIx` | create, approve, reject, execute over four rails | lost receipts, retries, restarts, falling from one rail to the next, midnight | an instruction is paid at most once, its record says what happened, the daily cap holds |
| Document storage (`storage.ts`) | pending document, chain of writes, settlement logs | save, flush, durable flush, settle, redeem, mark served | debounced and failed writes | what was sent is in storage before it is sent |
| EVM send queue (`chains/evm/send.ts`) | per-signer promise chain, nonce floors | prepare, sign, note, send | concurrent callers, hosts that lag, waits that run out | one at a time, no nonce used twice, no gap |
| EVM receipts (`chains/evm/receipts.ts`) | none | look at every host | partial answers | "dropped" only when it can never land |
| Vault contracts (`mcp/contracts/AgentSpendPolicy.sol`, `soroban/`, `algorand/`) | policy, spent per day | pay, ownerPay, setters, withdraw | day boundaries, integer limits, revocation, entries whose lifetime runs out | the key moves at most the cap a day, and nothing once revoked |
| Vault mirroring (`platform/vault.ts`) | `vaultMirroredPayees`, the vault's own policy | edit permissions, mirror to chain | two edits at once, writes whose answer is lost | the chain never allows a payee nobody remembers; a mirror that ended left the vault as the policy it copied |
| x402 facilitators (`x402-3009`, `x402-stellar`, `x402-algorand`, `x402-gateway`) | settlement rows, in-flight keys, spent keys | verify, settle, redeem, serve, reconcile | two requests with one authorization, lost answers, restarts | one broadcast, one call served per payment, nobody who paid is asked again |
| Marketplace tasks and escrow (`platform/tasks.ts`) | task status, escrow id | post, fund, deliver, release, dispute | chain calls between check and transition | one outcome per task, and it is the escrow's |
| Agents, KYA (`platform/agents.ts`, `kya.ts`) | agents, challenges, proofs | register, challenge, verify, claim, revoke | replay, expiry, claim races | a proof counts once and for its subject |
| Policy engine v2, rate budgets (`policy/`, `rate-budget.ts`) | meters, counters | evaluate, consume | window borders | never more than the limit in a window |
| Verify then pay (`verify-then-pay/`) | none of its own | verify, prepare, pay | partial failure | no payment without a verdict |
| HTTP, MCP, web, SDK | sessions | routing | none that is not in the parts above | |

How they interact: an HTTP or MCP call reaches `instructions.ts`, which asks
the policy (`core.ts`), pays through a vault (`vault.ts`), Circle
(`circle-agent.ts`) or the server's own signer (`chains/evm/adapter.ts`, which
uses `send.ts` and `receipts.ts`), and saves the document (`storage.ts`). The
vault contract enforces the same policy a second time on chain. The x402
facilitators on EVM chains share `send.ts` and `receipts.ts` and keep logs of their own in
`storage.ts`. Node runs one callback at a time, so two operations interleave
only where one of them awaits.

`PROJECT.json` lists every component with its status, the ones that are not
modelled too, with the reason.

## 2. What is modelled

Read an action as the code between two awaits. A handler that awaits is a
`stage` (or `step`) of a record; what the awaited call may answer is a disjunct
of the action that resumes it. The comment above each definition names what it
stands for, and `map` the lines. Variables that a comment calls *history* decide
nothing: they let a property say what went before.

| Abstract | Implemented by | Says |
|---|---|---|
| `SpendPolicy` | `AgentSpendPolicy`, `SorobanPolicy`, `AlgorandPolicy` (in `Vaults`) | what a vault promises its owner |
| `SpendPromise` | `Instructions` | what one spend instruction promises |
| `PaidOnce` | `X402Settlement`, `StellarSettlement` | what a seller promises for one payment |
| `LossyStore` | `DocumentStore` | what the platform may count on of its storage |

`Marketplace` composes `AgentRecord`, `TaskEscrow` and `VaultMirror`; `Vaults`
composes the three contracts. The modules `MC...` give constants their values,
those that end in `_proofs` hold the theorems.

### `Instructions`

One agent, its instructions `Ix`, its budget and the document.

* State. `row[i]` is `state.instructions[i]`, with `tx` and `key` naming the
  payment that `unconfirmedTx` and `circleIdempotencyKey` name, `heldOn` for
  `capHeldOn` and `at` for `unconfirmedAt`; `counter` is `spentTodayUsd` and
  `spendDate`; `h[i]` is the handler that holds `executingIx`; `dirty` and
  `disk` are the debounced save and the stored document; `pay[i][n]` is what
  the chain or Circle knows of the n-th payment made for `i`. `claim`, `auto`
  and `gaveUp` in a row are history and decide nothing.
* Actions. `CreateInstruction`, `ApproveInstruction`, `RejectInstruction` and
  `RejectAnswered`, `ExecuteInstruction` and `ExecuteAnswered` (the read of an
  open settlement), then the rails: `NothingSent`, `NoteTransaction`,
  `SendTransaction`, `ReceiptAnswered`, `ReadSessionKeyBound` for vault, batch
  and direct; `NoteCircleKey`, `CircleCreate`, `CirclePolled` for Circle.
  `Flush`, `Restart` and `Midnight` are storage, process and clock; `Settle` is
  the chain.
* Which rails an agent has is fixed at the start, over every combination in
  `Agents`; `FirstRail`, `RailAfterVault` and `RailAfter` are the order in
  which `executeInstruction` tries them.
* Abstracted. The rules of `evaluateSpendPreflight` are three facts: fits the
  cap, is under the auto-approve line, is screened (freeze, allowlist, payee
  type). A velocity denial may meet any instruction. A receipt poll is one
  step whose answer may be "unknown" however the chain stands. What
  `receiptStatus` rules out is taken as true, which `ReceiptLook` shows, and
  storage is two atomic writes, `Flush` and `DurableWrite`, whose promise
  `DocumentStore` shows to be kept.
* `KeepsPromise`: each instruction implements `SpendPromise`. What moved is the
  payments that landed; its record is settled, closed (rejected, or executed as
  a simulation), unresolved (rejected while a payment may land) or open.

### `SignerQueue`

Calls to `sendCallSigned` with one signer on one chain.

* State. `tail` is the entry of `queues`; `before[c]` the promises call `c`
  waits for and `released` those resolved; `stage`, `nonce` and `pending` are
  the locals of a call; `floor` is the entry of `floors` with its age; `pool`
  and `mined` are the nodes. `quiet` counts the time since the nodes last gave another count, or a call
  that sends carried one they no longer give;
  `adrift` (calls at work or waiting when the last in line gave up), `lapsed` and
  `lost` are history.
* Actions. `Enter`, `GiveUp` (the wait runs out), `TakeTurn`, `Prepare`,
  `Note`, `Send` and `Look`; `TakenLate`, `Mine`, `Vanish` (every host drops an
  accepted transaction) and `Tick` are the world. `PendingCounts` says what a
  host may answer: anything from the mined count to the whole pool, since hosts
  lag. `Prepare` drops the floor before it signs, and `LeaveUnsent` marks the
  calls that end without a send after that. Several hosts may hold different transactions with one nonce.

### `AgentSpendPolicy`, `SorobanPolicy`, `AlgorandPolicy` and `Vaults`

The policy vault of each chain, with every state-changing function as an
action: payments by the operator and by the owner, the policy, the allowlist,
the operator, the key's expiry, the freeze, the withdrawal. A transaction that
reverts changes nothing and is left out.

* Solidity. `uint256` and `uint64` are `0..MaxUint`, and arithmetic that passes
  it reverts, as checked arithmetic does. `Deposit` and `Block` are the chain.
  `agentPaid` and `capSeen` are history.
* Soroban. The settings are instance storage and never age here (see Not
  modelled); the count of a day, `bucket`, is a temporary entry that the
  network drops when its `life` in ledgers runs out. A write extends the entry
  only when no more than the threshold is left, anyone may extend it
  (`ExtendBucket`), and `CloseWithinDay` and `CloseAfterMidnight` close ledgers
  any time apart that is at least one unit. The unit is the shortest time
  between two ledgers, so a day has at most `DayLength` of them.
* Algorand. One count that the first payment of a later day resets; allowlist
  boxes; the application must have opted in to the asset; a payment to the
  application itself moves nothing and still counts.
* `Vaults`. Each behaviour has its vault on one chain. `KeepsPolicy` is the
  refinement of all three to `SpendPolicy`: whoever signs, the agent moves money
  only while its key is armed, within the ceiling and the cap in force on what
  it moved that day, only the owner changes the rules, and time never arms a
  key. For Soroban it needs `SorobanDay <= LifeExtend`: a day has no more
  ledgers than a bucket lives. `storage.rs:81` states the same fact as a close
  time above 2.5 s for 34,560 ledgers.

### `X402Settlement`

The EIP-3009 facilitator, seen from one authorization: a buyer pays for a call
by signing it, and several requests may carry it, at once and again.

* State. `q[r]` is the handler of request `r`: the await it stands at (`stage`),
  the refusal a retry was let in with (`refused`), the rows it still has to read
  (`look`, `left`), its transaction and the last answer (`told`). `inFlight` is
  the entry of that map for this authorization; `log` the rows of
  `x402_settlements` with `outcome`, `redeemedAt` (`claim`) and `servedAt`
  (`served`); `spent` the replay key. `tx` and `used` are the chain, `phase` the
  clock against `validBefore` and the redeem window, `late` the database writes
  whose caller has given up. The variable `served` counts calls and is history.
* Actions. `Arrive`, `LoadSpent`, `AuthorizationState` and `Funds` are
  `verifyPayment`, read by read; `Proof` is `retryOfEarlierBroadcast`; `ReadLog`,
  `Look` and `ReadUnused` are `settleFromEarlierBroadcast` and
  `reconcileSettlementRow`; `Simulate`, `Note`, `Send`, `Wait`, `Finish` and
  `CloseUnsentRow` are `settlePayment`; `Claim`, `WriteSpentKey`, `Serve`,
  `MarkServed` and `ReleaseClaim` are the claim and its end, and `LeaseEnds` is
  the end of its 120 s while the holder still serves, after which another request
  may take it over (`Claimable`); `overtaken` counts those. `Sweep` is a proof
  read, which resolves rows without the key. `Land`, `Vanish`, `Tick`,
  `LateCommit` and `Restart` are the world.
* `setting` says which call each request wants, whether the payer holds the price
  twice, and which reads and writes may fail. The faults are named because some
  of them break a property, which then says so in its premise: findings 3, 6 to
  9 and 15.
* `KeepsPromise`: it implements `PaidOnce`.
* Abstracted. A receipt is there and deep enough, or the look concludes nothing.
  `canNeverLand` is taken as sound: it concludes only for a transaction whose
  nonce another one took. A refusal of the simulation, the gas budget or the
  signer is one outcome. The lease of a claim whose holder is gone has no clock: it
  is refused or granted. The log keeps every row, where the code keeps the last
  2000 (`storage.ts:378`). Left out: requests
  that are malformed or not for this facilitator (no state), a bare `/settle`
  (nothing to serve), `validity_too_long` (refused before any send, and let in
  like the other refusals), and the insert of a whole row by `finish` when the
  log has none under the hash (the row is written before the send).

### `StellarSettlement`

The Stellar facilitator. A request carries an authorization that we broadcast
ourselves or through OpenZeppelin, or the hash of a transaction a contract made
and its buyer broadcast.

* State. `q[r]` is the handler of request `r`, with the spent keys it read
  (`saw`), its transaction and whether its last answer refused it. `inFlight`
  is the set of that name, `line` the chain of `serializePerAccount`, `spent`
  and `settled` the replay keys and settled rows, `fees` the rows whose fees
  `feeSpentOnDay` adds up. `moved`, `hash`, `tx` and `phase` are the ledger;
  `unrecorded`, `lapses`, `told` (payments whose payer heard that they may land)
  and `unread` (transactions OpenZeppelin submitted and whose answer was taken
  for a refusal) are history.
* Actions. `Verify`, `LoadSpent` and `Guard` are the head of
  `redeemStellarPayment` and of `settleStellarPayment`; `Simulate`, `Budget`
  and `Send` are `buildSignAndSend` in its turn, or `broadcastViaOz`;
  `Confirm`, `PersistUnsettled`, `PersistSettled`, `PersistSpent` and `Serve`
  are the rest. `Close` and `CloseHash` apply transactions, `Tick` and
  `Restart` are clock and process.
* `KeepsPromises`: for each payment it implements `PaidOnce`. A lapse is a
  replay key that was not written, or a read of the keys that a write overtook.
* Abstracted. Verification's data checks are one refusal; the fee of every
  settlement is the same; all runs within one day; the log keeps every row, where
  the code keeps the last 2000 (`storage.ts:796-809`), so a day with more
  settlements than that counts too few fees.

### `DocumentStore`

The write side of `storage.ts`: one document, saves that are debounced, saves a
caller waits for, and the chain that runs the writes one by one.

* State. `doc` and `disk` are sets of changes. `pending`, `timer` and `chain`
  are `pending`, the debounce and `flushChain`; `work` and `sent` are the write
  at work; `call`, `asked` and `acked` the durable saves; `late` the writes the
  database may still apply.
* Actions. `Change` and `SaveState`; `Timer` and `FlushDurably` append to the
  chain; `Begin`, `Send`, `Apply`, `Written` and `Failed` are `doFlush`;
  `GiveUp` is a caller's deadline and `Return` its answer; `Straggle` is a write
  given up on that the database applies; `Terminate` is the SIGTERM flush and
  `Restart` loads what storage has.
* `KeepsPromise`: it implements `LossyStore`. What a durable save acknowledged is
  what a restart reads, or a newer document, until a write that had no answer
  strays in.

### `ReceiptLook`

One look of `receipts.ts` at a transaction sent earlier, over hosts that lag
behind the chain and may not serve transactions or receipts.

* State. `chain` is what each block since the send does with our nonce, `view`
  what each host has of it; `step`, `asked` and `block` are where the look
  stands. Reorgs take back no more blocks than the setting says.
* Actions. `AskReceipt` and `AskHead` are the search for a settled receipt;
  `AskCount`, `AskTransaction` and `AskReceipts` are `canNeverLand`, which first
  wants the nonce used and then every host without the hash. `Look` starts
  another look, `NoAnswer` is a host that fails; `Mine`, `Reorg` and `CatchUp`
  are the world.

### `AgentRecord`, `TaskEscrow`, `VaultMirror` and `Marketplace`

* `AgentRecord`. The wallet a record names, its KYA status, the proofs it keeps
  (`proof`, `former`, `claimed`), the challenges, and who holds the token on
  chain. `VerifyKya` and `VerifyAgentClaim` await a signature or a chain read;
  `KyaVerdict`, `NoVerdict` and `ClaimVerdict` are what they do with it.
  `AssignWallet`, `RevokeAgentKya`, `MarkImportedAgent`, `StartKyaChallenge`,
  `StartClaimChallenge`, `Expire` and `Transfer` (of the token) run meanwhile.
* `TaskEscrow` extends it: one task, its status machine, and the jobs of the
  ERC-8183 escrow. `HireAgent`, `AcceptBid` and `SettleTask` (release, dispute)
  start a chain of transactions, each step of which may fail or go unanswered:
  `CreateJob`, `Transact`, `ReadJob`. `Save` and `Restart` are the debounced
  document.
* `VaultMirror`. An edit of the permissions (`UpdateAgentPermissions`) starts a
  sync: `ReadVaultPolicy`, then the writes of what differs, `WriteVaultPolicy`
  and `WriteVaultFrozen`, then the allowlist, `Revoke` and `Allow` payee by
  payee, then `RecordMirrored`. Each may fail or go unanswered; edits may cross.
  `document` is what storage has of permissions and record: `MirrorSave` writes
  it at any time, `MirrorRestart` goes back to it and cuts off the syncs. `leaked`
  and `unsaved` are history: what a lost answer or a restart left off the record,
  and what is not in a saved one yet. A write that was given up on and lands
  later, after its sync went on, is not modelled: it lands at once or not at all.
* `Marketplace` puts the three beside each other. Each of its `Scenes` names the
  components that move in a behaviour; the run uses one at a time, with the
  revocation of the worker's KYA beside the task, which is where they meet
  (hiring and bidding look at `kya`). The proofs make no such restriction.

## 3. What the runs check

All configurations set `CHECK_DEADLOCK FALSE`: in each system every call may
have ended, and the bounds stop the environment. Every detailed module defines a type
invariant, and none is a run's property: a run's properties are about hazards.

| Run | Bounds | What it shows |
|---|---|---|
| `rails` | one batch instruction, seven rail configurations, 3 payments, 2 days, no restart | `PaysAtMostOnce`, `RecordIsTrue`, `MoneyIsCounted` over every order of approvals, rejections, executions and answers |
| `budget` | two instructions of 2 and 3 under a cap of 4, one day, one restart, no vault | `CounterIsClaims`: the counter is the sum of the claims the rows hold; `AgentSpendWithinCap` |
| `recovery` | one instruction, direct and Circle agents, 3 payments, 2 restarts, saves that fail | `StorageKnowsPayments`; `KeepsPromise`, the refinement to `SpendPromise`; `HoldsResolve` and `LandedIsRecorded` under `FairSpec` |
| `label_window` | two instructions, an EVM vault, 2 payments, one restart | finding 1: `PaysAtMostOnce` is violated |
| `vault_policy` | three chains; integers up to 3, two amounts, limits 0 and 1; days of 2 seconds or 2 ledgers, 2 days | `AgentWithinCap`, `AgentIsCounted`, `RevocationHolds`; `KeepsPolicy`, the refinement of the three contracts |
| `signer` | four calls (symmetric), all may give up, every step may fail, transactions vanish | `OneAtATime`, `NoncesDistinct`, `NoGap`, `NobodyStranded`, `GapIsRefilled` |
| `x402_faults` | two requests, two transactions, two rows, one restart or one lease that ends; four settings of faults | `BroadcastOnce`, `SentIsOnRecord`, `ServedIsPaid`, `NeverSentBack`; `KeepsPromise`, the refinement to `PaidOnce` |
| `x402_liveness` | two requests, one transaction, one row, one restart, one lease that ends, log writes fail | `PaidIsServed` under `FairSpec` |
| `stellar` | two requests with one authorization, one hash or two authorizations, by us and through OpenZeppelin; 3 transactions, one restart | `BooksAreTrue`, `FeesBounded`, `NoFalseRefusal`; `KeepsPromises`, the refinement to `PaidOnce` |
| `store` | two callers, two changes, one failure, one restart | `KeepsPromise`, the refinement to `LossyStore`; `SavedIsWritten` under `FairSpec` |
| `receipts` | three hosts, three kinds of chain, three blocks, one missing answer | `DroppedIsTrue`, `SettledIsFinal`; `FateIsKnown` under `FairSpec` |
| `marketplace` | two wallets with keys and one without, two proofs in flight; two edits at once, one miss, one restart; two orders, 3 jobs, 2 lost answers, one restart | `VerifiedIsProven`, `ProvenIsKept`, `AllowedIsKnown`, `VaultFollows`, `SettledIsTrue`, `OutcomeIsTheJobs`, `EscrowIsKnown` |

Some properties hold only under a premise that names what breaks them
(`VaultFollows` unless two syncs crossed, `NeverSentBack` where hosts do not lag).
What a premise leaves out, the property does not check: a hazard of
`PROJECT.json` that lies there names no property but says in its note what the
code does. For most of them a configuration kept beside the runs shows the
unconditional form violated:

| Configuration | Violated |
|---|---|
| `MCInstructions_midnight.cfg` | `CounterIsClaims` (finding 4) |
| `MCSignerQueue_busy.cfg` | `OneAtATimeAlways` (finding 2) |
| `MCSignerQueue_floor.cfg` | `NoncesDistinctAlways` (finding 5) |
| `MCX402Settlement_funds.cfg`, `_proof.cfg`, `_lag.cfg` | `NeverSentBackAlways` (findings 3, 6, 7) |
| `MCX402Settlement_writes.cfg` (with `-continue`) | `SentIsOnRecordAlways`, `ServedOnceAlways` (findings 8 and 9) |
| `MCX402Settlement_lease.cfg` | `ServedOnceAlways` (finding 15) |
| `MCReceiptLook_depth.cfg` | `SettledIsFinalAlways` (finding 10) |
| `MCVaults_expiry.cfg` | `RevokesImmediately` (finding 14) |
| `MCStellarSettlement_refused.cfg` (with `-continue`) | `NoFalseRefusalAlways`, `RedeemedOnceAlways` (findings 16 and 17) |
| `MCMarketplace_always.cfg` (with `-continue`) | `VerifiedIsProvenAlways`, `ProvenIsKeptAlways`, `AllowedIsKnownAlways`, `AnsweredIsNotNeededAlways`, `RecordSurvivesAlways`, `FreezeHoldsAlways`, `DroppedIsRevokedAlways`, `SettledOnceAlways`, `LockstepAlways` (findings 11 to 13) |

Why the bounds are enough.

* *Instructions.* Three payments allow a first payment that is lost, a retry on
  another rail and one more after that; a double payment needs two. Two days
  have one midnight, and every rule about days compares today with one earlier
  day. Two restarts allow a restart in the middle of what the first one left
  behind. Amounts 2 and 3 under a cap of 4 fit alone and not together, and only
  one is under the auto-approve line of 3 together with what is counted.
* *Vaults.* `MaxUint = 3` makes every sum reach the overflow border; two days of
  two seconds put payments and expiry on both sides of midnight; a day of two
  ledgers and a bucket that lives two is the longest day the assumption allows,
  and with a day of four `KeepsPolicy` is violated.
* *Queue.* Three calls are the holder, one that gives up and one that arrives
  after it; the fourth sends above a gap that the other three left. A floor
  that may run out at the first tick (`FloorTtl = 0`) is the least protection
  there is.
* *X402Settlement.* A request starts over whenever it is answered, so two
  requests are two handlers at a time, each retried without end; two
  transactions are a broadcast and the one that must not follow it; two rows are
  those of a note whose answer was lost and of its retry; three calls served are
  one too many with a restart, or with one claim taken over. `PaidOnce` allows
  one call more for a lapse: when a restart came after the answer was written out
  and before its mark, and when a claim is taken over from a request that still
  serves, its lease of 120 s having ended (`overtakes` bounds those). The
  settings are the faults with one wanted call and a payer who holds the price
  twice; the failing checks and final writes with two wanted calls; writes that
  outlast their deadline; and a tool that outlives its lease, which is as much as
  two requests can show.
* *StellarSettlement.* Two requests meet at every await; a daily budget of one
  settlement is passed by the second; three transactions are a broadcast, its
  retry and one beside them. `MaxCalls` bounds calls and lapses alike, two being
  one more than a payment buys.
* *DocumentStore.* Two callers and the debounce give three writes, the one at
  work and two queued; two changes tell an older document from a newer one.
* *ReceiptLook.* One host that has the block, one that lags and one between;
  three blocks are the transaction's, one deeper and one that a reorg replaces.
* *Marketplace.* Two proofs in flight are one and the one it overtakes; a
  history of one wallet is full after the first move; two edits are two that
  cross, or one that starts from what the other, a miss and a restart left; three
  jobs are that of a hire
  and those of two settlements.

`LandedIsRecorded` and `HoldsResolve` need the restart bound: a process that
restarts for ever during every wait records nothing, in the model and in fact.
They also need the one day of `recovery`: from the second day on a human may
reject a hold with its outcome unknown, which closes it without a record of it.

### Fairness

* `Instructions`. `WF(Handle(i))`: a handler that awaits goes on, because every
  await in it has a deadline (`send.ts` and `receipts.ts` bound each call,
  Circle polling is bounded) and Node runs ready callbacks.
  `SF(ApproveInstruction)`, `SF(ExecuteInstruction)`: the human and the console
  keep answering; holds are documented to wait for a human, so a property that
  says a hold ends has to assume one. `SF(ExecuteAnswered success / reverted)`,
  `SF(CircleAnswers)`: a chain or Circle that is asked again and again answers
  at some point. `WF(Settle)`: a sent payment is decided, and the nonce of a
  hash that was never sent is taken by another transaction of the server.
* `X402Settlement`. `WF(Handle(r))`, every await having a deadline; `WF(Arrive(r))`,
  a buyer who keeps sending the payment, as every answer short of a fresh
  challenge tells them to; and `SF` of a look that resolves a row, a claim that
  is granted and a tool that answers, each of which works at last when it is
  tried again and again. The chain and the clock owe nothing: `PaidIsServed`
  starts from a transfer that landed and ends with the redeem window.
* `DocumentStore`. `WF` of `Timer`, `Begin`, `Send`, `Apply` and `Written`: a
  timer that was set fires, and the database answers a write it has applied.
  Nothing is assumed of `SaveState`, `FlushDurably` or `Failed`.
* `ReceiptLook`. `WF` of `Mine` and `CatchUp(h)`: the chain grows and hosts
  catch up; of `Look`: callers look again; and that some host answers a question
  that is open.
* The other modules state none: their properties are about what a step may
  never do or leave behind. `NobodyStranded` is the safety form of "no call
  waits for ever": while a call waits, another one can move.

### Findings

1. `label_window` is a run that TLC must find violated. A vault payment's hash
   is cleared in memory (`instructions.ts:1056`) before the read of the session
   key is awaited; a flush and a restart inside that await lose the payment and
   the next execute pays again. `PROJECT.json` quotes the comments it
   contradicts.

The others have a configuration kept beside the runs that reproduces them with
TLC; the properties of the passing runs leave out exactly what leads there.

2. `MCSignerQueue_busy.cfg`. A call that gave up waiting and is the last in line
   deletes the queue entry while the holder is still at work (`send.ts:130`), and
   the next arrival runs beside it. `OneAtATime` allows it of the calls that were
   live at that moment (`adrift`) and of no others.
3. `MCX402Settlement_funds.cfg`. The balance is read after the nonce, so a
   request beside the one that pays is refused as `insufficient_funds` and told
   to pay again. No fault is needed.
4. `MCInstructions_midnight.cfg`. `reverseSpend` (`core.ts:603`) compares with
   the day of the agent's last spend, not of the spend it reverses, so a payment
   of yesterday is taken off today. The comment at `core.ts:596-599` says it
   "refuses to touch a spend recorded on an earlier UTC day".
5. `MCSignerQueue_floor.cfg`. The floor is dropped (`send.ts:168`) before the
   call signs (`send.ts:170`). When the sign throws, or the note fails after it,
   nothing is sent and no floor is left, and the next call, served by a host that
   lags, may sign with a nonce already accepted.
6. `MCX402Settlement_proof.cfg`. A retry whose signature or domain cannot be
   read (`engine.ts:834`) is answered with the refusal it came in with, a fresh
   challenge, although the log has its broadcast. `engine.ts:798-804` says of
   those refusals "None of them may send a buyer who paid back to pay again".
7. `MCX402Settlement_lag.cfg`. One host that still reads the nonce as unused
   (`engine.ts:842-846`) is enough to send an expired buyer back, although the
   transfer landed and its receipt is only too shallow.
8. `MCX402Settlement_writes.cfg`. `closeUnsentRow` ends at its deadline
   (`engine.ts:1145`) with its update still running; the update can close the
   row of a retry that signed the same hash and was sent, which the comment at
   `engine.ts:1119-1121` means to rule out. An insert that outlasts its deadline
   in the same way may commit beside the row of its retry, two rows for one hash.
9. The same configuration. When the write that settles the row and takes
   the claim fails (`engine.ts:654-655`), the call is served with no claim on
   record, and a retry settles the row, claims it and is served again. The
   comment at `engine.ts:644-645` says "A replay stays blocked either way".
10. `MCReceiptLook_depth.cfg`. The receipt and the head its depth is counted
    from come from different hosts at different times, so across a reorg a
    receipt may count as deep that the chain no longer holds.
    `receipts.ts:320-323` says that a lagging host "costs another round and
    nothing else".
11. `MCMarketplace_always.cfg`, records. A wallet assigned while the signature
    of the one before is being checked is left `verified` without a proof of its
    own (`agents.ts:273` says "`verified` always means the current wallet"). A
    record may leave `unclaimed` by a KYA challenge, where `kya.ts:184-185` says
    of the claim "This is the door out of that state, and it is the only one". Two claims that cross forget the
    address the first one proved, and a verdict that arrives after a revoke
    overwrites it.
12. The same configuration, vaults. An edit that changes only the allowlist,
    with no drift of cap, flag or freeze, is never mirrored: the sync returns
    before it, so a dropped payee stays allowed on chain, which the comment at
    `vault.ts:585-588` means to rule out. Two syncs that cross lose payees from
    the books, or lift a newer freeze. A payee whose allow landed and whose answer
    was lost is not recorded (`vault.ts:602`): once dropped from the list it is
    revoked only if it was listed and mirrored again before. The record is set
    after all writes (`vault.ts:604`) and saved after that (`permissions.ts:81`),
    so a restart in between forgets payees the vault allows, and brings back
    permissions older than the policy on chain.
13. The same configuration, tasks. A release whose `complete` was not confirmed,
    or whose `getJob` failed, is answered as a failure to retry
    (`tasks.ts:258`); the retry makes a second escrow when the task has no
    `jobId`, and reverts for ever when it has. A funding still in flight at the
    release strands its job or overwrites `jobId`, so task and escrow are not
    "in lockstep" (`marketplace.ts:122-126`). A restart from a document older
    than a settlement may settle again.

14. `MCVaults_expiry.cfg`. `set_session_key_expiry` of the Stellar vault says "a
    past time (or the current one) revokes immediately" (`lib.rs:202-204`), and
    `storage.rs:219-220` that the owner revokes "by setting this to now". The
    check is `now > expiry` (`policy.rs:82`), so a key whose expiry is set to the
    current time still pays in that second. The Solidity comment
    (`AgentSpendPolicy.sol:181-187`) says so of its own, and the code there does
    the same. `KeepsPolicy` takes each contract's own comparison for when a key is
    armed, and so says nothing against it.
15. `MCX402Settlement_lease.cfg`. "A claim this old with no servedAt was left by
    a process that died holding it" (`engine.ts:425`, and `storage.ts:458-459`).
    The lease is 120 s of wall time and a tool has no deadline (`rail.ts:705-712`):
    a retry takes the claim over while the holder still serves, and both are
    served, with no fault and no restart.
16. `MCStellarSettlement_refused.cfg`. "DECIDED. OZ answered, and the answer was
    no. [...] they looked at it and refused" (`settle.ts:1250-1251`).
    `defaultOzSubmit` gives the same answer for any status that is not 2xx, a body
    that cannot be read and one without a hash (`settle.ts:1295-1303`), all of
    which a relayer or a proxy before it may give after submitting. The buyer is
    told 502 `broadcast_failed`, and the payment lands.
17. The same configuration. "One hash, one redemption, forever"
    (`settle.ts:243`). The spent keys are read (`settle.ts:329`) before the
    in-flight guard is taken (`settle.ts:339`): a request that read them before
    another one wrote its key, and came to the guard after that one left it, is
    served by the same hash. `KeepsPromises` counts it as a lapse, which buys one
    call more.

Smaller things met on the way, with no configuration of their own.

* Stellar. A buyer who was answered 202 "may still land" may be refused on the
  retry while the earlier transaction lands; `stellarRailServeToolOn` tells them
  that a retry is not enough, and `NoFalseRefusal` leaves out payments so answered
  (`told`). `serializePerAccount` ends with the answer to the send and not with the
  row, so the daily fee budget may be passed by one settlement per request at
  work; `FeesBounded` says by how much. A retry of a broadcast that landed is
  refused at simulation. A vault's receipt lookup on Stellar never answers that a
  payment was dropped, so such a hold ends only through a rejection after a day.
* Storage. A debounced write that fails forgets what was pending, and so does
  `flushStateDurably`; only a later save repeats it. A write that hangs stalls
  the chain behind it. A write whose answer was lost may be applied over a newer
  one that was acknowledged. The file fallback is not written atomically.
* Vaults. On Algorand a cap or ceiling of 0 means that nothing is payable, where
  it means no limit on the other two, and neither a key expiry nor the refusal
  to pay the vault itself exists, although `contract.py:18` says "Policy
  semantics, identical to the other two implementations". `KeepsPolicy` holds
  of what they share.

## 4. What is proved

The proofs hold for every value of the constants that satisfies the named
assumptions: any number of instructions, calls, requests, hosts, payees,
restarts, days or integers.

| Theorem | Module | Says |
|---|---|---|
| `TypeCorrect` | `Settlement_proofs` | `[]TypeOK` of `Instructions` |
| `SettlementInvariant`, `PaysOnce`, `RecordsAreTrue`, `MoneyCounted` | | `[]SettlementInv`, `[]PaysAtMostOnce`, `[]RecordIsTrue`, `[]MoneyIsCounted`, for restarts from a document that knows every payment (`Careful`) |
| `PromiseKept` | | `Spec /\ Careful => KeepsPromise`: it implements `SpendPromise` |
| `StorageKnows`, `SavedOutsideLabelRead`, `CarefulIsSafe` | | `[]StorageKnowsPayments` with no vault, or with nothing saved inside a vault's label read |
| `AccountBalances`, `CounterClaims`, `EachDayWithinCap` | | `[]AccountInv`, `[]CounterIsClaims`, `[]AuthorizedWithinCap`, with no claim given back on a later day (`ReturnedInTime`) |
| `OneDay`, `CounterClaimsOneDay`, `SpendWithinCap` | | within one UTC day, `[]CounterIsClaims`, and with `Careful` `[]AgentSpendWithinCap` |
| `TypeCorrect`, `AgentCapped`, `AgentCounted`, `RevocationKept` | `Vaults_proofs` | `[]TypeOK`, `[]AgentWithinCap`, `[]AgentIsCounted`, `RevocationHolds` of the Solidity vault |
| `PolicyKept` | | `VaultsSpec => KeepsPolicy`: the three contracts implement `SpendPolicy` |
| `TurnsTaken`, `NoncesApart`, `NoGapLeft`, `NobodyLeft`, `GapRefilled` | `SignerQueue_proofs` | `[]OneAtATime`, `[]NoncesDistinct`, `[]NoGap`, `[]NobodyStranded`, `GapIsRefilled` |
| `PaidFirst`, `NeverTwice`, `AlwaysOnRecord` | `X402Settlement_proofs` | `[]ServedIsPaid`, `[]BroadcastOnce`, `[]SentIsOnRecord` |
| `PayerIsHeard` | | `NeverSentBack` |
| `PromiseKept` | | `Spec => KeepsPromise`: it implements `PaidOnce` |
| `BooksTrue`, `RefusedIsFinal`, `FeesStayBounded` | `StellarSettlement_proofs` | `[]BooksAreTrue`, `NoFalseRefusal`, `[]FeesBounded` |
| `PromisesKept` | | `Spec => KeepsPromises`: it implements `PaidOnce`, payment by payment |
| `PromiseKept` | `DocumentStore_proofs` | `Spec => KeepsPromise`: it implements `LossyStore` |
| `DroppedTrue`, `SettledFinal` | `ReceiptLook_proofs` | `[]DroppedIsTrue`, `[]SettledIsFinal` |
| `VerifiedProven`, `ProvenKept` | `Marketplace_proofs` | `[]VerifiedIsProven`, `[]ProvenIsKept` |
| `AllowedKnown`, `VaultFollowed` | | `[]AllowedIsKnown`, `[]VaultFollows` |
| `SettlementTold`, `OutcomeTold`, `EscrowKnown` | | `[]SettledIsTrue`, `[]OutcomeIsTheJobs`, `[]EscrowIsKnown` |

**Settlement.** `PaysAtMostOnce` is not inductive: nothing in it says why a
handler that is about to send may do so. `SettlementInv` adds, per instruction,
that the row accounts for every payment that may move money (`Knows`), that it
names at most one open settlement and never after its end (`RowOk`), what the
stage of the handler implies (`HandlerOk`), and that storage names what memory
names as open (`InvOf`, `StoredOk`). It is stated one instruction at a time, and
each step changes at most one, so the proof treats the record of one instruction
and lifts it.

A restart keeps it when the document knows every payment that may move money
(`SafeRestarts`, by `StorageKnowsPayments`). `CarefulIsSafe` says when that is
so: no restart of an agent with a vault, or nothing saved between the moment a
vault payment's hash leaves the row and the moment it is recorded
(`NoSaveInLabelRead`). The hypothesis is needed and not convenience: without it the
theorems are false, which is what `label_window` shows. Whatever else is saved
or lost, whenever the process stops, is covered.

**Promise.** A step of a handler finds the record open (`ActsOnOpen`) and moves
nothing (`ActsMoveNothing`); the end it records is the true one by
`RecordIsTrue` of the next state. The chain lands a payment that was live, so by
`PaysAtMostOnce` none had landed, and by `RecordIsTrue` the record is not at
an end that denies it. A restart may forget an end and makes none, as an end in
storage is the end in memory too (`EndsKept`).

**Budget.** The books of a day are the claims that rows hold on it, what the
policy alone authorized among them, and the counter when it is of that day
(`Books`). `AccountInv` says that they agree in memory and in the stored
document, since a restart goes back to that one. Every ending of every handler
makes one of the entries that `Entry` allows for its instruction, and
`EntryKeepsBooks` is the only argument about sums. `ReturnedInTime` is finding 4
negated: no claim of an earlier day is taken from today's count. Within one day
it holds of itself (`OneDay`). `EachDayWithinCap` holds on any number of days
and no run states it; `SpendWithinCap` is what the run checks. Sums over sets
of instructions are the fold of the community module; their laws (`TotalSplit`,
`TotalMonotone`) come from a least counterexample among the subsets of `Ix`,
which is first-order (`LeastSet`), where induction on sets is not.

**Vaults.** `AgentCapped` follows from `CapInv`: what the agent moved in a day
is part of that day's count and within the largest cap seen that day, and the
cap in force today is among those seen; `FutureIsEmpty` adds that days only
pass, by an argument about `\div`. `PolicyKept` has one invariant per chain. Each
says that the count a payment is compared with covers what the agent moved
today. On Soroban that is where lifetimes come in: `Outlives` says that the
bucket of today has at least as many ledgers left as the day, so it cannot
vanish before midnight, and `VaultsAssumption` is what makes it true of a bucket
just written.

**Queue.** `TurnsTaken` follows from `ChainInv`: the calls a call waits for are
a chain ordered by arrival, the tail waits for all others that are unreleased,
and a working call has all before it released. `NoGapLeft` needs `Grounded`: each
nonce below a floor, or below one that was signed, is mined, held by a node or
lost. `NoncesApart` follows from: while nothing disturbed it, every nonce that was
accepted is below the one signed now, and with none signed below the floor.
`NobodyLeft` takes a waiting call with the fewest calls before it, which exists
as sets of calls are finite, and shows that whoever it waits for is at work.

`GapRefilled` needs `RefillInv`: while nothing holds the next nonce, a floor above
it is as old as the quiet, or one life younger when a send that had asked
before the gap opened kept it (`Aged`), and what a call between its prepare and
its send will keep is no younger (`KeepsAged`). A third life takes a send that
was prepared on a count that is no longer given, so such a send starts `quiet`
again. Calls that overlap after a wait ran out may each keep a floor the other
one dropped, and the property leaves them out. Both were found by the proof: with
six calls the earlier form of `GapIsRefilled` was false, and the four of the run
were too few to show it.

**X402.** Three layers. `PaidInv`: one transfer lands, and whoever serves has a
row of a transaction that did (`PaidFirst`, with any fault). `OnceInv` adds,
where no write stalls: every live transaction is on record, one is live at most,
and what each stage of a request has read still holds. `SaleInv` adds, where the
settling and marking writes do not fail: the settled rows agree on claim and
mark, no open row is left of a settled transaction, who serves holds the claim,
and calls served are no more than restarts until the request that serves is
done. The refinement to `PaidOnce` maps `paid` to a transaction that landed,
`calls` to calls served and `lapses` to restarts and claims taken over from a
holder that still serves.

**Stellar.** `BooksInv`: rows and keys only of payments that moved, what a
request's stage implies of the ledger, and one request at a time that holds the
key of a payment. `SaleInv`: a payment bought one call and one per lapse, those
about to be served included, and none beyond the lapses while its key is
not spent or somebody still settles it. `FeeInv`: `InLine`, at most one request of the line
is past the budget check; `Counted`, each fee bid is in a row, lost, or at a
request at work.

**Storage.** `StoreInv`: the document holds what callers asked for and what was
written down (`Covered`); the write at work is the first of the chain and
carries what its caller asked for (`Carried`); and until a write strays, storage
holds what was acknowledged, is behind the document and never ahead of the write
at work (`Behind`).

**Receipts.** On a chain that takes no block back, `LookInv`: every view is a
prefix of the chain (`Lagging`), and the answers so far hold for good (`Told`):
who was asked for its count has seen the nonce used, and once every host has,
one that would serve our transaction or its receipt and does not has seen
another transaction take the nonce. `SettledFinal` is about chains that do take
blocks back, and needs another invariant, `FinalInv`: unless a reorg took our
block back while the look went on, what hosts and the look saw of it is on the
chain (`SeenIsThere`), and once the look says settled the block lies as deep as
was asked for (`Buried`), where no reorg the setting allows reaches it.

**Marketplace.** `RecordInv`, `MirrorInv` and `TaskInv`, one per component, each
kept by the steps of the others as they leave its variables alone. `MirrorInv`
says that while syncs do not cross at most one is at work (`OneSync`), that what
the chain allows is on its books or the record's, on the record in storage or not
saved yet, or `leaked` (`OnBooks`), and how far it has brought the vault
(`InStep`). `TaskInv` is what the record of jobs and each order
at work know of each other. `Locked` adds what the task owes to its job: the job
on the books is the task's own, one that ended is the one the outcome names, and
an order at work on a settlement sees to it.

## 5. What is only model-checked

* Liveness (`HoldsResolve`, `LandedIsRecorded`, `PaidIsServed`,
  `SavedIsWritten`, `FateIsKnown`): it rests on fairness and `ENABLED`, which are
  out of the prover's reach. Every other property of the passing runs is stated
  by a theorem, under the premise the table names where it has one.

## 6. Plan

Done: the core (instructions, queue, vaults of the three chains), both x402
facilitators, storage, receipts, and the marketplace with its records, vault
mirror and escrow, with proofs of each.

Next, in this order:

1. `Instructions` over `AgentSpendPolicy`: the off-chain counter and the
   on-chain count of one agent.
2. `verify-then-pay` over `X402Settlement`.
3. `ActionPolicy` (policy engine v2) and `RateWindow` (rate budgets, the
   passkey relay's daily budget): pure evaluation as operators against a
   reference definition.
4. `x402-algorand` and the gateway rail, as further implementations of
   `PaidOnce`.
5. `MerkleAirdrop`, a claim-once contract.

## 7. Not modelled

* Formatting, routing and sessions; the web application, SDK and scripts; chain
  and ABI encoding; wallet provisioning; bridging, which is a sequence of
  operator-started external transactions; constant tables. These are most of the
  repository by lines, and hold no state whose changes interleave.
* Stateless verdicts over fetched signals (commerce checks, trust oracle,
  guardrail and feed, admission of owner-held vaults).
* Soroban: an archived configuration entry only makes calls fail until someone
  restores it, so the settings never age in the model.
* The parts of a modelled component that are left out are named in its `note` in
  `PROJECT.json`, as are the components of the plan above.
