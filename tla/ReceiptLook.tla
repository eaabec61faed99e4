----------------------------- MODULE ReceiptLook -----------------------------
(* One look at a transaction sent earlier, over hosts that lag behind the   *)
(* chain and may not serve transactions or receipts: whether it settled at  *)
(* the depth the chain asks for, and whether it can never land.             *)
(* Source: mcp/src/chains/evm/receipts.ts; its callers are receiptStatus    *)
(* (chains/evm/adapter.ts) and reconcileSettlementRow (x402-3009/engine.ts).*)
EXTENDS Naturals, Sequences

CONSTANTS Hosts,     \* the RPC hosts of the chain
          Settings,  \* what is known of the chain and its hosts
          MaxHeight, \* bound: blocks since the send
          MaxFail    \* bound: answers that do not come

Blocks == {"empty", "ours", "other"}  \* what a block does with our nonce

(* confirmations: the depth a receipt must have. reorg: the most blocks a   *)
(* reorg takes back. transactions, receipts: the hosts that serve them;     *)
(* some host serves one of the two.                                         *)
ASSUME LookAssumption ==
    /\ MaxHeight \in Nat /\ MaxFail \in Nat
    /\ Settings \subseteq [confirmations : Nat \ {0}, reorg : Nat,
                           transactions : SUBSET Hosts, receipts : SUBSET Hosts]
    /\ \A s \in Settings : s.transactions \cup s.receipts # {}

VARIABLES setting,  \* one of Settings
          chain,    \* the blocks since the send
          view,     \* what each host has of them
          step,     \* which question the look is asking
          asked,    \* the hosts that answered it
          block,    \* the block of the receipt that was found
          verdict,  \* what the look concluded
          moved,    \* history: a reorg took the transaction's block back
          failures  \* answers that did not come so far

look   == <<step, asked, block, verdict>>
ledger == <<chain, view, moved>>
vars   == <<setting, ledger, look, failures>>

Steps == {"idle", "receipt", "head", "counts", "transactions", "receipts"}

TypeOK ==
    /\ setting \in Settings
    /\ chain \in Seq(Blocks) /\ Len(chain) <= MaxHeight
    /\ view \in [Hosts -> Seq(Blocks)]
    /\ step \in Steps
    /\ asked \in SUBSET Hosts /\ (step = "idle" => asked = {})
    /\ block \in Nat
    /\ verdict \in {"none", "settled", "dropped"}
    /\ moved \in BOOLEAN
    /\ failures \in 0..MaxFail

Holds(c, b) == \E i \in DOMAIN c : c[i] = b
Used(c) == Holds(c, "ours") \/ Holds(c, "other")

Init ==
    /\ setting \in Settings
    /\ chain = <<>> /\ view = [h \in Hosts |-> <<>>] /\ moved = FALSE
    /\ step = "idle" /\ asked = {} /\ block = 0 /\ verdict = "none"
    /\ failures = 0

-----------------------------------------------------------------------------
(* The chain and the hosts.                                                 *)

(* A nonce is used once: by our transaction or by another of the signer.    *)
Mine ==
    /\ Len(chain) < MaxHeight
    /\ \E b \in Blocks : /\ b = "empty" \/ ~Used(chain)
                         /\ chain' = Append(chain, b)
    /\ UNCHANGED <<setting, view, moved, look, failures>>

Reorg ==
    /\ \E k \in 1..Len(chain), b \in Blocks :
          /\ Len(chain) - k < setting.reorg
          /\ b = "empty" \/ ~Used([chain EXCEPT ![k] = "empty"])
          /\ b # chain[k]
          /\ chain' = [chain EXCEPT ![k] = b]
    /\ moved' = (moved \/ (Holds(chain, "ours") /\ verdict # "settled"))
    /\ UNCHANGED <<setting, view, look, failures>>

CatchUp(h) ==
    /\ \E n \in Len(view[h])..Len(chain) :
          view' = [view EXCEPT ![h] = SubSeq(chain, 1, n)]
    /\ UNCHANGED <<setting, chain, moved, look, failures>>

-----------------------------------------------------------------------------
(* The look.                                                                *)

Ask(question) == step' = question /\ asked' = {}
Idle == Ask("idle") /\ UNCHANGED <<block, verdict>>
Conclude(v) == Ask("idle") /\ verdict' = v /\ UNCHANGED block

Look ==
    /\ step = "idle" /\ verdict = "none"
    /\ Ask("receipt")
    /\ UNCHANGED <<setting, ledger, block, verdict, failures>>

(* Mutant: a host with no receipt is believed, as by a fallback client.     *)
AskReceipt_Believes(h) ==
    /\ step = "receipt"
    /\ IF h \in setting.receipts /\ Holds(view[h], "ours")
       THEN /\ block' = CHOOSE i \in DOMAIN view[h] : view[h][i] = "ours"
            /\ IF setting.confirmations = 1
               THEN Ask("idle") /\ verdict' = "settled"
               ELSE Ask("head") /\ UNCHANGED verdict
       ELSE Ask("counts") /\ UNCHANGED <<block, verdict>>
    /\ UNCHANGED <<setting, ledger, failures>>

(* waitForReceiptOnEveryRpc: the receipt from the first host that has it.   *)
(* With none anywhere the look goes on to canNeverLand.                     *)
AskReceipt(h) ==
    /\ step = "receipt" /\ h \notin asked
    /\ IF h \in setting.receipts /\ Holds(view[h], "ours")
       THEN /\ block' = CHOOSE i \in DOMAIN view[h] : view[h][i] = "ours"
            /\ IF setting.confirmations = 1
               THEN Ask("idle") /\ verdict' = "settled"
               ELSE Ask("head") /\ UNCHANGED verdict
       ELSE /\ IF asked \cup {h} = Hosts
               THEN Ask("counts")
               ELSE asked' = asked \cup {h} /\ UNCHANGED step
            /\ UNCHANGED <<block, verdict>>
    /\ UNCHANGED <<setting, ledger, failures>>

(* Mutant: one block short of the depth asked for.                          *)
AskHead_Short(h) ==
    /\ step = "head"
    /\ IF Len(view[h]) + 1 >= block + setting.confirmations - 1
       THEN Conclude("settled")
       ELSE Idle
    /\ UNCHANGED <<setting, ledger, failures>>

(* The head, from whichever host answers.                                   *)
AskHead(h) ==
    /\ step = "head"
    /\ IF Len(view[h]) >= block + setting.confirmations - 1
       THEN Conclude("settled")
       ELSE Idle
    /\ UNCHANGED <<setting, ledger, failures>>

(* Mutant: the count of the first host that answers.                         *)
AskCount_First(h) ==
    /\ step = "counts"
    /\ IF Used(view[h]) THEN Ask("transactions") ELSE Ask("idle")
    /\ UNCHANGED <<setting, ledger, block, verdict, failures>>
(* canNeverLand asks every host for its confirmed count; one that has not   *)
(* passed the nonce ends it.                                                *)
AskCount(h) ==
    /\ step = "counts" /\ h \notin asked
    /\ IF ~Used(view[h])
       THEN Ask("idle")
       ELSE IF asked \cup {h} = Hosts
            THEN Ask("transactions")
            ELSE asked' = asked \cup {h} /\ UNCHANGED step
    /\ UNCHANGED <<setting, ledger, block, verdict, failures>>

(* hashOnEveryRpc asks every host for the transaction: a host that has it   *)
(* in its pool may say so, a host that has it mined says so if it serves    *)
(* transactions.                                                            *)
AskTransaction(h) ==
    /\ step = "transactions" /\ h \notin asked
    /\ \/ /\ ~Holds(view[h], "other")
          /\ Idle
       \/ /\ ~(h \in setting.transactions /\ Holds(view[h], "ours"))
          /\ IF asked \cup {h} = Hosts
             THEN Ask("receipts")
             ELSE asked' = asked \cup {h} /\ UNCHANGED step
          /\ UNCHANGED <<block, verdict>>
    /\ UNCHANGED <<setting, ledger, failures>>

(* Then for its receipt; with neither anywhere it can never land.           *)
AskReceipts(h) ==
    /\ step = "receipts" /\ h \notin asked
    /\ IF h \in setting.receipts /\ Holds(view[h], "ours")
       THEN Idle
       ELSE IF asked \cup {h} = Hosts
            THEN Conclude("dropped")
            ELSE asked' = asked \cup {h} /\ UNCHANGED <<step, block, verdict>>
    /\ UNCHANGED <<setting, ledger, failures>>

(* A host does not answer. Another may have the receipt or the head; the    *)
(* other three questions need every host.                                   *)
NoAnswer ==
    /\ step # "idle"
    /\ failures < MaxFail
    /\ failures' = failures + 1
    /\ \/ /\ step = "receipt"
          /\ \E h \in Hosts \ asked :
                IF asked \cup {h} = Hosts
                THEN Ask("counts")
                ELSE asked' = asked \cup {h} /\ UNCHANGED step
          /\ UNCHANGED <<block, verdict>>
       \/ Idle
    /\ UNCHANGED <<setting, ledger>>

Answer(h) ==
    \/ AskReceipt(h) \/ AskHead(h) \/ AskCount(h)
    \/ AskTransaction(h) \/ AskReceipts(h)

Next ==
    \/ Mine \/ Reorg \/ Look \/ NoAnswer
    \/ \E h \in Hosts : CatchUp(h) \/ Answer(h)

Spec == Init /\ [][Next]_vars

(* Blocks come, hosts catch up and answer, and somebody keeps looking.      *)
FairSpec == /\ Spec
            /\ WF_vars(Mine) /\ WF_vars(Look)
            /\ WF_vars(\E h \in Hosts : Answer(h))
            /\ \A h \in Hosts : WF_vars(CatchUp(h))

-----------------------------------------------------------------------------
(* A transaction said never to land is not on the chain and never gets      *)
(* there, whatever the hosts had not seen yet: what a second payment rests  *)
(* on (canNeverLand). On a chain that takes blocks back nothing is sure.    *)
DroppedIsTrue ==
    verdict = "dropped" /\ setting.reorg = 0 => Holds(chain, "other")

(* A payment taken for settled stays on the chain when the depth asked for  *)
(* is more than a reorg takes back, unless a reorg had already taken it     *)
(* back when the look read its receipt or the head.                         *)
SettledIsFinal ==
    verdict = "settled" /\ ~moved /\ setting.reorg < setting.confirmations
       => Holds(chain, "ours")

(* The same with no exception: receipts.ts says a reorg cannot deceive the  *)
(* wait and that a lagging host costs another round and nothing else.       *)
SettledIsFinalAlways ==
    verdict = "settled" /\ setting.reorg < setting.confirmations
       => Holds(chain, "ours")

(* Once the nonce is used as deep as the chain asks for, a look says what   *)
(* became of the transaction: no lagging host keeps it open for ever.       *)
Deep == \E i \in DOMAIN chain :
           chain[i] # "empty" /\ Len(chain) >= i + setting.confirmations - 1
FateIsKnown == Deep ~> verdict # "none"
=============================================================================
