---------------------------- MODULE DeployerCalls ----------------------------
(***************************************************************************)
(* Contract calls that the deployer's wallet signs: swaps, registrations,  *)
(* mints, upgrades and changes of owner.  Every request signs on its own   *)
(* with the one key: account.execute asks the node for the wallet's nonce, *)
(* signs, and sends; the node takes one transaction per nonce.  Some       *)
(* operations then wait and throw if the transaction reverted, some wait   *)
(* and only log it, and some answer at once.                               *)
(***************************************************************************)
EXTENDS Integers, Sequences

CONSTANTS
    Calls,
    MaxRestarts     \* bound

DeployerAssumption == MaxRestarts \in Nat

VARIABLES
    call,           \* where each request is
    sent,           \* the calls of the accepted transactions, by nonce
    settled,        \* how many of them the chain has executed or reverted
    reverted,       \* those that reverted
    restarts

vars == <<call, sent, settled, reverted, restarts>>

(***************************************************************************)
(* Operations: what comes before the call, and what is made of its         *)
(* transaction once it is accepted.                                        *)
(***************************************************************************)
\* "check": getClassAt must answer with an ABI.  "refuse": uuidToFelt252 throws on a
\* symbol, so that the call is never made.
\* "throw": wait, and throw if the transaction reverted.  "log": wait, and log what
\* succeeded.  "answer": answer with the hash, or with nothing, at once.
swapFiatToToken            == [first |-> "call",   then |-> "throw"]
mintToken                  == [first |-> "call",   then |-> "throw"]
transferLiquidityOwnership == [first |-> "call",   then |-> "throw"]
transferFactoryOwnership   == [first |-> "call",   then |-> "throw"]
addSupportedToken          == [first |-> "call",   then |-> "log"]
registerUserToLiquidity    == [first |-> "check",  then |-> "log"]
upgradeLiquidityContract   == [first |-> "check",  then |-> "log"]
upgradePragmaOracleAddress == [first |-> "check",  then |-> "log"]
upgradeAccountFactory      == [first |-> "check",  then |-> "log"]
swapTokenToFiat            == [first |-> "call",   then |-> "answer"]
setAccountClassHash        == [first |-> "call",   then |-> "answer"]
addFiatToLiquidity         == [first |-> "refuse", then |-> "log"]
addTokenToLiquidity        == [first |-> "refuse", then |-> "log"]

Operations ==
    {swapFiatToToken, mintToken, transferLiquidityOwnership, transferFactoryOwnership,
     addSupportedToken, registerUserToLiquidity, upgradeLiquidityContract,
     upgradePragmaOracleAddress, upgradeAccountFactory, swapTokenToFiat,
     setAccountClassHash, addFiatToLiquidity, addTokenToLiquidity}

(***************************************************************************)
(* Requests.                                                               *)
(***************************************************************************)
\* An answer is "ok", or an error: "reverted", "nonce taken", or
\* "unsure" when the node refused or was not heard.
Answers == {"ok", "reverted", "nonce taken", "unsure"}

Idle == [op |-> swapFiatToToken, step |-> "idle", nonce |-> 0, before |-> {}]

TypeOK ==
    /\ call     \in [Calls ->
         {Idle} \cup [op : Operations, nonce : 0..Len(sent), before : SUBSET Calls,
                      step : {"class", "nonce", "send", "wait", "dead"} \cup Answers]]
    /\ sent     \in Seq(Calls)
    /\ settled  \in 0..Len(sent)
    /\ reverted \subseteq Calls
    /\ restarts \in 0..MaxRestarts

Init ==
    /\ call = [c \in Calls |-> Idle]
    /\ sent = <<>> /\ settled = 0 /\ reverted = {}
    /\ restarts = 0

\* Request c at another step, with the nonce it signs with.
Moved(c, to, n) ==
    [op |-> call[c].op, step |-> to, nonce |-> n, before |-> call[c].before]

Goes(c, to) == call' = [call EXCEPT ![c] = Moved(c, to, call[c].nonce)]
At(c, step) == call[c].step = step
Finished    == {c \in Calls : call[c].step \in Answers}
Settled(c)  == \E n \in 1..settled : sent[n] = c

Begin(c, op) ==
    /\ At(c, "idle")
    /\ call' = [call EXCEPT ![c] =
         [op |-> op, nonce |-> 0, before |-> Finished,
          step |-> CASE op.first = "refuse" -> "unsure"
                     [] op.first = "check"  -> "class"
                     [] op.first = "call"   -> "nonce"]]
    /\ UNCHANGED <<sent, settled, reverted, restarts>>

GetClassAt(c) ==
    /\ At(c, "class")
    /\ Goes(c, "nonce") \/ Goes(c, "unsure")
    /\ UNCHANGED <<sent, settled, reverted, restarts>>

\* The node counts the transactions that are in a block.
GetNonce(c) ==
    /\ At(c, "nonce")
    /\ \/ call' = [call EXCEPT ![c] = Moved(c, "send", settled)]
       \/ Goes(c, "unsure")
    /\ UNCHANGED <<sent, settled, reverted, restarts>>

\* Mutant: an operation that only logs what became of its transaction does not wait.
SendAndGo(c) ==
    /\ At(c, "send")
    /\ IF call[c].nonce < Len(sent)
       THEN Goes(c, "nonce taken") /\ UNCHANGED sent
       ELSE sent' = Append(sent, c) /\ Goes(c, IF call[c].op.then = "throw" THEN "wait" ELSE "ok")
    /\ UNCHANGED <<settled, reverted, restarts>>

\* account.execute: one transaction per nonce; it may be refused for other reasons,
\* and the answer may be lost.
Send(c) ==
    /\ At(c, "send")
    /\ IF call[c].nonce < Len(sent)
       THEN Goes(c, "nonce taken") /\ UNCHANGED sent
       ELSE \/ /\ sent' = Append(sent, c)
               /\ Goes(c, IF call[c].op.then = "answer" THEN "ok" ELSE "wait") \/ Goes(c, "unsure")
            \/ Goes(c, "unsure") /\ UNCHANGED sent
    /\ UNCHANGED <<settled, reverted, restarts>>

\* waitForTransaction: settled, or the node stops answering.
Wait(c) ==
    /\ At(c, "wait")
    /\ \/ /\ Settled(c)
          /\ Goes(c, IF c \in reverted /\ call[c].op.then = "throw" THEN "reverted" ELSE "ok")
       \/ Goes(c, "unsure")
    /\ UNCHANGED <<sent, settled, reverted, restarts>>

\* The chain takes the transactions in the order of their nonces.
Settle ==
    /\ settled < Len(sent)
    /\ settled' = settled + 1
    /\ reverted' \in {reverted, reverted \cup {sent[settled + 1]}}
    /\ UNCHANGED <<call, sent, restarts>>

Restart ==
    /\ restarts < MaxRestarts
    /\ restarts' = restarts + 1
    /\ call' = [c \in Calls |-> IF call[c].step \in {"idle"} \cup Answers THEN call[c]
                                ELSE Moved(c, "dead", call[c].nonce)]
    /\ UNCHANGED <<sent, settled, reverted>>

Next ==
    \/ \E c \in Calls :
         \/ \E op \in Operations : Begin(c, op)
         \/ GetClassAt(c) \/ GetNonce(c) \/ Send(c) \/ Wait(c)
    \/ Settle
    \/ Restart

Spec == Init /\ [][Next]_vars

(***************************************************************************)
(* Properties.                                                             *)
(***************************************************************************)

\* What a client is told is true: a call that was answered "ok" is settled, and did
\* not revert if it is one that throws, unless it is answered without waiting; and a
\* call refused for its nonce collided with one that was not answered yet when it
\* began, or whose transaction nobody waited for.  One call at a time is never
\* refused, as long as the one before was waited for.
AnswersAreTrue ==
    \A c \in Calls :
      /\ At(c, "ok") /\ call[c].op.then # "answer" =>
           /\ Settled(c)
           /\ call[c].op.then = "throw" => c \notin reverted
      /\ At(c, "nonce taken") =>
           LET winner == sent[call[c].nonce + 1]
           IN  \/ winner \notin call[c].before
               \/ call[winner].op.then = "answer"
               \/ At(winner, "unsure")

=============================================================================
