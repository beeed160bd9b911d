----------------------------- MODULE MCChainCalls -----------------------------
(***************************************************************************)
(* Small instances of what surrounds a contract call: the conversion of    *)
(* its arguments (ContractArguments), the approval before it               *)
(* (TokenApproval) and the deployer's nonce under it (DeployerCalls).      *)
(* Each part has variables of its own; the run lets one of them work in    *)
(* each behaviour, instead of multiplying their states.                    *)
(***************************************************************************)
EXTENDS TokenApproval

CONSTANTS Base, IdLength, Cuts, Decimals, Word, MaxLength,     \* arguments
          Calls, MaxRestarts,                                  \* the deployer
          o1, w1

VARIABLES
    part,         \* the part at work
    text,
    call, sent, settled, reverted, restarts

MCCuts   == {2, 3}    \* a uuid of four digits reads dd-d-d
MCAmount == [o \in Orders |-> IF o = o1 THEN 2 ELSE 1]

\* w1 covers both orders, another wallet the smaller one.
MCTokens == [w \in Wallets |-> IF w = w1 THEN 3 ELSE 1]

Arguments == INSTANCE ContractArguments
Deployer  == INSTANCE DeployerCalls

ASSUME ArgumentBounds == Arguments!ArgumentsAssumption
ASSUME ApprovalBounds == ApprovalAssumption
ASSUME DeployerBounds == Deployer!DeployerAssumption

deployerVars == <<call, sent, settled, reverted, restarts>>
allVars      == <<part, text, vars, deployerVars>>

InitAll ==
    /\ part \in {"arguments", "approval", "deployer"}
    /\ Arguments!Init /\ Init /\ Deployer!Init

NextAll ==
    /\ UNCHANGED part
    /\ \/ part = "arguments" /\ Arguments!Write /\ UNCHANGED <<vars, deployerVars>>
       \/ part = "approval" /\ Next /\ UNCHANGED <<text, deployerVars>>
       \/ part = "deployer" /\ Deployer!Next /\ UNCHANGED <<text, vars>>

SpecAll == InitAll /\ [][NextAll]_allVars

(***************************************************************************)
(* The properties of each part; those of TokenApproval are checked by      *)
(* their own names.                                                        *)
(***************************************************************************)

\* The variables of approvals and calls keep their types.
TypesOK == TypeOK /\ Deployer!TypeOK

\* uuidToFelt252 and felt252ToUuid: the event of an order finds the order's row;
\* convertToWei, BigInt and bnToUint256: the amount written is the amount called with.
ArgumentsArrive == Arguments!IdentifierComesBack /\ Arguments!AmountArrives

\* executeTransaction and the deployer's calls: what is told about a call, in its audit
\* row or its answer, is what became of it.
AnswersAreTrue == Deployer!AnswersAreTrue /\ AuditIsTrue

=============================================================================
