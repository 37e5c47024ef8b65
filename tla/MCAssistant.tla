------------------------------ MODULE MCAssistant ------------------------------
(***************************************************************************)
(* One run for the message store, the assistant's settings, knowledge and  *)
(* documents, billing, and a campaign's receipts: parts that share nothing.*)
(* The part is chosen in the initial state, the others stay as they begin, *)
(* but for the parts that begin in many states: of those only the part     *)
(* chosen does.                                                            *)
(***************************************************************************)
EXTENDS InboxMessages, KnowledgeBase, AssistantReplies, KnowledgeChunks,
        Billing, ReceiptTransactions

CONSTANTS a1, b1, k1, k2, t1, t2, t3, c1

VARIABLE part

OwnRows == [t \in Targets |-> t]

Same == Permutations({k1, k2})

AssistantVars == <<messageVars, baseVars, replyVars, chunkVars, billingVars, receiptVars, part>>

AssistantInit ==
    /\ part \in {"messages", "knowledge", "replies", "chunks", "billing", "receipts"}
    /\ MessagesInit /\ BaseInit /\ RepliesInit /\ ChunksInit
    /\ BillingInit /\ ReceiptInit
    /\ part # "chunks" => length = 0
    /\ part # "receipts" => \A r \in due : r.outcome = "delivered"

AssistantNext ==
    /\ part' = part
    /\ \/ /\ part = "messages" /\ MessagesNext
          /\ UNCHANGED <<baseVars, replyVars, chunkVars, billingVars, receiptVars>>
       \/ /\ part = "knowledge" /\ BaseNext
          /\ UNCHANGED <<messageVars, replyVars, chunkVars, billingVars, receiptVars>>
       \/ /\ part = "replies" /\ RepliesNext
          /\ UNCHANGED <<messageVars, baseVars, chunkVars, billingVars, receiptVars>>
       \/ /\ part = "chunks" /\ ChunksNext
          /\ UNCHANGED <<messageVars, baseVars, replyVars, billingVars, receiptVars>>
       \/ /\ part = "billing" /\ BillingNext
          /\ UNCHANGED <<messageVars, baseVars, replyVars, chunkVars, receiptVars>>
       \/ /\ part = "receipts" /\ ReceiptNext
          /\ UNCHANGED <<messageVars, baseVars, replyVars, chunkVars, billingVars>>

AssistantSpec == AssistantInit /\ [][AssistantNext]_AssistantVars

-----------------------------------------------------------------------------
AssistantTypeOK == MessagesTypeOK /\ BaseTypeOK /\ RepliesTypeOK /\ ChunksTypeOK /\ BillingTypeOK
=============================================================================
