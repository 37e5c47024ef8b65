---------------------------- MODULE MCConversations ----------------------------
(***************************************************************************)
(* One run for the two queues of the assistant, that of replies and that   *)
(* of documents, which share no state. The part is chosen in the initial   *)
(* state, where no handler of either has anything to do: the fairness of   *)
(* the part not chosen asks for nothing.                                   *)
(***************************************************************************)
EXTENDS Conversations, KnowledgeIngestion

CONSTANTS d1, d2, i1, i2

VARIABLE part

QueueVars == <<conversationVars, ingestionVars, part>>

QueuesInit == part \in {"replies", "documents"} /\ ConversationsInit /\ IngestionInit

QueuesNext ==
    /\ part' = part
    /\ \/ part = "replies" /\ ConversationsNext /\ UNCHANGED ingestionVars
       \/ part = "documents" /\ IngestionNext /\ UNCHANGED conversationVars

QueuesSpec ==
    /\ QueuesInit /\ [][QueuesNext]_QueueVars
    /\ ConversationsFairness /\ IngestionFairness

-----------------------------------------------------------------------------
QueuesTypeOK == ConversationsTypeOK /\ IngestionTypeOK

\* Every reply job is settled in the end, and every accepted document unless
\* something failed.
QueuesSettle == JobsSettle /\ AcceptedIsSettled
=============================================================================
