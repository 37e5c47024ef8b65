----------------------------- MODULE Conversations -----------------------------
(***************************************************************************)
(* One conversation of the shared inbox: the contact's messages, the AI    *)
(* replies generated from a JetStream queue (or in-process when the queue  *)
(* cannot be reached), and the agent who answers or toggles the AI. The two *)
(* channels differ in what they do about a message they have seen and      *)
(* about a failure while replying. Faults: the platform delivers again     *)
(* ("repost"), the queue refuses ("queue") or waits too long for an        *)
(* acknowledgement ("ackwait"), the conversation's AI state cannot be read *)
(* ("lookup") or written ("mark"), the provider fails or its answer is     *)
(* lost, the reply is not recorded, its echo comes, the process dies.      *)
(***************************************************************************)
EXTENDS Naturals, FiniteSets, Sequences

CONSTANTS
    Channels, FaultKinds,
    MaxFaults,     \* bound: faults, each kind at most once
    MaxInbound,    \* bound: messages the contact sends
    MaxCalls,      \* bound: requests of the agent
    HistoryLimit,  \* ListMessages' limit for the prompt
    MaxDeliver     \* deliveries of a reply job

ASSUME ConversationsAssumption ==
    /\ {MaxFaults, MaxInbound, MaxCalls, HistoryLimit} \subseteq Nat
    /\ MaxDeliver \in Nat \ {0}

VARIABLES
    channel, \* conversations.channel
    conv,    \* ai_state, ai_paused_until, needs_human_attention
    inbox,   \* the platform ids of messages, by created_at
    out,     \* what was sent to the contact
    arrived, \* how many messages the contact has sent
    intake,  \* the webhook or session event being handled
    queue,   \* ai.reply.requested
    job,     \* the queue worker and the in-process fallback
    call,    \* the agent's request
    calls, faults,
    late     \* replies the AI has sent since it was last silenced

conversationVars ==
    <<channel, conv, inbox, out, arrived, intake, queue, job, call, calls, faults, late>>

Runners == {"worker", "fallback"}
Free == [pc |-> "free"]

AIStates == {"active", "paused_by_human", "disabled", "escalated"}
Silenced(c) == c.ai = "disabled" \/ (c.ai = "paused_by_human" /\ c.pause = "running")

ConversationsInit ==
    /\ channel \in Channels
    /\ conv = [ai |-> "active", pause |-> "none", needsHuman |-> FALSE]
    /\ inbox = <<>> /\ out = <<>> /\ queue = <<>>
    /\ arrived = 0 /\ calls = 0 /\ late = 0
    /\ intake = Free /\ call = Free
    /\ job = [p \in Runners |-> Free]
    /\ faults = {}

Fault(kind) ==
    /\ kind \in FaultKinds \ faults
    /\ Cardinality(faults) < MaxFaults
    /\ faults' = faults \cup {kind}

-----------------------------------------------------------------------------
(* The repository *)

Recorded(key) == \E n \in DOMAIN inbox : inbox[n] = key

\* A platform message id is recorded once.
CreateMessage(key) == inbox' = IF Recorded(key) THEN inbox ELSE Append(inbox, key)

SetConversationAIState(state, pause, needsHuman) ==
    conv' = [ai |-> state, pause |-> pause, needsHuman |-> needsHuman]

\* Where the error of that statement is ignored.
MarkConversation(state, pause, needsHuman) ==
    \/ SetConversationAIState(state, pause, needsHuman) /\ faults' = faults
    \/ Fault("mark") /\ conv' = conv

\* Ordered by created_at, from the beginning.
ListMessages == [n \in DOMAIN inbox \cap 1..HistoryLimit |-> inbox[n]]

-----------------------------------------------------------------------------
(* A message arrives: record it, count it, ask for a reply *)

Receive(i) ==
    /\ intake = Free
    /\ \/ /\ i = arrived + 1 /\ i <= MaxInbound
          /\ arrived' = i /\ faults' = faults
       \/ /\ i \in 1..arrived /\ Fault("repost")
          /\ arrived' = arrived
    /\ intake' = [pc |-> "record", msg |-> i, created |-> FALSE]
    /\ UNCHANGED <<channel, conv, inbox, out, queue, job, call, calls, late>>

RecordInbound ==
    /\ intake.pc = "record"
    /\ LET new == ~Recorded(<<"in", intake.msg>>) IN
       /\ CreateMessage(<<"in", intake.msg>>)
       /\ intake' = [pc |-> "request", msg |-> intake.msg, created |-> new]
    /\ UNCHANGED <<channel, conv, out, arrived, queue, job, call, calls, faults, late>>

\* Mistaken variant, for mutation: the session handler queues duplicates too.
WantsReplyAlways == TRUE

\* The Telegram webhook does not look at what CreateMessage answered.
WantsReply == channel = "telegram" \/ intake.created

Begun(msg, tries) ==
    [pc |-> "state", msg |-> msg, tries |-> tries, history |-> <<>>, needsHuman |-> FALSE, sent |-> 0]

Begin(p, msg, tries) == job' = [job EXCEPT ![p] = Begun(msg, tries)]

EnqueueAIReply ==
    /\ intake.pc = "request"
    /\ intake' = Free
    /\ IF ~WantsReply THEN UNCHANGED <<queue, job, faults>>
       ELSE LET stored == Append(queue, [msg |-> intake.msg, tries |-> 0]) IN
            \/ queue' = stored /\ UNCHANGED <<job, faults>>
            \/ /\ Fault("queue") /\ job["fallback"] = Free
               /\ queue' \in {queue, stored}
               /\ Begin("fallback", intake.msg, MaxDeliver)
    /\ UNCHANGED <<channel, conv, inbox, out, arrived, call, calls, late>>

-----------------------------------------------------------------------------
(* A reply job: may the AI speak, what has been said, send, record, escalate *)

\* The callback works on one job at a time.
TakeJob ==
    /\ queue # <<>> /\ job["worker"] = Free
    /\ Begin("worker", Head(queue).msg, Head(queue).tries + 1)
    /\ queue' = Tail(queue)
    /\ UNCHANGED <<channel, conv, inbox, out, arrived, intake, call, calls, faults, late>>

\* A job that waits behind others in the client, or is worked on, for longer than
\* AckWait is delivered once more. (Each copy counts its deliveries on from here.)
AckWaitElapses ==
    /\ Fault("ackwait")
    /\ \E j \in {[msg |-> queue[n].msg, tries |-> queue[n].tries + 1] : n \in DOMAIN queue}
             \cup (IF job["worker"] = Free THEN {}
                   ELSE {[msg |-> job["worker"].msg, tries |-> job["worker"].tries]}) :
          j.tries < MaxDeliver /\ queue' = Append(queue, j)
    /\ UNCHANGED <<channel, conv, inbox, out, arrived, intake, job, call, calls, late>>

\* Mistaken variant, for mutation: an acknowledged job stays in the stream.
AckNot(p) ==
    /\ job' = [job EXCEPT ![p] = Free]
    /\ queue' = Append(queue, [msg |-> job[p].msg, tries |-> 0])

Ack(p) == job' = [job EXCEPT ![p] = Free] /\ queue' = queue

\* Mistaken variant, for mutation: a refused delivery counts twice.
NakCountsTwice(p) ==
    /\ job' = [job EXCEPT ![p] = Free]
    /\ queue' = IF p = "worker" /\ job[p].tries < MaxDeliver
                THEN Append(queue, [msg |-> job[p].msg, tries |-> job[p].tries + 1]) ELSE queue

\* Nothing retries what runs in-process.
Nak(p) ==
    /\ job' = [job EXCEPT ![p] = Free]
    /\ queue' = IF p = "worker" /\ job[p].tries < MaxDeliver
                THEN Append(queue, [msg |-> job[p].msg, tries |-> job[p].tries]) ELSE queue

\* The Telegram job reports nothing back to the queue.
JobFails(p) == IF channel = "telegram" THEN Ack(p) ELSE Nak(p)

To(p, pc) == job' = [job EXCEPT ![p].pc = pc] /\ queue' = queue

\* Mistaken variant, for mutation: only the escalation is respected.
MayReplyUnlessEscalated(c) == c.ai # "escalated" /\ ~c.needsHuman

\* Mistaken variant, for mutation: a flagged conversation is answered.
MayReplyUnlessSilenced(c) == ~Silenced(c)

MayReply(c) ==
    ~Silenced(c) /\ (c.ai = "paused_by_human" \/ ~(c.ai = "escalated" \/ c.needsHuman))

\* The workspace's switch, mode and hours may forbid a reply too. A state that
\* cannot be read forbids nothing.
CheckAIState(p) ==
    /\ job[p].pc = "state"
    /\ \/ Ack(p) /\ faults' = faults
       \/ /\ MayReply(conv) /\ faults' = faults
          /\ To(p, IF conv.ai = "paused_by_human" THEN "resume" ELSE "history")
       \/ Fault("lookup") /\ To(p, "history")
    /\ UNCHANGED <<channel, conv, inbox, out, arrived, intake, call, calls, late>>

\* Before the mode and the hours are looked at.
ResumeAI(p) ==
    /\ job[p].pc = "resume"
    /\ MarkConversation("active", "none", FALSE)
    /\ To(p, "history") \/ Ack(p)
    /\ UNCHANGED <<channel, inbox, out, arrived, intake, call, calls, late>>

ReadHistory(p) ==
    /\ job[p].pc = "history"
    /\ job' = [job EXCEPT ![p] =
                  [pc |-> "send", msg |-> @.msg, tries |-> @.tries, history |-> ListMessages,
                   needsHuman |-> @.needsHuman, sent |-> @.sent]]
    /\ UNCHANGED <<channel, conv, inbox, out, arrived, intake, queue, call, calls, faults, late>>

Sent(by, msg) == Append(out, [by |-> by, answers |-> msg])

\* The reply may ask for a human, or be empty. What it is generated from cannot be
\* read or a provider fails, or the provider's answer is lost.
GenerateAndSend(p) ==
    /\ job[p].pc = "send"
    /\ \/ /\ out' = Sent("bot", job[p].msg) /\ late' = late + 1 /\ faults' = faults
          /\ \E needsHuman \in BOOLEAN :
                job' = [job EXCEPT ![p] =
                           [pc |-> "record", msg |-> @.msg, tries |-> @.tries, history |-> @.history,
                            needsHuman |-> needsHuman, sent |-> Len(out) + 1]]
          /\ queue' = queue
       \/ UNCHANGED <<out, late, faults>> /\ Ack(p)
       \/ Fault("provider") /\ UNCHANGED <<out, late>> /\ JobFails(p)
       \/ Fault("answer_lost") /\ out' = Sent("bot", job[p].msg) /\ late' = late + 1 /\ JobFails(p)
    /\ UNCHANGED <<channel, conv, inbox, arrived, intake, call, calls>>

\* On WhatsApp a reply that is not recorded, or was recorded by its echo, is
\* an error of the job.
RecordReply(p) ==
    /\ job[p].pc = "record"
    /\ LET key == <<"out", job[p].sent>> IN
       \/ /\ CreateMessage(key) /\ faults' = faults
          /\ IF Recorded(key) /\ channel = "whatsapp" THEN Nak(p) ELSE To(p, "escalate")
       \/ /\ Fault("record") /\ inbox' = inbox
          /\ IF channel = "whatsapp" THEN Nak(p) ELSE To(p, "escalate")
    /\ UNCHANGED <<channel, conv, out, arrived, intake, call, calls, late>>

Escalate(p) ==
    /\ job[p].pc = "escalate"
    /\ IF job[p].needsHuman THEN MarkConversation("escalated", "none", TRUE)
       ELSE UNCHANGED <<conv, faults>>
    /\ Ack(p)
    /\ UNCHANGED <<channel, inbox, out, arrived, intake, call, calls, late>>

-----------------------------------------------------------------------------
(* The agent *)

BeginCall(request) ==
    /\ call = Free /\ calls < MaxCalls
    /\ call' = request /\ calls' = calls + 1

SendReply ==
    /\ BeginCall([pc |-> "record", sent |-> Len(out) + 1])
    /\ out' = Sent("agent", 0)
    /\ UNCHANGED <<channel, conv, inbox, arrived, intake, queue, job, faults, late>>

\* An error here ends the request before the AI is paused.
RecordAgentReply ==
    /\ call.pc = "record"
    /\ LET key == <<"out", call.sent>> IN
       \/ /\ CreateMessage(key) /\ faults' = faults
          /\ call' = IF Recorded(key) THEN Free ELSE [call EXCEPT !.pc = "pause"]
       \/ Fault("record") /\ inbox' = inbox /\ call' = Free
    /\ UNCHANGED <<channel, conv, out, arrived, intake, queue, job, calls, late>>

PauseAI ==
    /\ call.pc = "pause"
    /\ MarkConversation("paused_by_human", "running", FALSE)
    /\ late' = IF faults' = faults THEN 0 ELSE late
    /\ call' = Free
    /\ UNCHANGED <<channel, inbox, out, arrived, intake, queue, job, calls>>

ToggleConversationAI(state) ==
    /\ call = Free /\ calls < MaxCalls
    /\ calls' = calls + 1
    /\ SetConversationAIState(state, IF state = "paused_by_human" THEN "running" ELSE "none", FALSE)
    /\ late' = 0
    /\ UNCHANGED <<channel, inbox, out, arrived, intake, queue, job, call, faults>>

-----------------------------------------------------------------------------
(* The platform, the clock, the process *)

\* The paired session hears of what it sent itself.
Echo(k) ==
    /\ channel = "whatsapp"
    /\ k \in DOMAIN out /\ ~Recorded(<<"out", k>>)
    /\ Fault("echo")
    /\ CreateMessage(<<"out", k>>)
    /\ UNCHANGED <<channel, conv, out, arrived, intake, queue, job, call, calls, late>>

PauseElapses ==
    /\ conv.pause = "running"
    /\ conv' = [conv EXCEPT !.pause = "over"]
    /\ UNCHANGED <<channel, inbox, out, arrived, intake, queue, job, call, calls, faults, late>>

\* An unacknowledged job is delivered again.
Crash ==
    /\ Fault("crash")
    /\ intake' = Free /\ call' = Free
    /\ IF job["worker"] = Free THEN job' = [p \in Runners |-> Free] /\ queue' = queue
       ELSE /\ job' = [p \in Runners |-> Free]
            /\ queue' = IF job["worker"].tries < MaxDeliver
                        THEN Append(queue, [msg |-> job["worker"].msg, tries |-> job["worker"].tries])
                        ELSE queue
    /\ UNCHANGED <<channel, conv, inbox, out, arrived, calls, late>>

Intake == (\E i \in 1..MaxInbound : Receive(i)) \/ RecordInbound \/ EnqueueAIReply

handleAIAutoResponse(p) ==
    \/ CheckAIState(p) \/ ResumeAI(p) \/ ReadHistory(p)
    \/ GenerateAndSend(p) \/ RecordReply(p) \/ Escalate(p)

Agent ==
    \/ SendReply \/ RecordAgentReply \/ PauseAI
    \/ \E state \in {"active", "paused_by_human", "disabled"} : ToggleConversationAI(state)

ConversationsNext ==
    \/ Intake \/ TakeJob \/ AckWaitElapses \/ Agent
    \/ \E p \in Runners : handleAIAutoResponse(p)
    \/ \E k \in DOMAIN out : Echo(k)
    \/ PauseElapses \/ Crash

ConversationsSpec == ConversationsInit /\ [][ConversationsNext]_conversationVars

\* The subscription's callback runs whenever a job is there.
ConversationsFairness ==
    /\ WF_conversationVars(TakeJob)
    /\ WF_conversationVars(handleAIAutoResponse("worker"))

ConversationsFairSpec == ConversationsSpec /\ ConversationsFairness

-----------------------------------------------------------------------------
ConversationsTypeOK ==
    /\ conv \in [ai : AIStates, pause : {"none", "running", "over"}, needsHuman : BOOLEAN]
    /\ \A n \in DOMAIN inbox : inbox[n] \in ({"in"} \X (1..arrived)) \cup ({"out"} \X DOMAIN out)
    /\ \A n \in DOMAIN queue : queue[n].msg \in 1..arrived /\ queue[n].tries < MaxDeliver

Replies(i) == {k \in DOMAIN out : out[k].by = "bot" /\ out[k].answers = i}

\* A message the WhatsApp platform delivers again is not answered again, nor one
\* whose reply a provider refused. A job that waits longer than AckWait is.
AnsweredOnce ==
    channel = "whatsapp" /\ faults \subseteq {"repost", "provider"}
        => \A i \in 1..arrived : Cardinality(Replies(i)) <= 1

\* While an agent's silence stands, no more goes out than the reply that was
\* already being prepared (one by the worker, one by the fallback of a queue that
\* refused) and that of a job which could not read the state: each of these faults
\* happens once at most.
LateAtMost(fs) == 1 + (IF "queue" \in fs THEN 1 ELSE 0) + (IF "lookup" \in fs THEN 1 ELSE 0)

AtMostOneLate == Silenced(conv) => late <= LateAtMost(faults)

\* With replies prepared one at a time, and states that can be read, a
\* conversation that waits for a human gets no further reply.
EscalationStands ==
    [][conv.needsHuman /\ faults' \cap {"queue", "lookup"} = {}
       => \A k \in DOMAIN out' \ DOMAIN out : out'[k].by # "bot"]_conversationVars

\* Every reply job is settled in the end.
JobsSettle == []<>(queue = <<>> /\ job["worker"] = Free)

\* The AI does not speak over an agent: it sends nothing while the agent's
\* silence stands.
NeverSpeaksOver ==
    [][Silenced(conv) => \A k \in DOMAIN out' \ DOMAIN out : out'[k].by # "bot"]_conversationVars

\* A reply is generated from the last messages of the conversation.
PromptHasLatest ==
    \A p \in Runners : job[p].pc = "send" /\ job[p].history # <<>> =>
        \E n \in DOMAIN job[p].history : job[p].history[n] = <<"in", job[p].msg>>
=============================================================================
