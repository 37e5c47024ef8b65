------------------------------ MODULE QueueProofs ------------------------------
(***************************************************************************)
(* The queues of the assistant. Replies: what is sent while an agent's     *)
(* silence stands, after an escalation, and twice for one message, for any *)
(* number of messages, requests and deliveries. Documents: the lease under *)
(* which one worker at a time processes an upload, for any number of       *)
(* workers, uploads, redeliveries and faults.                              *)
(***************************************************************************)
EXTENDS MCConversations, FiniteSetTheorems, TLAPS

\* What has no two elements has one at most.
LEMMA AtMostOne ==
    ASSUME NEW S, \A v, w \in S : v = w
    PROVE  Cardinality(S) <= 1
<1>1. CASE S = {}
  BY <1>1, FS_EmptySet
<1>2. CASE S # {}
  <2>1. PICK w \in S : TRUE
    BY <1>2
  <2>2. S = {w}
    BY <2>1
  <2>3. Cardinality({w}) = 1
    BY FS_Singleton
  <2> QED  BY <2>2, <2>3
<1> QED  BY <1>1, <1>2

-----------------------------------------------------------------------------
(* The state of a conversation *)

Convs == [ai : AIStates, pause : {"none", "running", "over"}, needsHuman : BOOLEAN]
Keys(a, n) == ({"in"} \X (1..a)) \cup ({"out"} \X (1..n))
ReplyRequests(a) == [msg : 1..a, tries : 0..(MaxDeliver - 1)]
Sendings == [by : {"bot", "agent"}, answers : Nat]
Intakes(a) == {Free} \cup [pc : {"record", "request"}, msg : 1..a, created : BOOLEAN]
Requested(n) == {Free} \cup [pc : {"record", "pause"}, sent : 1..n]
Steps == {"state", "resume", "history", "send", "record", "escalate"}

\* A job is prepared for a message that has arrived; what it has read of the
\* conversation is of no account here.
JobOK(j, a, n) ==
    /\ j = [pc |-> j.pc, msg |-> j.msg, tries |-> j.tries, history |-> j.history,
            needsHuman |-> j.needsHuman, sent |-> j.sent]
    /\ j.pc \in Steps /\ j.msg \in 1..a /\ j.tries \in Nat /\ j.needsHuman \in BOOLEAN
    /\ j.sent \in 0..n /\ (j.pc = "record" => j.sent # 0)

JobsOK(jobs, a, n) ==
    /\ jobs = [p \in Runners |-> jobs[p]]
    /\ \A p \in Runners : jobs[p] = Free \/ JobOK(jobs[p], a, n)

ConversationShape ==
    /\ conv \in Convs
    /\ arrived \in Nat /\ late \in Nat
    /\ out \in Seq(Sendings)
    /\ inbox \in Seq(Keys(arrived, Len(out)))
    /\ queue \in Seq(ReplyRequests(arrived))
    /\ intake \in Intakes(arrived)
    /\ call \in Requested(Len(out))
    /\ JobsOK(job, arrived, Len(out))

LEMMA ShapeIsTyped == ConversationShape => ConversationsTypeOK
<1> SUFFICES ASSUME ConversationShape PROVE ConversationsTypeOK
  OBVIOUS
<1>1. DOMAIN inbox = 1..Len(inbox) /\ DOMAIN out = 1..Len(out) /\ DOMAIN queue = 1..Len(queue)
  BY DEF ConversationShape
<1>2. \A n \in 1..Len(inbox) : inbox[n] \in Keys(arrived, Len(out))
  BY DEF ConversationShape
<1>3. \A n \in 1..Len(queue) : queue[n] \in ReplyRequests(arrived)
  BY DEF ConversationShape
<1>4. \A r \in ReplyRequests(arrived) : r.msg \in 1..arrived /\ r.tries < MaxDeliver
  BY ConversationsAssumption DEF ReplyRequests
<1> QED
  BY <1>1, <1>2, <1>3, <1>4 DEF ConversationShape, ConversationsTypeOK, Convs, Keys

LEMMA ShapeStart == ConversationsInit => ConversationShape
BY DEF ConversationsInit, ConversationShape, Convs, AIStates, Intakes, Requested, JobsOK, Runners

-----------------------------------------------------------------------------
(* The types only grow with what has arrived and what was sent *)

LEMMA InboxGrows ==
    ASSUME NEW a \in Nat, NEW n \in Nat, NEW b \in Nat, NEW m \in Nat, a <= b, n <= m,
           NEW s \in Seq(Keys(a, n))
    PROVE  s \in Seq(Keys(b, m))
<1>1. Keys(a, n) \subseteq Keys(b, m)
  BY DEF Keys
<1> QED  BY <1>1

LEMMA QueueGrows ==
    ASSUME NEW a \in Nat, NEW b \in Nat, a <= b, NEW s \in Seq(ReplyRequests(a))
    PROVE  s \in Seq(ReplyRequests(b))
<1>1. ReplyRequests(a) \subseteq ReplyRequests(b)
  BY DEF ReplyRequests
<1> QED  BY <1>1

LEMMA JobsGrow ==
    ASSUME NEW a \in Nat, NEW n \in Nat, NEW b \in Nat, NEW m \in Nat, a <= b, n <= m,
           NEW jobs, JobsOK(jobs, a, n)
    PROVE  JobsOK(jobs, b, m)
BY DEF JobsOK, JobOK

LEMMA SentGrows ==
    ASSUME out \in Seq(Sendings), NEW by \in {"bot", "agent"}, NEW msg \in Nat
    PROVE  /\ Sent(by, msg) \in Seq(Sendings)
           /\ Len(Sent(by, msg)) = Len(out) + 1
           /\ \A k \in 1..Len(out) : Sent(by, msg)[k] = out[k]
           /\ Sent(by, msg)[Len(out) + 1] = [by |-> by, answers |-> msg]
BY DEF Sent, Sendings

LEMMA MessageIsKept ==
    ASSUME NEW a \in Nat, NEW n \in Nat, inbox \in Seq(Keys(a, n)), NEW key \in Keys(a, n),
           CreateMessage(key)
    PROVE  inbox' \in Seq(Keys(a, n))
BY DEF CreateMessage

-----------------------------------------------------------------------------
(* What happens to a job *)

LEMMA JobIsFreed ==
    ASSUME JobsOK(job, arrived, Len(out)), NEW p \in Runners, job' = [job EXCEPT ![p] = Free]
    PROVE  /\ JobsOK(job', arrived, Len(out)) /\ job'[p] = Free
           /\ \A q \in Runners \ {p} : job'[q] = job[q]
BY DEF JobsOK

LEMMA JobIsSet ==
    ASSUME NEW a, NEW n, JobsOK(job, a, n), NEW p \in Runners, NEW j, JobOK(j, a, n),
           job' = [job EXCEPT ![p] = j]
    PROVE  /\ JobsOK(job', a, n) /\ job'[p] = j
           /\ \A q \in Runners \ {p} : job'[q] = job[q]
BY DEF JobsOK

LEMMA JobGoesOn ==
    ASSUME JobsOK(job, arrived, Len(out)), NEW p \in Runners, job[p].pc \in Steps,
           NEW pc \in Steps \ {"record"}, job' = [job EXCEPT ![p].pc = pc]
    PROVE  /\ JobsOK(job', arrived, Len(out))
           /\ job'[p].pc = pc /\ job'[p].msg = job[p].msg /\ job'[p].sent = job[p].sent
           /\ \A q \in Runners \ {p} : job'[q] = job[q]
<1>1. JobOK(job[p], arrived, Len(out))
  BY DEF JobsOK, Free, Steps
<1> DEFINE next == [job[p] EXCEPT !.pc = pc]
<1>2. JobOK(next, arrived, Len(out))
  BY <1>1 DEF JobOK
<1>3. next.pc = pc /\ next.msg = job[p].msg /\ next.sent = job[p].sent
  BY <1>1 DEF JobOK
<1>4. job' = [job EXCEPT ![p] = next]
  OBVIOUS
<1> HIDE DEF next
<1>5. /\ JobsOK(job', arrived, Len(out)) /\ job'[p] = next
      /\ \A q \in Runners \ {p} : job'[q] = job[q]
  BY <1>2, <1>4, JobIsSet
<1> QED  BY <1>3, <1>5

LEMMA JobBegins ==
    ASSUME NEW msg \in 1..arrived, NEW tries \in Nat, arrived \in Nat, NEW n \in Nat
    PROVE  JobOK(Begun(msg, tries), arrived, n)
BY DEF JobOK, Begun, Steps

LEMMA JobIsRefused ==
    ASSUME ConversationShape, NEW p \in Runners, job[p].pc \in Steps, Nak(p) \/ Ack(p)
    PROVE  /\ JobsOK(job', arrived, Len(out)) /\ job'[p] = Free
           /\ \A q \in Runners \ {p} : job'[q] = job[q]
           /\ queue' \in Seq(ReplyRequests(arrived))
           /\ \/ queue' = queue
              \/ queue' = Append(queue, [msg |-> job[p].msg, tries |-> job[p].tries])
<1>1. JobOK(job[p], arrived, Len(out))
  BY DEF ConversationShape, JobsOK, Free, Steps
<1>2. job' = [job EXCEPT ![p] = Free]
  BY DEF Nak, Ack
<1>3. \/ queue' = queue
      \/ /\ queue' = Append(queue, [msg |-> job[p].msg, tries |-> job[p].tries])
         /\ job[p].tries < MaxDeliver
  BY DEF Nak, Ack
<1>4. job[p].tries < MaxDeliver => [msg |-> job[p].msg, tries |-> job[p].tries] \in ReplyRequests(arrived)
  BY <1>1, ConversationsAssumption DEF JobOK, ReplyRequests
<1>5. queue' \in Seq(ReplyRequests(arrived))
  <2> DEFINE again == [msg |-> job[p].msg, tries |-> job[p].tries]
  <2>1. queue' = queue \/ (queue' = Append(queue, again) /\ again \in ReplyRequests(arrived))
    BY <1>3, <1>4
  <2>2. queue \in Seq(ReplyRequests(arrived))
    BY DEF ConversationShape
  <2> HIDE DEF again
  <2> QED  BY <2>1, <2>2
<1> QED  BY <1>2, <1>3, <1>5, JobIsFreed DEF ConversationShape

LEMMA ShapeStep ==
    ASSUME ConversationShape, [ConversationsNext]_conversationVars
    PROVE  ConversationShape'
<1> DEFINE n == Len(out)
<1>0. n \in Nat
  BY DEF ConversationShape
<1> USE DEF ConversationShape
<1>1. CASE UNCHANGED conversationVars
  BY <1>1 DEF conversationVars
<1>2. ASSUME NEW i \in 1..MaxInbound, Receive(i)
      PROVE  ConversationShape'
  <2>1. UNCHANGED <<conv, inbox, out, queue, job, call, late>>
    BY <1>2 DEF Receive
  <2>2. arrived' \in Nat /\ arrived <= arrived' /\ i \in 1..arrived'
    BY <1>2 DEF Receive
  <2>3. intake' \in Intakes(arrived')
    BY <1>2, <2>2 DEF Receive, Intakes
  <2>4. /\ inbox \in Seq(Keys(arrived', n)) /\ queue \in Seq(ReplyRequests(arrived'))
        /\ JobsOK(job, arrived', n)
    BY <1>0, <2>2, InboxGrows, QueueGrows, JobsGrow
  <2> QED  BY <2>1, <2>2, <2>3, <2>4
<1>3. CASE RecordInbound
  <2>1. UNCHANGED <<conv, out, arrived, queue, job, call, late>>
    BY <1>3 DEF RecordInbound
  <2>2. intake.msg \in 1..arrived /\ <<"in", intake.msg>> \in Keys(arrived, n)
    BY <1>3 DEF RecordInbound, Intakes, Free, Keys
  <2>3. inbox' \in Seq(Keys(arrived, n))
    BY <1>0, <1>3, <2>2, MessageIsKept DEF RecordInbound
  <2>4. intake' \in Intakes(arrived)
    <3>1. (~Recorded(<<"in", intake.msg>>)) \in BOOLEAN
      BY DEF Recorded
    <3> QED  BY <1>3, <2>2, <3>1 DEF RecordInbound, Intakes
  <2> QED  BY <2>1, <2>3, <2>4
<1>4. CASE EnqueueAIReply
  <2>1. UNCHANGED <<conv, inbox, out, arrived, call, late>> /\ intake' \in Intakes(arrived)
    BY <1>4 DEF EnqueueAIReply, Intakes
  <2>2. intake.msg \in 1..arrived
    BY <1>4 DEF EnqueueAIReply, Intakes, Free
  <2> DEFINE request == [msg |-> intake.msg, tries |-> 0]
  <2>3. request \in ReplyRequests(arrived)
    BY <2>2, ConversationsAssumption DEF ReplyRequests
  <2>4. queue' = queue \/ queue' = Append(queue, request)
    BY <1>4 DEF EnqueueAIReply
  <2> HIDE DEF request
  <2>5. queue' \in Seq(ReplyRequests(arrived))
    BY <2>3, <2>4
  <2>6. job' = job \/ job' = [job EXCEPT !["fallback"] = Begun(intake.msg, MaxDeliver)]
    BY <1>4 DEF EnqueueAIReply, Begin
  <2>7. JobsOK(job', arrived, n)
    BY <1>0, <2>2, <2>6, JobBegins, JobIsSet, ConversationsAssumption DEF Runners
  <2> QED  BY <2>1, <2>5, <2>7
<1>5. CASE TakeJob
  <2>1. UNCHANGED <<conv, inbox, out, arrived, intake, call, late>>
    BY <1>5 DEF TakeJob
  <2>2. queue # <<>> /\ queue' = Tail(queue) /\ Head(queue) \in ReplyRequests(arrived)
        /\ queue' \in Seq(ReplyRequests(arrived))
    BY <1>5 DEF TakeJob
  <2> DEFINE request == Head(queue)
  <2>3. request \in ReplyRequests(arrived)
    BY <2>2
  <2>4. job' = [job EXCEPT !["worker"] = Begun(request.msg, request.tries + 1)]
    BY <1>5 DEF TakeJob, Begin
  <2> HIDE DEF request
  <2>5. request.msg \in 1..arrived /\ request.tries + 1 \in Nat
    BY <2>3, ConversationsAssumption DEF ReplyRequests
  <2>6. JobOK(Begun(request.msg, request.tries + 1), arrived, n)
    BY <1>0, <2>5, JobBegins
  <2>7. JobsOK(job', arrived, n)
    BY <2>4, <2>6, JobIsSet DEF Runners
  <2> QED  BY <2>1, <2>2, <2>7
<1>6. ASSUME NEW p \in Runners, CheckAIState(p)
      PROVE  ConversationShape'
  <2>1. UNCHANGED <<conv, inbox, out, arrived, intake, call, late>> /\ job[p].pc \in Steps
    BY <1>6 DEF CheckAIState, Steps
  <2>2. CASE Ack(p)
    BY <2>1, <2>2, JobIsRefused
  <2>3. CASE \E pc \in {"resume", "history"} : To(p, pc)
    BY <2>1, <2>3, JobGoesOn DEF To, Steps
  <2> QED  BY <1>6, <2>2, <2>3 DEF CheckAIState
<1>7. ASSUME NEW p \in Runners, ResumeAI(p)
      PROVE  ConversationShape'
  <2>1. UNCHANGED <<inbox, out, arrived, intake, call, late>> /\ job[p].pc \in Steps
    BY <1>7 DEF ResumeAI, Steps
  <2>2. conv' \in Convs
    <3>1. conv' = conv \/ conv' = [ai |-> "active", pause |-> "none", needsHuman |-> FALSE]
      BY <1>7 DEF ResumeAI, MarkConversation, SetConversationAIState
    <3>2. [ai |-> "active", pause |-> "none", needsHuman |-> FALSE] \in Convs
      BY DEF Convs, AIStates
    <3> QED  BY <3>1, <3>2
  <2>3. CASE Ack(p)
    BY <2>1, <2>2, <2>3, JobIsRefused
  <2>4. CASE To(p, "history")
    <3>1. JobsOK(job', arrived, n) /\ queue' = queue
      BY <2>1, <2>4, JobGoesOn DEF To, Steps
    <3> QED  BY <2>1, <2>2, <3>1
  <2> QED  BY <1>7, <2>3, <2>4 DEF ResumeAI
<1>8. ASSUME NEW p \in Runners, ReadHistory(p)
      PROVE  ConversationShape'
  <2>1. UNCHANGED <<conv, inbox, out, arrived, intake, queue, call, late>>
    BY <1>8 DEF ReadHistory
  <2>2. JobOK(job[p], arrived, n)
    BY <1>8 DEF ReadHistory, JobsOK, Free
  <2> DEFINE j == [pc |-> "send", msg |-> job[p].msg, tries |-> job[p].tries,
                   history |-> ListMessages, needsHuman |-> job[p].needsHuman,
                   sent |-> job[p].sent]
  <2>3. job' = [job EXCEPT ![p] = j]
    BY <1>8 DEF ReadHistory
  <2>4. JobOK(j, arrived, n)
    BY <2>2 DEF JobOK, Steps
  <2> HIDE DEF j
  <2>5. JobsOK(job', arrived, n)
    BY <2>3, <2>4, JobIsSet
  <2> QED  BY <2>1, <2>5
<1>9. ASSUME NEW p \in Runners, GenerateAndSend(p)
      PROVE  ConversationShape'
  <2>1. UNCHANGED <<conv, inbox, arrived, intake, call>> /\ job[p].pc \in Steps
    BY <1>9 DEF GenerateAndSend, Steps
  <2>2. JobOK(job[p], arrived, n)
    BY <1>9 DEF GenerateAndSend, JobsOK, Free
  <2>3. CASE UNCHANGED <<out, late>> /\ (JobFails(p) \/ Ack(p))
    BY <2>1, <2>3, JobIsRefused DEF JobFails
  <2>4. CASE out' = Sent("bot", job[p].msg) /\ late' = late + 1
    <3>1. out' \in Seq(Sendings) /\ Len(out') = n + 1 /\ late' \in Nat
      <4>1. job[p].msg \in Nat
        BY <2>2 DEF JobOK
      <4>2. Sent("bot", job[p].msg) \in Seq(Sendings) /\ Len(Sent("bot", job[p].msg)) = n + 1
        BY <4>1, SentGrows
      <4> QED  BY <2>4, <4>2
    <3>2. queue' \in Seq(ReplyRequests(arrived)) /\ JobsOK(job', arrived, n + 1)
      <4>1. CASE JobFails(p)
        <5>1. JobsOK(job', arrived, n) /\ queue' \in Seq(ReplyRequests(arrived))
          BY <2>1, <4>1, JobIsRefused DEF JobFails
        <5> QED  BY <1>0, <5>1, JobsGrow
      <4>2. CASE queue' = queue /\ \E needsHuman \in BOOLEAN : job' = [job EXCEPT ![p] =
                    [pc |-> "record", msg |-> @.msg, tries |-> @.tries, history |-> @.history,
                     needsHuman |-> needsHuman, sent |-> Len(out) + 1]]
        <5>1. PICK needsHuman \in BOOLEAN : job' = [job EXCEPT ![p] =
                    [pc |-> "record", msg |-> @.msg, tries |-> @.tries, history |-> @.history,
                     needsHuman |-> needsHuman, sent |-> Len(out) + 1]]
          BY <4>2
        <5> DEFINE j == [pc |-> "record", msg |-> job[p].msg, tries |-> job[p].tries,
                         history |-> job[p].history, needsHuman |-> needsHuman,
                         sent |-> Len(out) + 1]
        <5>2. job' = [job EXCEPT ![p] = j]
          BY <5>1
        <5>3. JobOK(j, arrived, n + 1)
          BY <1>0, <2>2 DEF JobOK, Steps
        <5>4. JobsOK(job, arrived, n + 1)
          BY <1>0, JobsGrow
        <5> HIDE DEF j
        <5>5. JobsOK(job', arrived, n + 1)
          BY <5>2, <5>3, <5>4, JobIsSet
        <5> QED  BY <4>2, <5>5
      <4> QED  BY <1>9, <2>4, <4>1, <4>2 DEF GenerateAndSend
    <3>3. inbox \in Seq(Keys(arrived, n + 1)) /\ call \in Requested(n + 1)
      BY <1>0, InboxGrows DEF Requested
    <3> QED  BY <2>1, <3>1, <3>2, <3>3
  <2> QED  BY <1>9, <2>3, <2>4 DEF GenerateAndSend
<1>10. ASSUME NEW p \in Runners, RecordReply(p)
       PROVE  ConversationShape'
  <2>1. UNCHANGED <<conv, out, arrived, intake, call, late>> /\ job[p].pc \in Steps
    BY <1>10 DEF RecordReply, Steps
  <2>2. JobOK(job[p], arrived, n)
    BY <1>10 DEF RecordReply, JobsOK, Free
  <2>3. Nak(p) \/ To(p, "escalate")
    BY <1>10 DEF RecordReply
  <2>4. JobsOK(job', arrived, n) /\ queue' \in Seq(ReplyRequests(arrived))
    BY <2>1, <2>3, JobIsRefused, JobGoesOn DEF To, Steps
  <2>5. inbox' \in Seq(Keys(arrived, n))
    <3>1. <<"out", job[p].sent>> \in Keys(arrived, n)
      BY <1>10, <2>2 DEF RecordReply, JobOK, Keys
    <3> QED  BY <1>0, <1>10, <3>1, MessageIsKept DEF RecordReply
  <2> QED  BY <2>1, <2>4, <2>5
<1>11. ASSUME NEW p \in Runners, Escalate(p)
       PROVE  ConversationShape'
  <2>1. UNCHANGED <<inbox, out, arrived, intake, call, late>> /\ job[p].pc \in Steps /\ Ack(p)
    BY <1>11 DEF Escalate, Steps
  <2>2. conv' \in Convs
    <3>1. conv' = conv \/ conv' = [ai |-> "escalated", pause |-> "none", needsHuman |-> TRUE]
      BY <1>11 DEF Escalate, MarkConversation, SetConversationAIState
    <3>2. [ai |-> "escalated", pause |-> "none", needsHuman |-> TRUE] \in Convs
      BY DEF Convs, AIStates
    <3> QED  BY <3>1, <3>2
  <2> QED  BY <2>1, <2>2, JobIsRefused
<1>12. CASE SendReply
  <2>1. UNCHANGED <<conv, inbox, arrived, intake, queue, job, late>>
    BY <1>12 DEF SendReply
  <2>2. out' \in Seq(Sendings) /\ Len(out') = n + 1
    BY <1>12, SentGrows DEF SendReply
  <2>3. call' \in Requested(n + 1)
    BY <1>0, <1>12 DEF SendReply, BeginCall, Requested
  <2>4. inbox \in Seq(Keys(arrived, n + 1)) /\ JobsOK(job, arrived, n + 1)
    BY <1>0, InboxGrows, JobsGrow
  <2> QED  BY <2>1, <2>2, <2>3, <2>4
<1>13. CASE RecordAgentReply
  <2>1. UNCHANGED <<conv, out, arrived, intake, queue, job, late>>
    BY <1>13 DEF RecordAgentReply
  <2>2. call \in [pc : {"record", "pause"}, sent : 1..n]
    BY <1>13 DEF RecordAgentReply, Requested, Free
  <2>3. inbox' \in Seq(Keys(arrived, n))
    <3>1. <<"out", call.sent>> \in Keys(arrived, n)
      BY <2>2 DEF Keys
    <3> QED  BY <1>0, <1>13, <3>1, MessageIsKept DEF RecordAgentReply
  <2>4. call' = Free \/ call' = [call EXCEPT !.pc = "pause"]
    BY <1>13 DEF RecordAgentReply
  <2>5. call' \in Requested(n)
    BY <2>2, <2>4 DEF Requested
  <2> QED  BY <2>1, <2>3, <2>5
<1>14. CASE PauseAI
  <2>1. UNCHANGED <<inbox, out, arrived, intake, queue, job>> /\ call' = Free /\ late' \in {0, late}
    BY <1>14 DEF PauseAI
  <2>2. conv' \in Convs
    <3>1. conv' = conv \/ conv' = [ai |-> "paused_by_human", pause |-> "running", needsHuman |-> FALSE]
      BY <1>14 DEF PauseAI, MarkConversation, SetConversationAIState
    <3>2. [ai |-> "paused_by_human", pause |-> "running", needsHuman |-> FALSE] \in Convs
      BY DEF Convs, AIStates
    <3> QED  BY <3>1, <3>2
  <2> QED  BY <2>1, <2>2 DEF Requested
<1>15. ASSUME NEW state \in {"active", "paused_by_human", "disabled"}, ToggleConversationAI(state)
       PROVE  ConversationShape'
  BY <1>15 DEF ToggleConversationAI, SetConversationAIState, Convs, AIStates
<1>16. ASSUME NEW k \in DOMAIN out, Echo(k)
       PROVE  ConversationShape'
  <2>1. UNCHANGED <<conv, out, arrived, intake, queue, job, call, late>>
    BY <1>16 DEF Echo
  <2>2. <<"out", k>> \in Keys(arrived, n)
    BY DEF Keys
  <2>3. inbox' \in Seq(Keys(arrived, n))
    BY <1>0, <1>16, <2>2, MessageIsKept DEF Echo
  <2> QED  BY <2>1, <2>3
<1>17. CASE PauseElapses
  BY <1>17 DEF PauseElapses, Convs
<1>18. CASE Crash
  <2>1. UNCHANGED <<conv, inbox, out, arrived, late>> /\ intake' = Free /\ call' = Free
    BY <1>18 DEF Crash
  <2>2. job' = [p \in Runners |-> Free]
    BY <1>18 DEF Crash
  <2> DEFINE again == [msg |-> job["worker"].msg, tries |-> job["worker"].tries]
  <2>3. \/ queue' = queue
        \/ /\ queue' = Append(queue, again)
           /\ job["worker"] # Free /\ job["worker"].tries < MaxDeliver
    BY <1>18 DEF Crash
  <2>4. job["worker"] # Free /\ job["worker"].tries < MaxDeliver => again \in ReplyRequests(arrived)
    BY ConversationsAssumption DEF JobsOK, JobOK, Runners, ReplyRequests
  <2> HIDE DEF again
  <2>5. queue \in Seq(ReplyRequests(arrived))
    OBVIOUS
  <2>6. queue' \in Seq(ReplyRequests(arrived))
    <3>1. CASE queue' = queue
      BY <2>5, <3>1
    <3>2. CASE queue' = Append(queue, again) /\ again \in ReplyRequests(arrived)
      BY <2>5, <3>2
    <3> QED  BY <2>3, <2>4, <3>1, <3>2
  <2> QED  BY <2>1, <2>2, <2>6 DEF JobsOK, Intakes, Requested
<1>19. CASE AckWaitElapses
  <2>1. UNCHANGED <<conv, inbox, out, arrived, intake, job, call, late>>
    BY <1>19 DEF AckWaitElapses
  <2>2. PICK j \in {[msg |-> queue[k].msg, tries |-> queue[k].tries + 1] : k \in DOMAIN queue}
               \cup (IF job["worker"] = Free THEN {}
                     ELSE {[msg |-> job["worker"].msg, tries |-> job["worker"].tries]}) :
               j.tries < MaxDeliver /\ queue' = Append(queue, j)
    BY <1>19 DEF AckWaitElapses
  <2>3. j \in ReplyRequests(arrived)
    <3>1. CASE \E k \in DOMAIN queue : j = [msg |-> queue[k].msg, tries |-> queue[k].tries + 1]
      <4>1. PICK k \in DOMAIN queue : j = [msg |-> queue[k].msg, tries |-> queue[k].tries + 1]
        BY <3>1
      <4>2. queue[k].msg \in 1..arrived /\ queue[k].tries \in Nat
        <5>1. queue[k] \in ReplyRequests(arrived)
          OBVIOUS
        <5> QED  BY <5>1, ConversationsAssumption DEF ReplyRequests
      <4>3. j.tries = queue[k].tries + 1 /\ j.msg = queue[k].msg /\ j = [msg |-> j.msg, tries |-> j.tries]
        BY <4>1
      <4>4. j.tries \in 0..(MaxDeliver - 1) /\ j.msg \in 1..arrived
        BY <2>2, <4>2, <4>3, ConversationsAssumption
      <4> QED  BY <4>3, <4>4 DEF ReplyRequests
    <3>2. CASE /\ job["worker"] # Free
               /\ j = [msg |-> job["worker"].msg, tries |-> job["worker"].tries]
      <4>1. job["worker"].msg \in 1..arrived /\ job["worker"].tries \in Nat
        BY <3>2 DEF JobsOK, JobOK, Runners
      <4> QED  BY <2>2, <3>2, <4>1, ConversationsAssumption DEF ReplyRequests
    <3> QED  BY <2>2, <3>1, <3>2
  <2>4. queue' \in Seq(ReplyRequests(arrived))
    BY <2>2, <2>3
  <2> QED  BY <2>1, <2>4
<1> QED
  BY <1>1, <1>2, <1>3, <1>4, <1>5, <1>6, <1>7, <1>8, <1>9, <1>10, <1>11, <1>12, <1>13, <1>14,
     <1>15, <1>16, <1>17, <1>18, <1>19
  DEF ConversationsNext, Intake, Agent, handleAIAutoResponse

-----------------------------------------------------------------------------
(* Silence and escalation *)

\* A runner past the point where it has looked at the conversation's state.
Preparing(p) == job[p].pc \in {"resume", "history", "send"}
Prepared(p) == IF Preparing(p) THEN 1 ELSE 0

\* AtMostOneLate counts the replies that went out; those that still will count
\* too. What waits for a human was escalated, and the worker has let go of it.
SilenceInv ==
    /\ ConversationShape
    /\ "queue" \notin faults => job["fallback"] = Free
    /\ Silenced(conv) => late + Prepared("worker") + Prepared("fallback") <= LateAtMost(faults)
    /\ conv.needsHuman =>
          /\ conv.ai = "escalated" /\ conv.pause = "none"
          /\ "queue" \notin faults /\ "lookup" \notin faults => ~Preparing("worker")

LEMMA SilenceInvHolds == SilenceInv => AtMostOneLate
<1> SUFFICES ASSUME SilenceInv, Silenced(conv) PROVE late <= LateAtMost(faults)
  BY DEF AtMostOneLate
<1>1. late \in Nat /\ Prepared("worker") \in Nat /\ Prepared("fallback") \in Nat
      /\ LateAtMost(faults) \in Nat
  BY DEF SilenceInv, ConversationShape, Prepared, LateAtMost
<1>2. late + Prepared("worker") + Prepared("fallback") <= LateAtMost(faults)
  BY DEF SilenceInv
<1> QED  BY <1>1, <1>2

LEMMA SilenceStart == ConversationsInit => SilenceInv
<1> SUFFICES ASSUME ConversationsInit PROVE SilenceInv
  OBVIOUS
<1>1. job["worker"] = Free /\ job["fallback"] = Free
  BY DEF ConversationsInit, Runners
<1> QED  BY <1>1, ShapeStart DEF ConversationsInit, SilenceInv, Silenced

LEMMA NotPreparing ==
    ASSUME NEW p, job[p] = Free
    PROVE  ~Preparing(p)
BY DEF Preparing, Free

\* The bound grows with each fault it counts.
LEMMA MoreFaultsAllowMore ==
    ASSUME faults \subseteq faults'
    PROVE  /\ LateAtMost(faults) \in Nat /\ LateAtMost(faults') \in Nat
           /\ LateAtMost(faults) <= LateAtMost(faults')
           /\ "lookup" \in faults' \ faults => LateAtMost(faults) + 1 <= LateAtMost(faults')
BY DEF LateAtMost

\* Without a queue that failed, what runs is the worker.
LEMMA OnlyWorkerRuns ==
    ASSUME SilenceInv, NEW p \in Runners, job[p].pc \in Steps, "queue" \notin faults
    PROVE  p = "worker"
BY DEF SilenceInv, Runners, Steps, Free

\* A step after which no runner prepares a reply that was not preparing one
\* before, and which does not silence the AI.
LEMMA NothingPrepared ==
    ASSUME SilenceInv, ConversationShape', faults \subseteq faults', late' = late,
           conv' = conv \/ ~Silenced(conv'),
           conv' = conv \/ ~conv'.needsHuman,
           \A p \in Runners : Preparing(p)' => Preparing(p),
           "queue" \notin faults' => job'["fallback"] = Free
    PROVE  SilenceInv'
<1>1. "worker" \in Runners /\ "fallback" \in Runners
  BY DEF Runners
<1>2. Prepared("worker")' <= Prepared("worker") /\ Prepared("fallback")' <= Prepared("fallback")
  BY <1>1 DEF Prepared
<1>3. Silenced(conv') => late' + Prepared("worker")' + Prepared("fallback")' <= LateAtMost(faults')
  <2> SUFFICES ASSUME Silenced(conv'), conv' = conv
               PROVE  late' + Prepared("worker")' + Prepared("fallback")' <= LateAtMost(faults')
    OBVIOUS
  <2>1. late + Prepared("worker") + Prepared("fallback") <= LateAtMost(faults)
    BY DEF SilenceInv
  <2>2. /\ Prepared("worker") \in {0, 1} /\ Prepared("fallback") \in {0, 1}
        /\ Prepared("worker")' \in {0, 1} /\ Prepared("fallback")' \in {0, 1}
        /\ late \in Nat
    BY DEF Prepared, SilenceInv, ConversationShape
  <2> QED  BY <1>2, <2>1, <2>2, MoreFaultsAllowMore
<1>4. conv'.needsHuman /\ "queue" \notin faults' /\ "lookup" \notin faults' => ~Preparing("worker")'
  BY <1>1 DEF SilenceInv
<1> QED  BY <1>3, <1>4 DEF SilenceInv

\* A step that silences the AI, or lets it speak, resets the count.
LEMMA CountStartsOver ==
    ASSUME SilenceInv, ConversationShape', faults' = faults, late' = 0, job' = job,
           ~conv'.needsHuman
    PROVE  SilenceInv'
<1>1. "queue" \notin faults => ~Preparing("fallback")
  BY NotPreparing DEF SilenceInv
<1>2. Prepared("worker") + Prepared("fallback") <= LateAtMost(faults)
  BY <1>1 DEF Prepared, LateAtMost
<1>3. Prepared("worker") \in {0, 1} /\ Prepared("fallback") \in {0, 1}
  BY DEF Prepared
<1>4. Prepared("worker")' = Prepared("worker") /\ Prepared("fallback")' = Prepared("fallback")
  BY DEF Prepared, Preparing
<1>5. late' + Prepared("worker")' + Prepared("fallback")' <= LateAtMost(faults')
  BY <1>2, <1>3, <1>4
<1> QED  BY <1>5 DEF SilenceInv

LEMMA SilenceStep ==
    ASSUME SilenceInv, [ConversationsNext]_conversationVars
    PROVE  SilenceInv'
<1>0. ConversationShape /\ ConversationShape'
  BY ShapeStep DEF SilenceInv
<1>1. CASE UNCHANGED <<conv, late, job, faults>>
  BY <1>0, <1>1, NothingPrepared DEF SilenceInv, Preparing
<1>2. CASE /\ UNCHANGED <<conv, late, job>>
           /\ faults \subseteq faults'
  BY <1>0, <1>2, NothingPrepared DEF SilenceInv, Preparing
<1>3. CASE EnqueueAIReply
  <2>1. UNCHANGED <<conv, late>> /\ faults \subseteq faults'
    BY <1>3 DEF EnqueueAIReply, Fault
  <2>2. \/ job' = job
        \/ /\ "queue" \in faults'
           /\ job' = [job EXCEPT !["fallback"] = Begun(intake.msg, MaxDeliver)]
    BY <1>3 DEF EnqueueAIReply, Fault, Begin
  <2>3. \A p \in Runners : job'[p] = job[p] \/ (p = "fallback" /\ job'[p].pc = "state")
    BY <1>0, <2>2 DEF ConversationShape, JobsOK, Begun
  <2>4. "queue" \notin faults' => job'["fallback"] = Free
    BY <2>1, <2>2 DEF SilenceInv
  <2> QED  BY <1>0, <2>1, <2>3, <2>4, NothingPrepared DEF Preparing, Runners
<1>4. CASE TakeJob
  <2>1. /\ UNCHANGED <<conv, late, faults>>
        /\ job' = [job EXCEPT !["worker"] = Begun(Head(queue).msg, Head(queue).tries + 1)]
    BY <1>4 DEF TakeJob, Begin
  <2>2. job'["fallback"] = job["fallback"] /\ job'["worker"].pc = "state"
    BY <1>0, <2>1 DEF ConversationShape, JobsOK, Begun, Runners
  <2> QED  BY <1>0, <2>1, <2>2, NothingPrepared DEF Preparing, Runners, SilenceInv
<1>5. ASSUME NEW p \in Runners, job[p].pc \in Steps, job'[p] = Free,
             \A q \in Runners \ {p} : job'[q] = job[q],
             faults \subseteq faults', late' = late,
             conv' = conv
      PROVE  SilenceInv'
  <2>1. \A q \in Runners : Preparing(q)' => Preparing(q)
    BY <1>5, NotPreparing DEF Preparing, Free
  <2>2. "queue" \notin faults' => job'["fallback"] = Free
    BY <1>5 DEF SilenceInv, Runners
  <2> QED  BY <1>0, <1>5, <2>1, <2>2, NothingPrepared
<1>6. ASSUME NEW p \in Runners, CheckAIState(p)
      PROVE  SilenceInv'
  <2>1. UNCHANGED <<conv, late>> /\ job[p].pc = "state" /\ faults \subseteq faults'
    BY <1>6 DEF CheckAIState, Fault
  <2>2. CASE Ack(p)
    BY <1>0, <1>5, <2>1, <2>2, JobIsRefused DEF Steps
  <2>3. CASE /\ MayReply(conv) \/ "lookup" \in faults' \ faults
             /\ \E pc \in {"resume", "history"} : To(p, pc)
    <3>1. /\ job'[p].pc \in {"resume", "history"}
          /\ \A q \in Runners \ {p} : job'[q] = job[q]
      BY <1>0, <2>1, <2>3, JobGoesOn DEF To, Steps, ConversationShape
    <3>2. "queue" \notin faults => p = "worker"
      BY <2>1, OnlyWorkerRuns DEF Steps
    <3>3. "queue" \notin faults' => job'["fallback"] = Free
      BY <2>1, <3>1, <3>2 DEF SilenceInv, Runners
    <3>4. CASE MayReply(conv)
      <4>1. ~Silenced(conv) /\ (conv.needsHuman => conv.ai = "paused_by_human")
        BY <3>4 DEF MayReply
      <4>2. ~conv.needsHuman
        BY <4>1 DEF SilenceInv
      <4> QED  BY <1>0, <2>1, <3>3, <4>1, <4>2 DEF SilenceInv
    <3>5. CASE "lookup" \in faults' \ faults
      <4>1. /\ Prepared(p) = 0 /\ Prepared(p)' = 1
            /\ \A q \in Runners \ {p} : Prepared(q)' = Prepared(q)
        BY <2>1, <3>1 DEF Prepared, Preparing
      <4>2. /\ Prepared("worker") \in {0, 1} /\ Prepared("fallback") \in {0, 1} /\ late \in Nat
        BY <1>0 DEF Prepared, ConversationShape
      <4>3. p = "worker" \/ p = "fallback"
        BY DEF Runners
      <4>4. Prepared("worker")' + Prepared("fallback")' = Prepared("worker") + Prepared("fallback") + 1
        BY <4>1, <4>2, <4>3 DEF Runners
      <4>5. Prepared("worker")' \in {0, 1} /\ Prepared("fallback")' \in {0, 1}
        BY DEF Prepared
      <4>6. Silenced(conv') => late' + Prepared("worker")' + Prepared("fallback")' <= LateAtMost(faults')
        <5>1. LateAtMost(faults) + 1 <= LateAtMost(faults')
              /\ LateAtMost(faults) \in Nat /\ LateAtMost(faults') \in Nat
          BY <2>1, <3>5, MoreFaultsAllowMore
        <5>2. Silenced(conv) => late + Prepared("worker") + Prepared("fallback") <= LateAtMost(faults)
          BY DEF SilenceInv
        <5> QED  BY <2>1, <4>2, <4>4, <4>5, <5>1, <5>2
      <4> QED  BY <1>0, <2>1, <3>3, <3>5, <4>6 DEF SilenceInv
    <3> QED  BY <2>3, <3>4, <3>5
  <2> QED  BY <1>6, <2>2, <2>3 DEF CheckAIState, Fault
<1>7. ASSUME NEW p \in Runners, ResumeAI(p)
      PROVE  SilenceInv'
  <2>1. conv' = conv \/ conv' = [ai |-> "active", pause |-> "none", needsHuman |-> FALSE]
    BY <1>7 DEF ResumeAI, MarkConversation, SetConversationAIState
  <2>2. late' = late /\ job[p].pc = "resume" /\ faults \subseteq faults'
    BY <1>7 DEF ResumeAI, MarkConversation, Fault
  <2>3. conv' = conv \/ (~Silenced(conv') /\ ~conv'.needsHuman)
    BY <2>1 DEF Silenced
  <2>4. job'[p].pc \in {"free", "history"} /\ \A q \in Runners \ {p} : job'[q] = job[q]
    <3>1. CASE Ack(p)
      <4>1. job'[p] = Free /\ \A q \in Runners \ {p} : job'[q] = job[q]
        BY <1>0, <2>2, <3>1, JobIsRefused DEF Steps
      <4>2. job'[p].pc = "free"
        BY <4>1 DEF Free
      <4> QED  BY <4>1, <4>2
    <3>2. CASE To(p, "history")
      BY <1>0, <2>2, <3>2, JobGoesOn DEF To, Steps, ConversationShape
    <3> QED  BY <1>7, <3>1, <3>2 DEF ResumeAI
  <2>5. "queue" \notin faults => p = "worker"
    BY <2>2, OnlyWorkerRuns DEF Steps
  <2>6. "queue" \notin faults' => job'["fallback"] = Free
    BY <2>2, <2>4, <2>5 DEF SilenceInv, Runners
  <2>7. \A q \in Runners : Preparing(q)' => Preparing(q)
    BY <2>2, <2>4 DEF Preparing
  <2> QED  BY <1>0, <2>2, <2>3, <2>6, <2>7, NothingPrepared
<1>8. ASSUME NEW p \in Runners, ReadHistory(p)
      PROVE  SilenceInv'
  <2> DEFINE j == [pc |-> "send", msg |-> job[p].msg, tries |-> job[p].tries,
                   history |-> ListMessages, needsHuman |-> job[p].needsHuman,
                   sent |-> job[p].sent]
  <2>1. UNCHANGED <<conv, late, faults>> /\ job[p].pc = "history" /\ job' = [job EXCEPT ![p] = j]
    BY <1>8 DEF ReadHistory
  <2>2. j.pc = "send"
    OBVIOUS
  <2> HIDE DEF j
  <2>3. job'[p].pc = "send" /\ \A q \in Runners \ {p} : job'[q] = job[q]
    BY <1>0, <2>1, <2>2 DEF ConversationShape, JobsOK
  <2>4. "queue" \notin faults => p = "worker"
    BY <2>1, OnlyWorkerRuns DEF Steps
  <2>5. "queue" \notin faults' => job'["fallback"] = Free
    BY <2>1, <2>3, <2>4 DEF SilenceInv, Runners
  <2>6. \A q \in Runners : Preparing(q)' => Preparing(q)
    BY <2>1, <2>3 DEF Preparing
  <2> QED  BY <1>0, <2>1, <2>5, <2>6, NothingPrepared
<1>9. ASSUME NEW p \in Runners, GenerateAndSend(p)
      PROVE  SilenceInv'
  <2>1. UNCHANGED <<conv>> /\ job[p].pc = "send" /\ faults \subseteq faults'
    BY <1>9 DEF GenerateAndSend, Fault
  <2>2. /\ ~Preparing(p)'
        /\ \A q \in Runners \ {p} : job'[q] = job[q]
    <3>1. CASE JobFails(p) \/ Ack(p)
      <4>1. job'[p] = Free /\ \A q \in Runners \ {p} : job'[q] = job[q]
        BY <1>0, <2>1, <3>1, JobIsRefused DEF JobFails, Steps
      <4>2. job'[p].pc = "free"
        BY <4>1 DEF Free
      <4> QED  BY <4>1, <4>2 DEF Preparing
    <3>2. CASE \E needsHuman \in BOOLEAN : job' = [job EXCEPT ![p] =
                  [pc |-> "record", msg |-> @.msg, tries |-> @.tries, history |-> @.history,
                   needsHuman |-> needsHuman, sent |-> Len(out) + 1]]
      BY <1>0, <3>2 DEF ConversationShape, JobsOK, Preparing
    <3> QED  BY <1>9, <3>1, <3>2 DEF GenerateAndSend
  <2>3. "queue" \notin faults => p = "worker"
    BY <2>1, OnlyWorkerRuns DEF Steps
  <2>4. "queue" \notin faults' => job'["fallback"] = Free
    BY <2>1, <2>2, <2>3 DEF SilenceInv, Runners
  <2>5. late' \in {late, late + 1}
    BY <1>9 DEF GenerateAndSend
  <2>6. /\ Prepared(p) = 1 /\ Prepared(p)' = 0
        /\ \A q \in Runners \ {p} : Prepared(q)' = Prepared(q)
    BY <2>1, <2>2 DEF Prepared, Preparing
  <2>7. Silenced(conv') => late' + Prepared("worker")' + Prepared("fallback")' <= LateAtMost(faults')
    <3>1. /\ Prepared("worker") \in {0, 1} /\ Prepared("fallback") \in {0, 1} /\ late \in Nat
      BY <1>0 DEF Prepared, ConversationShape
    <3>2. Silenced(conv) => late + Prepared("worker") + Prepared("fallback") <= LateAtMost(faults)
      BY DEF SilenceInv
    <3>3. p = "worker" \/ p = "fallback"
      BY DEF Runners
    <3>4. Prepared("worker")' + Prepared("fallback")' + 1 = Prepared("worker") + Prepared("fallback")
      BY <2>6, <3>1, <3>3 DEF Runners
    <3>5. Prepared("worker")' \in {0, 1} /\ Prepared("fallback")' \in {0, 1}
      BY DEF Prepared
    <3>6. /\ LateAtMost(faults) <= LateAtMost(faults')
          /\ LateAtMost(faults) \in Nat /\ LateAtMost(faults') \in Nat
      BY <2>1, MoreFaultsAllowMore
    <3> QED  BY <2>1, <2>5, <3>1, <3>2, <3>4, <3>5, <3>6
  <2>8. conv.needsHuman /\ "queue" \notin faults' /\ "lookup" \notin faults' => ~Preparing("worker")'
    BY <2>1, <2>2, <2>3 DEF SilenceInv
  <2> QED  BY <1>0, <2>1, <2>4, <2>7, <2>8 DEF SilenceInv
<1>10. ASSUME NEW p \in Runners, RecordReply(p)
       PROVE  SilenceInv'
  <2>1. UNCHANGED <<conv, late>> /\ job[p].pc = "record" /\ faults \subseteq faults'
    BY <1>10 DEF RecordReply, Fault
  <2>2. CASE Nak(p)
    BY <1>0, <1>5, <2>1, <2>2, JobIsRefused DEF Steps
  <2>3. CASE To(p, "escalate")
    <3>1. job'[p].pc = "escalate" /\ \A q \in Runners \ {p} : job'[q] = job[q]
      BY <1>0, <2>1, <2>3, JobGoesOn DEF To, Steps, ConversationShape
    <3>2. "queue" \notin faults => p = "worker"
      BY <2>1, OnlyWorkerRuns DEF Steps
    <3>3. "queue" \notin faults' => job'["fallback"] = Free
      BY <2>1, <3>1, <3>2 DEF SilenceInv, Runners
    <3>4. \A q \in Runners : Preparing(q)' => Preparing(q)
      BY <3>1 DEF Preparing
    <3> QED  BY <1>0, <2>1, <3>3, <3>4, NothingPrepared
  <2> QED  BY <1>10, <2>2, <2>3 DEF RecordReply
<1>11. ASSUME NEW p \in Runners, Escalate(p)
       PROVE  SilenceInv'
  <2>1. late' = late /\ job[p].pc = "escalate" /\ Ack(p) /\ faults \subseteq faults'
    BY <1>11 DEF Escalate, MarkConversation, Fault
  <2>2. conv' = conv \/ conv' = [ai |-> "escalated", pause |-> "none", needsHuman |-> TRUE]
    BY <1>11 DEF Escalate, MarkConversation, SetConversationAIState
  <2>3. job'[p] = Free /\ \A q \in Runners \ {p} : job'[q] = job[q]
    BY <1>0, <2>1, JobIsRefused DEF Steps
  <2>4. CASE conv' = conv
    BY <1>5, <2>1, <2>3, <2>4 DEF Steps
  <2>5. CASE conv' = [ai |-> "escalated", pause |-> "none", needsHuman |-> TRUE]
    <3>1. ~Silenced(conv') /\ conv'.ai = "escalated" /\ conv'.pause = "none"
      BY <2>5 DEF Silenced
    <3>2. "queue" \notin faults => p = "worker"
      BY <2>1, OnlyWorkerRuns DEF Steps
    <3>3. "queue" \notin faults' => job'["fallback"] = Free /\ job'["worker"] = Free
      BY <2>1, <2>3, <3>2 DEF SilenceInv, Runners
    <3> QED  BY <1>0, <2>1, <3>1, <3>3 DEF SilenceInv, Preparing, Free
  <2> QED  BY <2>2, <2>4, <2>5
<1>12. CASE PauseAI \/ \E state \in {"active", "paused_by_human", "disabled"} : ToggleConversationAI(state)
  <2>1. CASE UNCHANGED <<conv, late, job>> /\ faults \subseteq faults'
    BY <1>2, <2>1
  <2>2. CASE late' = 0 /\ job' = job /\ faults' = faults /\ ~conv'.needsHuman
    BY <1>0, <2>2, CountStartsOver
  <2>3. CASE PauseAI
    <3>1. job' = job
      BY <2>3 DEF PauseAI
    <3>2. \/ Fault("mark") /\ conv' = conv /\ late' = late
          \/ faults' = faults /\ late' = 0 /\ ~conv'.needsHuman
      BY <2>3 DEF PauseAI, MarkConversation, SetConversationAIState, Fault
    <3> QED  BY <2>1, <2>2, <3>1, <3>2 DEF Fault
  <2>4. CASE \E state \in {"active", "paused_by_human", "disabled"} : ToggleConversationAI(state)
    BY <2>2, <2>4 DEF ToggleConversationAI, SetConversationAIState
  <2> QED  BY <1>12, <2>3, <2>4
<1>13. CASE PauseElapses
  <2>1. UNCHANGED <<late, job, faults>> /\ conv' = [conv EXCEPT !.pause = "over"] /\ conv.pause = "running"
    BY <1>13 DEF PauseElapses
  <2>2. conv'.ai = conv.ai /\ conv'.pause = "over" /\ conv'.needsHuman = conv.needsHuman
    BY <1>0, <2>1 DEF ConversationShape, Convs
  <2>3. ~conv.needsHuman
    BY <2>1 DEF SilenceInv
  <2>4. Silenced(conv') => Silenced(conv)
    BY <2>2 DEF Silenced
  <2> QED  BY <1>0, <2>1, <2>2, <2>3, <2>4 DEF SilenceInv, Prepared, Preparing
<1>14. CASE Crash
  <2>1. UNCHANGED <<conv, late>> /\ job' = [p \in Runners |-> Free] /\ faults \subseteq faults'
    BY <1>14 DEF Crash, Fault
  <2>2. \A p \in Runners : job'[p] = Free
    BY <2>1
  <2> QED  BY <1>0, <2>1, <2>2, NothingPrepared DEF Preparing, Free, Runners
<1>15. CASE \/ \E i \in 1..MaxInbound : Receive(i)
            \/ RecordInbound \/ SendReply \/ RecordAgentReply \/ AckWaitElapses
            \/ \E k \in DOMAIN out : Echo(k)
  BY <1>2, <1>15 DEF Receive, RecordInbound, SendReply, RecordAgentReply, AckWaitElapses, Echo, Fault
<1> QED
  BY <1>1, <1>3, <1>4, <1>6, <1>7, <1>8, <1>9, <1>10, <1>11, <1>12, <1>13, <1>14, <1>15
  DEF ConversationsNext, Intake, Agent, handleAIAutoResponse, conversationVars

\* While an agent's silence stands, no more goes out than what was already being
\* prepared and what a failing lookup of the state lets through, for any number of
\* messages, calls and deliveries.
THEOREM SilenceIsHeard == ConversationsSpec => []AtMostOneLate
BY SilenceStart, SilenceStep, SilenceInvHolds, PTL DEF ConversationsSpec

LEMMA EscalatedStep ==
    ASSUME SilenceInv, [ConversationsNext]_conversationVars,
           conv.needsHuman, faults' \cap {"queue", "lookup"} = {}, NEW k \in DOMAIN out' \ DOMAIN out
    PROVE  out'[k].by # "bot"
<1>1. out' # out
  OBVIOUS
<1>2. CASE SendReply
  <2>1. out' = Sent("agent", 0)
    BY <1>2 DEF SendReply
  <2>2. /\ Sent("agent", 0) \in Seq(Sendings) /\ Len(Sent("agent", 0)) = Len(out) + 1
        /\ Sent("agent", 0)[Len(out) + 1] = [by |-> "agent", answers |-> 0]
    BY SentGrows DEF SilenceInv, ConversationShape
  <2>3. k = Len(out) + 1
    BY <2>1, <2>2 DEF SilenceInv, ConversationShape
  <2> QED  BY <2>1, <2>2, <2>3
<1>3. ASSUME NEW p \in Runners, GenerateAndSend(p)
      PROVE  FALSE
  <2>1. job[p].pc = "send" /\ faults \subseteq faults'
    BY <1>3 DEF GenerateAndSend, Fault
  <2>2. p = "worker"
    BY <2>1, OnlyWorkerRuns DEF Steps
  <2>3. Preparing("worker")
    BY <2>1, <2>2 DEF Preparing
  <2> QED  BY <2>1, <2>3 DEF SilenceInv
<1> QED
  BY <1>1, <1>2, <1>3
  DEF ConversationsNext, Intake, Agent, handleAIAutoResponse, conversationVars,
      Receive, RecordInbound, EnqueueAIReply, TakeJob, AckWaitElapses, CheckAIState, ResumeAI,
      ReadHistory, RecordReply, Escalate, RecordAgentReply, PauseAI, ToggleConversationAI, Echo,
      PauseElapses, Crash

\* A conversation that waits for a human gets no further reply, unless the queue
\* refused a job or its state could not be read.
THEOREM EscalationIsHeard == ConversationsSpec => EscalationStands
<1>1. SilenceInv /\ [ConversationsNext]_conversationVars =>
        [conv.needsHuman /\ faults' \cap {"queue", "lookup"} = {}
            => \A k \in DOMAIN out' \ DOMAIN out : out'[k].by # "bot"]_conversationVars
  BY EscalatedStep
<1> QED  BY <1>1, SilenceStart, SilenceStep, PTL DEF ConversationsSpec, EscalationStands

-----------------------------------------------------------------------------
(* One answer per message *)

Calm == channel = "whatsapp" /\ faults \subseteq {"repost", "provider"}

\* What may still become an answer to message i, or is one.
Asked(i) == intake.pc = "request" /\ intake.created /\ intake.msg = i
Waiting(i) == {n \in 1..Len(queue) : queue[n].msg = i}
Answering(i) ==
    job["worker"].pc \in {"state", "resume", "history", "send"} /\ job["worker"].msg = i

\* There is at most one of these for a message, and none for a message that is
\* not recorded.
Once(i) ==
    /\ Asked(i) \/ Waiting(i) # {} \/ Answering(i) \/ Replies(i) # {} => Recorded(<<"in", i>>)
    /\ Asked(i) => Waiting(i) = {} /\ ~Answering(i) /\ Replies(i) = {}
    /\ Waiting(i) # {} => ~Answering(i) /\ Replies(i) = {}
    /\ Answering(i) => Replies(i) = {}
    /\ \A m, n \in Waiting(i) : m = n
    /\ \A k, l \in Replies(i) : k = l

\* A reply whose recording is still to come has not been recorded by somebody
\* else: the job would be refused, and begin again.
Unrecorded ==
    /\ call.pc = "record" => out[call.sent].by = "agent"
    /\ job["worker"].pc = "record" =>
          /\ out[job["worker"].sent].by = "bot"
          /\ ~Recorded(<<"out", job["worker"].sent>>)

AnswerInv ==
    /\ SilenceInv
    /\ Calm => Unrecorded /\ \A i \in Nat : Once(i)

LEMMA AnswerInvHolds == AnswerInv => AnsweredOnce
<1> SUFFICES ASSUME AnswerInv, Calm, NEW i \in 1..arrived
             PROVE  Cardinality(Replies(i)) <= 1
  BY DEF AnsweredOnce, Calm
<1>1. i \in Nat
  BY DEF AnswerInv, SilenceInv, ConversationShape
<1>2. Once(i)
  BY <1>1 DEF AnswerInv
<1>3. \A k, l \in Replies(i) : k = l
  BY <1>2 DEF Once
<1> QED  BY <1>3, AtMostOne

LEMMA AnswerStart == ConversationsInit => AnswerInv
<1> SUFFICES ASSUME ConversationsInit PROVE AnswerInv
  OBVIOUS
<1>1. job["worker"].pc = "free" /\ call.pc = "free" /\ intake.pc = "free"
  BY DEF ConversationsInit, Runners, Free
<1>2. \A i \in Nat : Waiting(i) = {} /\ Replies(i) = {}
  BY DEF ConversationsInit, Waiting, Replies
<1> QED
  BY <1>1, <1>2, SilenceStart DEF AnswerInv, Unrecorded, Once, Asked, Answering

\* Nothing is lost of what is recorded, and only the key that is written is new.
LEMMA OneKeyIsRecorded ==
    ASSUME ConversationShape, NEW key, CreateMessage(key)
    PROVE  \A k : Recorded(k)' <=> Recorded(k) \/ k = key
<1>1. inbox \in Seq(Keys(arrived, Len(out)))
  BY DEF ConversationShape
<1>2. CASE Recorded(key)
  BY <1>2 DEF CreateMessage, Recorded
<1>3. CASE ~Recorded(key)
  <2>1. inbox' = Append(inbox, key)
    BY <1>3 DEF CreateMessage
  <2>2. DOMAIN inbox' = 1..(Len(inbox) + 1) /\ DOMAIN inbox = 1..Len(inbox) /\ Len(inbox) \in Nat
    BY <1>1, <2>1
  <2>3. inbox'[Len(inbox) + 1] = key /\ \A n \in 1..Len(inbox) : inbox'[n] = inbox[n]
    BY <1>1, <2>1
  <2> QED  BY <2>2, <2>3 DEF Recorded
<1> QED  BY <1>2, <1>3

LEMMA FutureIsUnrecorded ==
    ASSUME ConversationShape
    PROVE  ~Recorded(<<"out", Len(out) + 1>>)
<1>1. \A n \in DOMAIN inbox : inbox[n] \in Keys(arrived, Len(out))
  BY DEF ConversationShape
<1>2. <<"out", Len(out) + 1>> \notin Keys(arrived, Len(out))
  BY DEF Keys, ConversationShape
<1> QED  BY <1>1, <1>2 DEF Recorded

LEMMA AppendWaits ==
    ASSUME ConversationShape, NEW r, queue' = Append(queue, r), NEW i
    PROVE  Waiting(i)' = Waiting(i) \cup IF r.msg = i THEN {Len(queue) + 1} ELSE {}
BY DEF ConversationShape, Waiting

LEMMA TailWaits ==
    ASSUME ConversationShape, queue # <<>>, queue' = Tail(queue), NEW i
    PROVE  /\ \A n \in Waiting(i)' : n + 1 \in Waiting(i) /\ n \in Nat /\ n # 0
           /\ Head(queue).msg = i => 1 \in Waiting(i)
BY DEF ConversationShape, Waiting

LEMMA SentAnswers ==
    ASSUME ConversationShape, NEW by \in {"bot", "agent"}, NEW msg \in Nat,
           out' = Sent(by, msg), NEW i
    PROVE  Replies(i)' = Replies(i) \cup IF by = "bot" /\ msg = i THEN {Len(out) + 1} ELSE {}
<1>1. /\ Len(out') = Len(out) + 1 /\ Len(out) \in Nat
      /\ \A k \in 1..Len(out) : out'[k] = out[k]
      /\ out'[Len(out) + 1] = [by |-> by, answers |-> msg]
      /\ out' \in Seq(Sendings)
  BY SentGrows DEF ConversationShape
<1>2. DOMAIN out = 1..Len(out) /\ DOMAIN out' = 1..(Len(out) + 1)
  BY <1>1 DEF ConversationShape
<1> QED  BY <1>1, <1>2 DEF Replies

\* A step that makes nothing new of a message.
LEMMA OnceIsKept ==
    ASSUME NEW i \in Nat, Once(i),
           Recorded(<<"in", i>>) => Recorded(<<"in", i>>)',
           Asked(i)' => Asked(i), Answering(i)' => Answering(i),
           Waiting(i)' # {} => Waiting(i) # {}, \A m, n \in Waiting(i)' : m = n,
           Replies(i)' = Replies(i)
    PROVE  Once(i)'
BY DEF Once

LEMMA AnswerStep ==
    ASSUME AnswerInv, [ConversationsNext]_conversationVars
    PROVE  AnswerInv'
<1>0. ConversationShape /\ SilenceInv /\ SilenceInv'
  BY SilenceStep DEF AnswerInv, SilenceInv
<1> SUFFICES ASSUME Calm'
             PROVE  Unrecorded' /\ \A i \in Nat : Once(i)'
  BY <1>0 DEF AnswerInv
<1>a. UNCHANGED channel /\ faults \subseteq faults'
  BY DEF ConversationsNext, Intake, Agent, handleAIAutoResponse, conversationVars,
      Receive, RecordInbound, EnqueueAIReply, TakeJob, AckWaitElapses, CheckAIState, ResumeAI,
      ReadHistory, GenerateAndSend, RecordReply, Escalate, SendReply, RecordAgentReply, PauseAI,
      ToggleConversationAI, MarkConversation, Echo, PauseElapses, Crash, Fault
<1>b. Calm
  BY <1>a DEF Calm
<1>c. Unrecorded /\ \A i \in Nat : Once(i)
  BY <1>b DEF AnswerInv
<1>d. \A p \in Runners : job[p].pc \in Steps => p = "worker"
  BY <1>0, <1>b, OnlyWorkerRuns DEF Calm
<1>e. "worker" \in Runners
  BY DEF Runners
<1>1. CASE UNCHANGED <<inbox, out, intake, queue, job, call>>
  BY <1>1, <1>c DEF Unrecorded, Once, Asked, Waiting, Answering, Replies, Recorded
<1>2. ASSUME NEW i \in 1..MaxInbound, Receive(i)
      PROVE  Unrecorded' /\ \A j \in Nat : Once(j)'
  <2>1. UNCHANGED <<inbox, out, queue, job, call>> /\ intake'.pc = "record"
    BY <1>2 DEF Receive
  <2> QED  BY <1>c, <2>1 DEF Unrecorded, Once, Asked, Waiting, Answering, Replies, Recorded
<1>3. CASE RecordInbound
  <2>1. UNCHANGED <<out, queue, job, call>> /\ CreateMessage(<<"in", intake.msg>>)
    BY <1>3 DEF RecordInbound
  <2>2. intake'.msg = intake.msg /\ (intake'.created <=> ~Recorded(<<"in", intake.msg>>))
    BY <1>3 DEF RecordInbound
  <2>3. \A k : Recorded(k)' <=> Recorded(k) \/ k = <<"in", intake.msg>>
    BY <1>0, <2>1, OneKeyIsRecorded
  <2>4. Unrecorded'
    BY <1>c, <2>1, <2>3 DEF Unrecorded
  <2>5. ASSUME NEW i \in Nat PROVE Once(i)'
    BY <1>c, <2>1, <2>2, <2>3 DEF Once, Asked, Waiting, Answering, Replies
  <2> QED  BY <2>4, <2>5
<1>4. CASE EnqueueAIReply
  <2>1. UNCHANGED <<inbox, out, call>> /\ intake.pc = "request" /\ intake'.pc = "free"
    BY <1>4 DEF EnqueueAIReply, Free
  <2>2. job' = job
    BY <1>4 DEF EnqueueAIReply, Fault, Calm
  <2>3. CASE queue' = queue
    BY <1>c, <2>1, <2>2, <2>3 DEF Unrecorded, Once, Asked, Waiting, Answering, Replies, Recorded
  <2>4. CASE queue' # queue
    <3> DEFINE request == [msg |-> intake.msg, tries |-> 0]
    <3>1. queue' = Append(queue, request) /\ WantsReply
      BY <1>4, <2>4 DEF EnqueueAIReply, Fault, Calm
    <3>2. request.msg = intake.msg /\ Asked(intake.msg)
      BY <1>b, <2>1, <3>1 DEF WantsReply, Calm, Asked
    <3> HIDE DEF request
    <3>3. ASSUME NEW i \in Nat
          PROVE  Waiting(i)' = Waiting(i) \cup IF intake.msg = i THEN {Len(queue) + 1} ELSE {}
      BY <1>0, <3>1, <3>2, AppendWaits
    <3>4. ASSUME NEW i \in Nat PROVE Once(i)'
      <4>0. /\ ~Asked(i)' /\ Replies(i)' = Replies(i)
            /\ Answering(i)' <=> Answering(i)
            /\ Recorded(<<"in", i>>)' <=> Recorded(<<"in", i>>)
        BY <2>1, <2>2 DEF Asked, Answering, Replies, Recorded
      <4>1. CASE i = intake.msg
        <5>1. Once(i) /\ Asked(i)
          BY <1>c, <3>2, <4>1
        <5>2. Waiting(i)' = {Len(queue) + 1}
          BY <3>3, <4>1, <5>1 DEF Once
        <5> QED  BY <4>0, <5>1, <5>2 DEF Once
      <4>2. CASE i # intake.msg
        <5>1. Once(i) /\ Waiting(i)' = Waiting(i)
          BY <1>c, <3>3, <4>2
        <5> QED  BY <4>0, <5>1 DEF Once
      <4> QED  BY <4>1, <4>2
    <3> QED  BY <1>c, <2>1, <2>2, <3>4 DEF Unrecorded, Recorded
  <2> QED  BY <2>3, <2>4
<1>5. CASE TakeJob
  <2>1. UNCHANGED <<inbox, out, intake, call>> /\ job["worker"] = Free
        /\ queue # <<>> /\ queue' = Tail(queue)
    BY <1>5 DEF TakeJob
  <2> DEFINE head == Head(queue)
  <2>2. job' = [job EXCEPT !["worker"] = Begun(head.msg, head.tries + 1)]
    BY <1>5 DEF TakeJob, Begin
  <2>3. \A i : /\ \A n \in Waiting(i)' : n + 1 \in Waiting(i) /\ n \in Nat /\ n # 0
               /\ head.msg = i => 1 \in Waiting(i)
    BY <1>0, <2>1, TailWaits
  <2> HIDE DEF head
  <2>4. job'["worker"].pc = "state" /\ job'["worker"].msg = head.msg
    BY <1>0, <2>2 DEF ConversationShape, JobsOK, Begun, Runners
  <2>5. job["worker"].pc = "free"
    BY <2>1 DEF Free
  <2>6. ASSUME NEW i \in Nat PROVE Once(i)'
    <3>1. \A m, n \in Waiting(i)' : m = n
      <4> SUFFICES ASSUME NEW m \in Waiting(i)', NEW n \in Waiting(i)' PROVE m = n
        OBVIOUS
      <4>1. m + 1 \in Waiting(i) /\ n + 1 \in Waiting(i) /\ m \in Nat /\ n \in Nat
        BY <2>3
      <4>2. Once(i)
        BY <1>c
      <4>3. m + 1 = n + 1
        BY <4>1, <4>2 DEF Once
      <4> QED  BY <4>1, <4>3
    <3>2. Waiting(i)' # {} => Waiting(i) # {}
      BY <2>3
    <3>3. CASE i = head.msg
      <4>1. Waiting(i) = {1}
        <5>1. Once(i) /\ 1 \in Waiting(i)
          BY <1>c, <2>3, <3>3
        <5> QED  BY <5>1 DEF Once
      <4>2. Waiting(i)' = {}
        <5> SUFFICES ASSUME NEW n \in Waiting(i)' PROVE FALSE
          OBVIOUS
        <5>1. n + 1 = 1 /\ n \in Nat /\ n # 0
          BY <2>3, <4>1
        <5> QED  BY <5>1
      <4> QED  BY <1>c, <2>1, <4>1, <4>2 DEF Once, Asked, Replies, Recorded
    <3>4. CASE i # head.msg
      <4>1. ~Answering(i)'
        BY <2>4, <3>4 DEF Answering
      <4>2. Replies(i)' = Replies(i) /\ (Asked(i)' => Asked(i))
            /\ (Recorded(<<"in", i>>) => Recorded(<<"in", i>>)')
        BY <2>1 DEF Replies, Asked, Recorded
      <4> QED  BY <1>c, <3>1, <3>2, <4>1, <4>2, OnceIsKept
    <3> QED  BY <3>3, <3>4
  <2> QED  BY <1>c, <2>1, <2>4, <2>6 DEF Unrecorded, Recorded
<1>6. ASSUME NEW p \in Runners, CheckAIState(p) \/ ResumeAI(p) \/ Escalate(p)
      PROVE  Unrecorded' /\ \A i \in Nat : Once(i)'
  <2>1. UNCHANGED <<inbox, out, intake, call>> /\ job[p].pc \in Steps
    BY <1>6 DEF CheckAIState, ResumeAI, Escalate, Steps
  <2>2. p = "worker"
    BY <1>d, <2>1
  <2>3. \/ Ack(p)
        \/ /\ job[p].pc \in {"state", "resume"}
           /\ \E pc \in {"resume", "history"} : To(p, pc)
    BY <1>6 DEF CheckAIState, ResumeAI, Escalate
  <2>4. CASE Ack(p)
    <3>1. job'[p] = Free /\ queue' = queue
      BY <1>0, <2>1, <2>4, JobIsRefused DEF Ack
    <3>2. job'["worker"].pc = "free"
      BY <2>2, <3>1 DEF Free
    <3> QED
      BY <1>c, <2>1, <3>1, <3>2 DEF Unrecorded, Once, Asked, Waiting, Answering, Replies, Recorded
  <2>5. CASE job[p].pc \in {"state", "resume"} /\ \E pc \in {"resume", "history"} : To(p, pc)
    <3>1. PICK pc \in {"resume", "history"} : To(p, pc)
      BY <2>5
    <3>2. job' = [job EXCEPT ![p].pc = pc] /\ queue' = queue
      BY <3>1 DEF To
    <3>3. job'["worker"].pc = pc /\ job'["worker"].msg = job["worker"].msg
      BY <1>0, <2>1, <2>2, <3>2, JobGoesOn DEF ConversationShape, Steps
    <3> QED
      BY <1>c, <2>1, <2>2, <2>5, <3>2, <3>3
      DEF Unrecorded, Once, Asked, Waiting, Answering, Replies, Recorded
  <2> QED  BY <2>3, <2>4, <2>5
<1>7. ASSUME NEW p \in Runners, ReadHistory(p)
      PROVE  Unrecorded' /\ \A i \in Nat : Once(i)'
  <2> DEFINE j == [pc |-> "send", msg |-> job[p].msg, tries |-> job[p].tries,
                   history |-> ListMessages, needsHuman |-> job[p].needsHuman,
                   sent |-> job[p].sent]
  <2>1. UNCHANGED <<inbox, out, intake, queue, call>> /\ job[p].pc = "history"
        /\ job' = [job EXCEPT ![p] = j]
    BY <1>7 DEF ReadHistory
  <2>2. p = "worker"
    BY <1>d, <2>1 DEF Steps
  <2>3. j.pc = "send" /\ j.msg = job[p].msg
    OBVIOUS
  <2> HIDE DEF j
  <2>4. job'["worker"] = j
    BY <1>0, <2>1, <2>2 DEF ConversationShape, JobsOK
  <2> QED
    BY <1>c, <2>1, <2>2, <2>3, <2>4
    DEF Unrecorded, Once, Asked, Waiting, Answering, Replies, Recorded
<1>8. ASSUME NEW p \in Runners, GenerateAndSend(p)
      PROVE  Unrecorded' /\ \A i \in Nat : Once(i)'
  <2>1. UNCHANGED <<inbox, intake, call>> /\ job[p].pc = "send"
    BY <1>8 DEF GenerateAndSend
  <2>2. p = "worker"
    BY <1>d, <2>1 DEF Steps
  <2>3. JobOK(job["worker"], arrived, Len(out))
    BY <1>0, <2>1, <2>2 DEF ConversationShape, JobsOK, Free
  <2>4. \A i : Answering(i) <=> job["worker"].msg = i
    BY <2>1, <2>2 DEF Answering
  <2>5. CASE UNCHANGED out /\ (Nak(p) \/ Ack(p))
    <3> DEFINE again == [msg |-> job["worker"].msg, tries |-> job["worker"].tries]
    <3>1. job'["worker"].pc = "free" /\ (queue' = queue \/ queue' = Append(queue, again))
      BY <1>0, <2>1, <2>2, <2>5, JobIsRefused DEF Free, Steps
    <3>2. again.msg = job["worker"].msg
      OBVIOUS
    <3> HIDE DEF again
    <3>3. ASSUME NEW i \in Nat PROVE Once(i)'
      <4>1. \/ Waiting(i)' = Waiting(i)
            \/ Waiting(i)' = Waiting(i) \cup IF job["worker"].msg = i THEN {Len(queue) + 1} ELSE {}
        BY <1>0, <3>1, <3>2, AppendWaits DEF Waiting
      <4>2. Recorded(<<"in", i>>)' = Recorded(<<"in", i>>) /\ Replies(i)' = Replies(i)
            /\ (Asked(i)' <=> Asked(i))
        BY <2>1, <2>5 DEF Recorded, Replies, Asked
      <4>3. ~Answering(i)'
        BY <3>1 DEF Answering
      <4> QED  BY <1>c, <2>4, <4>1, <4>2, <4>3 DEF Once
    <3>4. Unrecorded'
      BY <1>c, <2>1, <2>5, <3>1 DEF Unrecorded
    <3> QED  BY <3>3, <3>4
  <2>6. CASE /\ out' = Sent("bot", job[p].msg) /\ queue' = queue
             /\ \E needsHuman \in BOOLEAN : job' = [job EXCEPT ![p] =
                  [pc |-> "record", msg |-> @.msg, tries |-> @.tries, history |-> @.history,
                   needsHuman |-> needsHuman, sent |-> Len(out) + 1]]
    <3>1. job["worker"].msg \in Nat
      BY <2>3 DEF JobOK
    <3>2. /\ out'[Len(out) + 1] = [by |-> "bot", answers |-> job["worker"].msg]
          /\ \A k \in 1..Len(out) : out'[k] = out[k]
      BY <1>0, <2>2, <2>6, <3>1, SentGrows DEF ConversationShape
    <3>3. \A i : Replies(i)' = Replies(i) \cup IF job["worker"].msg = i THEN {Len(out) + 1} ELSE {}
      BY <1>0, <2>2, <2>6, <3>1, SentAnswers
    <3>4. job'["worker"].pc = "record" /\ job'["worker"].sent = Len(out) + 1
      BY <1>0, <2>2, <2>6 DEF ConversationShape, JobsOK
    <3>5. Unrecorded'
      <4>1. call.pc = "record" => call.sent \in 1..Len(out)
        BY <1>0 DEF ConversationShape, Requested, Free
      <4>2. ~Recorded(<<"out", job["worker"].sent>>)'
        BY <1>0, <2>1, <3>4, FutureIsUnrecorded DEF Recorded
      <4> QED  BY <1>c, <2>1, <3>2, <3>4, <4>1, <4>2 DEF Unrecorded
    <3>6. ASSUME NEW i \in Nat PROVE Once(i)'
      <4>1. Recorded(<<"in", i>>)' = Recorded(<<"in", i>>) /\ Waiting(i)' = Waiting(i)
            /\ (Asked(i)' <=> Asked(i))
        BY <2>1, <2>6 DEF Recorded, Waiting, Asked
      <4>2. ~Answering(i)'
        BY <3>4 DEF Answering
      <4> QED  BY <1>c, <2>4, <3>3, <4>1, <4>2 DEF Once
    <3> QED  BY <3>5, <3>6
  <2>7. ~Fault("answer_lost")
    BY DEF Fault, Calm
  <2> QED  BY <1>8, <1>b, <2>5, <2>6, <2>7 DEF GenerateAndSend, JobFails, Calm
<1>9. ASSUME NEW p \in Runners, RecordReply(p)
      PROVE  Unrecorded' /\ \A i \in Nat : Once(i)'
  <2>1. UNCHANGED <<out, intake, call>> /\ job[p].pc = "record"
    BY <1>9 DEF RecordReply
  <2>2. p = "worker"
    BY <1>d, <2>1 DEF Steps
  <2>3. ~Recorded(<<"out", job["worker"].sent>>) /\ ~Fault("record")
    BY <1>c, <2>1, <2>2 DEF Unrecorded, Fault, Calm
  <2>4. CreateMessage(<<"out", job["worker"].sent>>) /\ To(p, "escalate")
    BY <1>9, <2>2, <2>3 DEF RecordReply
  <2>5. job'["worker"].pc = "escalate" /\ queue' = queue
    BY <1>0, <2>1, <2>2, <2>4, JobGoesOn DEF To, Steps, ConversationShape
  <2>6. \A k : Recorded(k) => Recorded(k)'
    BY <1>0, <2>4, OneKeyIsRecorded
  <2>7. Unrecorded'
    BY <1>c, <2>1, <2>5 DEF Unrecorded
  <2>8. ASSUME NEW i \in Nat PROVE Once(i)'
    BY <1>c, <2>1, <2>5, <2>6 DEF Once, Asked, Waiting, Answering, Replies
  <2> QED  BY <2>7, <2>8
<1>10. CASE SendReply
  <2>1. UNCHANGED <<inbox, intake, queue, job>> /\ out' = Sent("agent", 0)
        /\ call' = [pc |-> "record", sent |-> Len(out) + 1]
    BY <1>10 DEF SendReply, BeginCall
  <2>2. /\ out'[Len(out) + 1] = [by |-> "agent", answers |-> 0]
        /\ \A k \in 1..Len(out) : out'[k] = out[k]
    BY <1>0, <2>1, SentGrows DEF ConversationShape
  <2>3. \A i : Replies(i)' = Replies(i)
    BY <1>0, <2>1, SentAnswers
  <2>4. job["worker"].pc = "record" => job["worker"].sent \in 1..Len(out)
    BY <1>0, <1>e DEF ConversationShape, JobsOK, JobOK, Free
  <2>5. Unrecorded'
    BY <1>c, <2>1, <2>2, <2>4 DEF Unrecorded, Recorded
  <2> QED  BY <1>c, <2>1, <2>3, <2>5 DEF Once, Asked, Waiting, Answering, Recorded
<1>11. CASE RecordAgentReply
  <2>1. UNCHANGED <<out, intake, queue, job>> /\ call.pc = "record" /\ ~Fault("record")
    BY <1>11 DEF RecordAgentReply, Fault, Calm
  <2>2. CreateMessage(<<"out", call.sent>>)
    BY <1>11, <2>1 DEF RecordAgentReply
  <2>3. call' = Free \/ call' = [call EXCEPT !.pc = "pause"]
    BY <1>11 DEF RecordAgentReply
  <2>4. call'.pc # "record"
    BY <1>0, <2>1, <2>3 DEF ConversationShape, Requested, Free
  <2>5. \A k : Recorded(k)' <=> Recorded(k) \/ k = <<"out", call.sent>>
    BY <1>0, <2>2, OneKeyIsRecorded
  <2>6. Unrecorded'
    <3>1. job["worker"].pc = "record" => job["worker"].sent # call.sent
      BY <1>c, <2>1 DEF Unrecorded
    <3> QED  BY <1>c, <2>1, <2>4, <2>5, <3>1 DEF Unrecorded
  <2>7. ASSUME NEW i \in Nat PROVE Once(i)'
    BY <1>c, <2>1, <2>5 DEF Once, Asked, Waiting, Answering, Replies
  <2> QED  BY <2>6, <2>7
<1>12. CASE PauseAI \/ (\E state \in {"active", "paused_by_human", "disabled"} : ToggleConversationAI(state))
            \/ PauseElapses
  <2>1. UNCHANGED <<inbox, out, intake, queue, job>> /\ (call' = call \/ call'.pc = "free")
    <3>1. CASE PauseAI
      BY <3>1 DEF PauseAI, Free
    <3>2. CASE \E state \in {"active", "paused_by_human", "disabled"} : ToggleConversationAI(state)
      BY <3>2 DEF ToggleConversationAI
    <3>3. CASE PauseElapses
      BY <3>3 DEF PauseElapses
    <3> QED  BY <1>12, <3>1, <3>2, <3>3
  <2> QED  BY <1>c, <2>1 DEF Unrecorded, Once, Asked, Waiting, Answering, Replies, Recorded
<1>13. ~Crash /\ ~AckWaitElapses /\ \A k \in DOMAIN out : ~Echo(k)
  BY DEF Crash, AckWaitElapses, Echo, Fault, Calm
<1> QED
  BY <1>1, <1>2, <1>3, <1>4, <1>5, <1>6, <1>7, <1>8, <1>9, <1>10, <1>11, <1>12, <1>13
  DEF ConversationsNext, Intake, Agent, handleAIAutoResponse, conversationVars

\* On WhatsApp a message is answered at most once, whatever the platform delivers
\* again and whichever provider fails, while no job waits longer than AckWait.
THEOREM MessageIsAnsweredOnce == ConversationsSpec => []AnsweredOnce
BY AnswerStart, AnswerStep, AnswerInvHolds, PTL DEF ConversationsSpec

-----------------------------------------------------------------------------
(* Uploaded documents *)

Uploads == {"new", "created", "accepted", "refusing", "refused"}
DocumentRows == [status : {"none", "queued", "processing", "ready", "failed"},
            attempts : 0..MaxAttempts, lapsed : BOOLEAN, source : BOOLEAN]
JobMessages == [phase : {"absent", "waiting", "held", "acked"}, tries : 0..MaxIngestDeliver]
Ingesters == {Resting} \cup [pc : {"claim", "extract", "complete", "fail"}, job : Job]

IngestionShape ==
    /\ upload \in [Job -> Uploads]
    /\ jobRow \in [Job -> DocumentRows]
    /\ jobMessage \in [Job -> JobMessages]
    /\ ingester \in [Worker -> Ingesters]

\* A row is out of reach while it is settled, or is being processed and the
\* lease has not run out.
OutOfReach(row) == row.status # "queued" /\ (row.status = "processing" => ~row.lapsed)

KeepsSource(row) ==
    /\ row.status \in {"queued", "processing"} => row.source = TRUE
    /\ row.status \notin {"queued", "processing"} => row.source = FALSE

\* LeaseHolds says who works on a document, not why nobody else can claim it: a
\* row that is worked on is out of reach, and nobody can hold the message of a
\* row that has not been queued yet.
IngestionInv ==
    /\ IngestionShape
    /\ \A j \in Job :
          /\ KeepsSource(jobRow[j])
          /\ upload[j] \in {"new", "created"} =>
                jobMessage[j].phase = "absent" /\ \A w \in Worker : ~Holds(w, j)
          /\ \A w \in Worker : Working(w, j) => OutOfReach(jobRow[j])
          /\ \A v, w \in Worker : Working(v, j) /\ Working(w, j) => v = w

LEMMA SameTruth ==
    ASSUME NEW x \in BOOLEAN, NEW a, NEW S, x <=> a \in S
    PROVE  x = (a \in S)
OBVIOUS

LEMMA IngestionInvHolds == IngestionInv => LeaseHolds
<1> SUFFICES ASSUME IngestionInv
             PROVE  LeaseIsExclusive /\ SourceUntilSettled
  BY DEF LeaseHolds
<1>1. LeaseIsExclusive
  <2> SUFFICES ASSUME NEW j \in Job
               PROVE  Cardinality({w \in Worker : Working(w, j)}) <= 1
    BY DEF LeaseIsExclusive
  <2>1. \A v, w \in {u \in Worker : Working(u, j)} : v = w
    BY DEF IngestionInv
  <2> QED  BY <2>1, AtMostOne
<1>2. ASSUME NEW j \in Job
      PROVE  jobRow[j].source = (jobRow[j].status \in {"queued", "processing"})
  <2>1. KeepsSource(jobRow[j])
    BY DEF IngestionInv
  <2>2. jobRow[j].source \in BOOLEAN
    BY DEF IngestionInv, IngestionShape, DocumentRows
  <2>3. jobRow[j].source <=> jobRow[j].status \in {"queued", "processing"}
    BY <2>1 DEF KeepsSource
  <2> QED  BY <2>2, <2>3, SameTruth
<1> QED  BY <1>1, <1>2, Zenon DEF SourceUntilSettled

LEMMA IngestionStart == IngestionInit => IngestionInv
BY KnowledgeIngestionAssumption
DEF IngestionInit, IngestionInv, IngestionShape, Uploads, DocumentRows, JobMessages, Ingesters,
    NoJob, KeepsSource, Holds, Working

LEMMA MessageMoves ==
    ASSUME IngestionShape, NEW j \in Job, NEW phase \in {"absent", "waiting", "held", "acked"},
           jobMessage' = [jobMessage EXCEPT ![j].phase = phase]
    PROVE  /\ jobMessage' \in [Job -> JobMessages]
           /\ jobMessage'[j].phase = phase
           /\ \A k \in Job \ {j} : jobMessage'[k] = jobMessage[k]
BY DEF IngestionShape, JobMessages

LEMMA IngesterMoves ==
    ASSUME IngestionShape, NEW w \in Worker, ingester[w] # Resting,
           NEW pc \in {"claim", "extract", "complete", "fail"},
           ingester' = [ingester EXCEPT ![w].pc = pc]
    PROVE  /\ ingester' \in [Worker -> Ingesters]
           /\ ingester'[w] # Resting /\ ingester'[w].pc = pc /\ ingester'[w].job = ingester[w].job
           /\ \A v \in Worker \ {w} : ingester'[v] = ingester[v]
BY DEF IngestionShape, Ingesters, Resting

\* Nothing is claimed and nobody starts to work: workers may only stop.
LEMMA NothingIsClaimed ==
    ASSUME IngestionInv, IngestionShape',
           \A j \in Job : upload'[j] \in {"new", "created"} =>
              upload[j] \in {"new", "created"} /\ jobMessage'[j].phase = "absent",
           \A j \in Job, w \in Worker : Holds(w, j)' => Holds(w, j),
           \A j \in Job, w \in Worker : Working(w, j)' => Working(w, j),
           \A j \in Job : KeepsSource(jobRow'[j]),
           \A j \in Job : (\E w \in Worker : Working(w, j)') /\ OutOfReach(jobRow[j])
              => OutOfReach(jobRow'[j])
    PROVE  IngestionInv'
BY DEF IngestionInv

LEMMA SettledRow ==
    ASSUME NEW row \in DocumentRows, NEW s \in {"ready", "failed"}
    PROVE  Settled(row, s) \in DocumentRows /\ KeepsSource(Settled(row, s)) /\ OutOfReach(Settled(row, s))
BY DEF DocumentRows, Settled, KeepsSource, OutOfReach

LEMMA ClaimedRow ==
    ASSUME NEW row \in DocumentRows, Claimable(row), KeepsSource(row)
    PROVE  Claimed(row) \in DocumentRows /\ KeepsSource(Claimed(row)) /\ OutOfReach(Claimed(row))
BY KnowledgeIngestionAssumption DEF DocumentRows, Claimed, Claimable, KeepsSource, OutOfReach

LEMMA LapsedRow ==
    ASSUME NEW row \in DocumentRows, KeepsSource(row)
    PROVE  [row EXCEPT !.lapsed = TRUE] \in DocumentRows /\ KeepsSource([row EXCEPT !.lapsed = TRUE])
BY DEF DocumentRows, KeepsSource

LEMMA IngestionStep ==
    ASSUME IngestionInv, [IngestionNext]_ingestionVars
    PROVE  IngestionInv'
<1> USE KnowledgeIngestionAssumption DEF IngestionInv, IngestionShape
<1>1. CASE UNCHANGED ingestionVars
  BY <1>1 DEF ingestionVars, Holds, Working
<1>2. ASSUME NEW j \in Job, CreateKnowledgeIngestionJob(j)
      PROVE  IngestionInv'
  BY <1>2 DEF CreateKnowledgeIngestionJob, Uploads, DocumentRows, KeepsSource, Holds, Working, OutOfReach
<1>3. ASSUME NEW j \in Job, EnqueueKnowledgeIngestion(j)
      PROVE  IngestionInv'
  <2>1. UNCHANGED <<jobRow, ingester>> /\ upload' \in [Job -> Uploads]
    BY <1>3 DEF EnqueueKnowledgeIngestion, Uploads
  <2>2. upload'[j] \notin {"new", "created"} /\ \A k \in Job \ {j} : upload'[k] = upload[k]
    BY <1>3 DEF EnqueueKnowledgeIngestion
  <2>3. jobMessage' \in [Job -> JobMessages] /\ \A k \in Job \ {j} : jobMessage'[k] = jobMessage[k]
    BY <1>3, MessageMoves DEF EnqueueKnowledgeIngestion
  <2> QED  BY <2>1, <2>2, <2>3, NothingIsClaimed DEF Holds, Working
<1>4. ASSUME NEW j \in Job, FailUpload(j)
      PROVE  IngestionInv'
  <2>1. UNCHANGED <<jobMessage, ingester>> /\ upload' \in [Job -> Uploads]
    BY <1>4 DEF FailUpload, Uploads
  <2>2. upload'[j] \notin {"new", "created"} /\ \A k \in Job \ {j} : upload'[k] = upload[k]
    BY <1>4 DEF FailUpload
  <2>3. jobRow' = jobRow \/ jobRow' = [jobRow EXCEPT ![j] = Settled(jobRow[j], "failed")]
    BY <1>4 DEF FailUpload
  <2>4. /\ jobRow' \in [Job -> DocumentRows]
        /\ \A k \in Job : KeepsSource(jobRow'[k]) /\ (OutOfReach(jobRow[k]) => OutOfReach(jobRow'[k]))
    BY <2>3, SettledRow
  <2> QED  BY <2>1, <2>2, <2>4, NothingIsClaimed DEF Holds, Working
<1>5. ASSUME NEW j \in Job, AckWaitPasses(j)
      PROVE  IngestionInv'
  <2>1. UNCHANGED <<upload, jobRow, ingester>>
    BY <1>5 DEF AckWaitPasses
  <2>2. jobMessage' \in [Job -> JobMessages] /\ \A k \in Job \ {j} : jobMessage'[k] = jobMessage[k]
    BY <1>5, MessageMoves DEF AckWaitPasses
  <2>3. upload[j] \notin {"new", "created"}
    BY <1>5 DEF AckWaitPasses
  <2> QED  BY <2>1, <2>2, <2>3, NothingIsClaimed DEF Holds, Working
<1>6. ASSUME NEW j \in Job, LeaseLapses(j)
      PROVE  IngestionInv'
  <2>1. UNCHANGED <<upload, jobMessage, ingester>> /\ ~(\E w \in Worker : Working(w, j))
    BY <1>6 DEF LeaseLapses
  <2>2. jobRow' = [jobRow EXCEPT ![j] = [jobRow[j] EXCEPT !.lapsed = TRUE]]
    BY <1>6 DEF LeaseLapses
  <2>3. /\ jobRow' \in [Job -> DocumentRows]
        /\ \A k \in Job : KeepsSource(jobRow'[k])
        /\ \A k \in Job \ {j} : jobRow'[k] = jobRow[k]
    BY <2>2, LapsedRow
  <2> QED  BY <2>1, <2>3, NothingIsClaimed DEF Holds, Working
<1>7. ASSUME NEW j \in Job, NEW w \in Worker, Deliver(w, j)
      PROVE  IngestionInv'
  BY <1>7 DEF Deliver, JobMessages, Ingesters, Resting, Holds, Working, OutOfReach
<1>8. ASSUME NEW w \in Worker, ClaimKnowledgeIngestionJob(w)
      PROVE  IngestionInv'
  <2> DEFINE j == ingester[w].job
  <2>1. ingester[w] # Resting /\ j \in Job /\ Holds(w, j) /\ UNCHANGED upload
    BY <1>8 DEF ClaimKnowledgeIngestionJob, Ingesters, Resting, Holds
  <2>2. /\ jobMessage' \in [Job -> JobMessages]
        /\ \A k \in Job \ {j} : jobMessage'[k] = jobMessage[k]
    BY <1>8, <2>1, MessageMoves DEF ClaimKnowledgeIngestionJob, AckJob, NakJob
  <2>3. \/ jobRow' = jobRow
        \/ Claimable(jobRow[j]) /\ jobRow' = [jobRow EXCEPT ![j] = Claimed(jobRow[j])]
    BY <1>8 DEF ClaimKnowledgeIngestionJob
  <2>4. /\ jobRow' \in [Job -> DocumentRows]
        /\ \A k \in Job : KeepsSource(jobRow'[k]) /\ (OutOfReach(jobRow[k]) => OutOfReach(jobRow'[k]))
    BY <2>1, <2>3, ClaimedRow
  <2>5. CASE ingester' = [ingester EXCEPT ![w] = Resting]
    <3>1. ingester' \in [Worker -> Ingesters]
      BY <2>5 DEF Ingesters
    <3>2. \A v \in Worker, k \in Job : Holds(v, k)' => Holds(v, k) /\ ingester'[v] = ingester[v]
      BY <2>5 DEF Holds
    <3> QED  BY <2>1, <2>2, <2>4, <3>1, <3>2, NothingIsClaimed DEF Working
  <2>6. CASE ingester' = [ingester EXCEPT ![w].pc = "extract"]
    <3>1. Claimable(jobRow[j]) /\ jobRow' = [jobRow EXCEPT ![j] = Claimed(jobRow[j])]
      <4>1. ingester'[w] # Resting
        BY <2>1, <2>6, IngesterMoves
      <4>2. ingester' # [ingester EXCEPT ![w] = Resting]
        BY <4>1
      <4> QED  BY <1>8, <4>2, Zenon DEF ClaimKnowledgeIngestionJob
    <3>2. /\ ingester' \in [Worker -> Ingesters]
          /\ ingester'[w].job = j
          /\ \A v \in Worker \ {w} : ingester'[v] = ingester[v]
      BY <2>1, <2>6, IngesterMoves
    <3>3. ~OutOfReach(jobRow[j]) /\ OutOfReach(jobRow'[j])
      BY <2>1, <3>1, ClaimedRow DEF Claimable, OutOfReach
    <3>4. \A v \in Worker : ~Working(v, j)
      BY <2>1, <3>3
    <3>5. \A v \in Worker, k \in Job : Holds(v, k)' => Holds(v, k)
      BY <2>1, <3>2 DEF Holds
    <3>6. \A v \in Worker, k \in Job : Working(v, k)' => Working(v, k) \/ (v = w /\ k = j)
      BY <2>1, <3>2, <3>5 DEF Working, Holds
    <3> QED  BY <2>1, <2>2, <2>4, <3>2, <3>3, <3>4, <3>5, <3>6
  <2> QED  BY <1>8, <2>5, <2>6 DEF ClaimKnowledgeIngestionJob
<1>9. ASSUME NEW w \in Worker, ExtractKnowledge(w)
      PROVE  IngestionInv'
  <2>1. ingester[w] # Resting /\ ingester[w].pc # "claim" /\ UNCHANGED <<upload, jobRow, jobMessage>>
    BY <1>9 DEF ExtractKnowledge, Resting
  <2>2. /\ ingester' \in [Worker -> Ingesters]
        /\ ingester'[w] # Resting /\ ingester'[w].job = ingester[w].job
        /\ \A v \in Worker \ {w} : ingester'[v] = ingester[v]
    BY <1>9, <2>1, IngesterMoves DEF ExtractKnowledge
  <2> QED  BY <2>1, <2>2, NothingIsClaimed DEF Holds, Working
<1>10. ASSUME NEW w \in Worker, NEW s \in {"ready", "failed"}, Record(w, s),
              ingester[w].pc \in {"complete", "fail"}
       PROVE  IngestionInv'
  <2> DEFINE j == ingester[w].job
  <2>1. ingester[w] # Resting /\ j \in Job /\ Holds(w, j) /\ UNCHANGED upload
    BY <1>10 DEF Record, Ingesters, Resting, Holds
  <2>2. /\ jobMessage' \in [Job -> JobMessages]
        /\ \A k \in Job \ {j} : jobMessage'[k] = jobMessage[k]
    BY <1>10, <2>1, MessageMoves DEF Record, AckJob, NakJob
  <2>3. jobRow' = jobRow \/ jobRow' = [jobRow EXCEPT ![j] = Settled(jobRow[j], s)]
    BY <1>10 DEF Record
  <2>4. /\ jobRow' \in [Job -> DocumentRows]
        /\ \A k \in Job : KeepsSource(jobRow'[k]) /\ (OutOfReach(jobRow[k]) => OutOfReach(jobRow'[k]))
    BY <2>1, <2>3, SettledRow
  <2>5. /\ ingester' \in [Worker -> Ingesters]
        /\ \A v \in Worker, k \in Job : Holds(v, k)' => Holds(v, k) /\ ingester'[v] = ingester[v]
    BY <1>10 DEF Record, Holds, Ingesters
  <2> QED  BY <2>1, <2>2, <2>4, <2>5, NothingIsClaimed DEF Working
<1>11. ASSUME NEW w \in Worker, WorkerStops(w)
       PROVE  IngestionInv'
  BY <1>11 DEF WorkerStops, Resting, Ingesters, Holds, Working, OutOfReach
<1> QED
  BY <1>1, <1>2, <1>3, <1>4, <1>5, <1>6, <1>7, <1>8, <1>9, <1>10, <1>11
  DEF IngestionNext, Callback, CompleteKnowledgeIngestionJob, FailKnowledgeIngestionJob

\* One worker at a time processes a document, and its source is kept until it is
\* settled, for any number of workers, uploads, redeliveries, deaths and lapsed
\* leases (repository/postgres_ai_agent.go).
THEOREM LeaseIsKept == IngestionSpec => []LeaseHolds
BY IngestionStart, IngestionStep, IngestionInvHolds, PTL DEF IngestionSpec

-----------------------------------------------------------------------------
(* Both queues *)

LEMMA DocumentsAreTyped == IngestionInv => IngestionTypeOK
BY DEF IngestionInv, IngestionShape, IngestionTypeOK, Uploads, DocumentRows, JobMessages

\* Rows, messages, jobs and requests have their types at every step: a job is
\* never delivered more often, and a row never claimed more often, than allowed.
THEOREM QueuesAreTyped == QueuesSpec => []QueuesTypeOK
<1> DEFINE Inv == ConversationShape /\ IngestionInv
<1>1. QueuesInit => Inv
  BY ShapeStart, IngestionStart DEF QueuesInit
<1>2. Inv /\ [QueuesNext]_QueueVars => Inv'
  <2> SUFFICES ASSUME Inv, [QueuesNext]_QueueVars PROVE Inv'
    OBVIOUS
  <2>1. [ConversationsNext]_conversationVars /\ [IngestionNext]_ingestionVars
    BY DEF QueuesNext, QueueVars
  <2> QED  BY <2>1, ShapeStep, IngestionStep
<1>3. Inv => QueuesTypeOK
  BY ShapeIsTyped, DocumentsAreTyped DEF QueuesTypeOK
<1> HIDE DEF Inv
<1> QED  BY <1>1, <1>2, <1>3, PTL DEF QueuesSpec

=============================================================================
