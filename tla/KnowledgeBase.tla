----------------------------- MODULE KnowledgeBase -----------------------------
(***************************************************************************)
(* The assistant's knowledge: items with the vector their text was         *)
(* embedded as, the hybrid search over them and its fallbacks, and the     *)
(* ledger of questions the assistant could not answer.                     *)
(***************************************************************************)
EXTENDS Naturals, FiniteSets, Sequences, FiniteSetsExt, SequencesExt

CONSTANTS
    Topic,         \* what an item or a question is about
    ItemLimit,     \* bound: items ever created
    VersionLimit,  \* bound: texts an item has had
    AskLimit,      \* bound: questions asked
    SearchLimit,   \* how many items a search returns
    BaseFaultLimit \* bound: statements that fail

\* An item is created with a text.
ASSUME KnowledgeBaseAssumption ==
    {ItemLimit, VersionLimit, AskLimit, SearchLimit, BaseFaultLimit} \subseteq Nat /\ VersionLimit >= 1

VARIABLES
    items,      \* ai_knowledge_items, oldest first
    circuit,    \* whether the embedding circuit is open
    gaps,       \* ai_knowledge_gaps, oldest first
    asked,      \* [Topic -> questions asked]
    resolving,  \* the request that resolves a gap
    baseFaults

baseVars == <<items, circuit, gaps, asked, resolving, baseFaults>>

NoVector == 0
Unresolved == 0
Blank == "blank"
NoRequest == [pc |-> "none"]

BaseInit ==
    /\ items = <<>> /\ circuit = "closed" /\ gaps = <<>>
    /\ asked = [t \in Topic |-> 0]
    /\ resolving = NoRequest
    /\ baseFaults = 0

BaseFails == baseFaults < BaseFaultLimit /\ baseFaults' = baseFaults + 1
BaseHolds == baseFaults' = baseFaults

-----------------------------------------------------------------------------
(* Items *)

\* An embedding that cannot be had leaves the item without one.
GenerateEmbedding(version) == IF circuit = "open" THEN NoVector ELSE version

NewItem(t) ==
    [topic |-> t, version |-> 1, vector |-> GenerateEmbedding(1), active |-> TRUE, deleted |-> FALSE]

CreateKnowledgeItem(t) ==
    /\ Len(items) < ItemLimit
    /\ items' = Append(items, NewItem(t))
    /\ UNCHANGED <<circuit, gaps, asked, resolving, baseFaults>>

\* One transaction: the reviewed items of a document are added together.
BulkCreateKnowledgeItems(topics) ==
    /\ Len(items) + Len(topics) <= ItemLimit
    /\ items' = items \o [n \in DOMAIN topics |-> NewItem(topics[n])]
    /\ UNCHANGED <<circuit, gaps, asked, resolving, baseFaults>>

Live(i) == i \in DOMAIN items /\ ~items[i].deleted

\* Mistaken variant, for mutation: what could not be embedded is stored as NULL.
KeptVectorNot(old, new) == new

\* A text that cannot be embedded keeps the vector of the one before.
KeptVector(old, new) == IF new = NoVector THEN old ELSE new

Edited(item, active) ==
    [topic |-> item.topic, version |-> item.version + 1, active |-> active, deleted |-> item.deleted,
     vector |-> KeptVector(item.vector, GenerateEmbedding(item.version + 1))]

UpdateKnowledgeItem(i, active) ==
    /\ Live(i) /\ items[i].version < VersionLimit
    /\ items' = [items EXCEPT ![i] = Edited(@, active)]
    /\ UNCHANGED <<circuit, gaps, asked, resolving, baseFaults>>

Released(gap, i) == IF gap.resolution = i THEN [gap EXCEPT !.resolution = Unresolved] ELSE gap

DeleteKnowledgeItem(i) ==
    /\ Live(i)
    /\ items' = [items EXCEPT ![i].deleted = TRUE]
    /\ gaps' = [g \in DOMAIN gaps |-> Released(gaps[g], i)]
    /\ UNCHANGED <<circuit, asked, resolving, baseFaults>>

\* Five minutes after a refusal for the rate or the quota.
CircuitTurns ==
    /\ circuit' = IF circuit = "open" THEN "closed" ELSE "open"
    /\ UNCHANGED <<items, gaps, asked, resolving, baseFaults>>

-----------------------------------------------------------------------------
(* Search *)

Active == {i \in DOMAIN items : Live(i) /\ items[i].active}

AtMost(limit, list) == SubSeq(list, 1, IF Len(list) < limit THEN Len(list) ELSE limit)

OldestFirst(set) == SelectSeq([n \in DOMAIN items |-> n], LAMBDA i : i \in set)

Naming(t) == {i \in Active : items[i].topic = t}

\* With a vector for the question, also the items near to it.
Hybrid(t, failing) ==
    IF circuit = "open" \/ "hybrid" \in failing THEN {}
    ELSE Naming(t) \cup {i \in Active : items[i].vector # NoVector}

Matches(t, failing) ==
    LET hybrid == Hybrid(t, failing)
    IN  AtMost(SearchLimit, OldestFirst(IF hybrid # {} THEN hybrid ELSE Naming(t)))

Candidates == AtMost(2 * SearchLimit, OldestFirst(Active))

\* Mistaken variant, for mutation: an item found is added again.
UnseenAny(found) == Candidates

Unseen(found) == SelectSeq(Candidates, LAMBDA i : i \notin ToSet(found))

\* Filled up with other items, if those can be had.
Backfilled(found, failing) ==
    IF "backfill" \in failing THEN found ELSE AtMost(SearchLimit, found \o Unseen(found))

\* Nothing is found for a message without text, nor when the last query fails.
SearchKnowledgeItems(t, failing) ==
    IF t = Blank \/ (Hybrid(t, failing) = {} /\ "lexical" \in failing) THEN <<>>
    ELSE Backfilled(Matches(t, failing), failing)

\* Of what is listed the active ones; in which order is left out.
Ranked(list) == LET active == Active IN AtMost(SearchLimit, SelectSeq(list, LAMBDA i : i \in active))

\* Where the search finds nothing all items are listed, those switched off too. So
\* too where it fails on Telegram; on WhatsApp there is no prompt then.
PromptKnowledge(t, failing) ==
    LET found == SearchKnowledgeItems(t, failing)
        listed == IF "list" \in failing THEN <<>> ELSE OldestFirst({i \in DOMAIN items : Live(i)})
    IN  Ranked(IF found = <<>> THEN listed ELSE found)

-----------------------------------------------------------------------------
(* Questions without an answer *)

Pending(t) == {g \in DOMAIN gaps : gaps[g].topic = t /\ gaps[g].status = "pending"}

Recurred(gap) == [gap EXCEPT !.occurrences = @ + 1]

\* A failed record is logged and the question is not counted.
RecordKnowledgeGap(t) ==
    /\ MapThenSumSet(LAMBDA u : asked[u], Topic) < AskLimit
    /\ \/ /\ asked' = [asked EXCEPT ![t] = @ + 1]
          /\ gaps' = IF Pending(t) = {}
                     THEN Append(gaps, [topic |-> t, status |-> "pending", occurrences |-> 1,
                                        resolution |-> Unresolved])
                     ELSE [g \in DOMAIN gaps |-> IF g \in Pending(t) THEN Recurred(gaps[g]) ELSE gaps[g]]
          /\ BaseHolds
       \/ BaseFails /\ UNCHANGED <<gaps, asked>>
    /\ UNCHANGED <<items, circuit, resolving>>

\* The item first; a failure after it leaves the item and the open question.
ResolveKnowledgeGap(g) ==
    /\ resolving = NoRequest /\ g \in DOMAIN gaps /\ Len(items) < ItemLimit
    /\ items' = Append(items, NewItem(gaps[g].topic))
    /\ resolving' = [pc |-> "mark", gap |-> g, item |-> Len(items) + 1]
    /\ UNCHANGED <<circuit, gaps, asked, baseFaults>>

Resolved(gap, i) ==
    [topic |-> gap.topic, status |-> "resolved", occurrences |-> gap.occurrences, resolution |-> i]

\* The reference to an item deleted meanwhile is refused.
MarkResolved ==
    /\ resolving.pc = "mark"
    /\ \/ /\ Live(resolving.item) /\ BaseHolds
          /\ gaps' = [gaps EXCEPT ![resolving.gap] = Resolved(@, resolving.item)]
       \/ ~Live(resolving.item) /\ gaps' = gaps /\ BaseHolds
       \/ BaseFails /\ gaps' = gaps
    /\ resolving' = NoRequest
    /\ UNCHANGED <<items, circuit, asked>>

\* Whatever the question's status is.
DismissKnowledgeGap(g) ==
    /\ g \in DOMAIN gaps
    /\ gaps' = [gaps EXCEPT ![g].status = "dismissed"]
    /\ UNCHANGED <<items, circuit, asked, resolving, baseFaults>>

BaseNext ==
    \/ \E t \in Topic : CreateKnowledgeItem(t) \/ RecordKnowledgeGap(t)
    \/ \E t, u \in Topic : BulkCreateKnowledgeItems(<<t, u>>)
    \/ \E i \in DOMAIN items : \/ \E active \in BOOLEAN : UpdateKnowledgeItem(i, active)
                               \/ DeleteKnowledgeItem(i)
    \/ \E g \in DOMAIN gaps : ResolveKnowledgeGap(g) \/ DismissKnowledgeGap(g)
    \/ CircuitTurns \/ MarkResolved

BaseSpec == BaseInit /\ [][BaseNext]_baseVars

-----------------------------------------------------------------------------
Occurrences(t) ==
    MapThenSumSet(LAMBDA g : gaps[g].occurrences, {g \in DOMAIN gaps : gaps[g].topic = t})

BaseTypeOK ==
    /\ \A i \in DOMAIN items : /\ items[i].topic \in Topic /\ items[i].version \in 1..VersionLimit
                               /\ items[i].vector \in 0..items[i].version
    /\ \A g \in DOMAIN gaps : /\ gaps[g].status \in {"pending", "resolved", "dismissed"}
                              /\ gaps[g].resolution \in 0..Len(items)

\* Every question that was recorded is counted by one row of its topic, and
\* at most one of them is open, through resolutions and dismissals between.
AsksAreCounted ==
    \A t \in Topic : Occurrences(t) = asked[t] /\ Cardinality(Pending(t)) <= 1

\* Whichever queries fail, the prompt holds no item twice and none that is switched
\* off or deleted. It is starved of nothing unless the query that fills it up fails,
\* or the search and the list that stands in for it do; and if only the filling
\* fails, it holds at least as many items as name the topic. (A hybrid query that
\* fails finds what it finds in the same state with the circuit open.)
SearchIsFull ==
    LET Full(set) == IF Cardinality(set) < SearchLimit THEN Cardinality(set) ELSE SearchLimit
        active == Active
    IN  items # <<>> =>
        /\ \A t \in Topic, failing \in SUBSET {"lexical", "backfill", "list"} :
              LET prompt == PromptKnowledge(t, failing) IN
              /\ IsInjective(prompt) /\ ToSet(prompt) \subseteq active
              /\ "backfill" \notin failing /\ ~({"lexical", "list"} \subseteq failing)
                 => Len(prompt) = Full(active)
              /\ "lexical" \notin failing => Len(prompt) >= Full(Naming(t))
        /\ Len(PromptKnowledge(Blank, {})) = Full(active)

\* A question marked resolved points at an item that still exists, or at none
\* once that item is deleted.
ResolutionExists ==
    \A g \in DOMAIN gaps : gaps[g].resolution # Unresolved => Live(gaps[g].resolution)

\* A vector goes from one text of its item to a later one, never back.
VectorsMoveForward ==
    [][\A i \in DOMAIN items : items'[i].vector >= items[i].vector]_baseVars

\* What the assistant is asked and told is kept: questions are counted, their
\* answers exist, and no edit brings back the vector of an earlier text.
KnowledgeIsKept == [](AsksAreCounted /\ ResolutionExists) /\ VectorsMoveForward
=============================================================================
