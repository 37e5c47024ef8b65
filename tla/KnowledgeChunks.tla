---------------------------- MODULE KnowledgeChunks ----------------------------
(***************************************************************************)
(* How the text of a document is cut into sections for the model: at most  *)
(* so long, cut at white space where there is any, each beginning a little *)
(* before the end of the one before.                                       *)
(***************************************************************************)
EXTENDS Integers

CONSTANTS
    Length,    \* bound: lengths of a document
    MaxChars,  \* length of a section
    Overlap    \* how much of the section before is repeated

\* The configuration that chunkKnowledgeText refuses otherwise.
ASSUME KnowledgeChunksAssumption ==
    Length \subseteq Nat /\ MaxChars \in Nat /\ Overlap \in Nat /\ Overlap < MaxChars

VARIABLES
    text,    \* the document: whether each of its bytes is blank
    length,  \* its length
    start,   \* where the next section begins
    chunks   \* sections cut, as [from, to) with their blanks

chunkVars == <<text, length, start, chunks>>

ChunksInit ==
    /\ length \in Length /\ text \in [0..(length - 1) -> BOOLEAN]
    /\ start = 0 /\ chunks = {}

Section(from, to) == [from |-> from, to |-> to]

Boundaries(end) == {b \in (start + 1)..end : text[b]}

\* Mistaken variant, for mutation: the overlap may take the section back.
NextStartBack(boundary) == boundary - Overlap

NextStart(boundary) == IF boundary - Overlap <= start THEN boundary ELSE boundary - Overlap

\* The last blank up to the greatest length, or that length.
Boundary(b, end) ==
    \/ b \in Boundaries(end) /\ \A c \in Boundaries(end) : c <= b
    \/ Boundaries(end) = {} /\ b = end

LastSection ==
    /\ start < length /\ start + MaxChars >= length
    /\ chunks' = chunks \cup {Section(start, length)}
    /\ start' = length
    /\ UNCHANGED <<text, length>>

\* A section of blanks only is left out: nothing of it could be kept.
NextSection ==
    /\ start + MaxChars < length
    /\ \E b \in 1..length :
        /\ Boundary(b, start + MaxChars)
        /\ chunks' = IF \A p \in start..(b - 1) : text[p] THEN chunks
                     ELSE chunks \cup {Section(start, b)}
        /\ start' = NextStart(b)
    /\ UNCHANGED <<text, length>>

ChunksNext == LastSection \/ NextSection

ChunksSpec == ChunksInit /\ [][ChunksNext]_chunkVars

-----------------------------------------------------------------------------
ChunksTypeOK ==
    /\ start \in 0..length
    /\ chunks \subseteq [from : 0..length, to : 0..length]

\* Nothing of a document is lost on the way to the model: a byte that is not
\* blank and lies before the next section is in some section.
NothingLost ==
    \A p \in 0..(start - 1) : text[p] \/ \E c \in chunks : c.from <= p /\ p < c.to

\* No section is longer than the model is given.
SectionsFit == \A c \in chunks : c.to - c.from <= MaxChars

\* The loop advances with every turn.
Advances == [][start' > start]_chunkVars

\* The sections cover the document, fit the model, and come to an end.
SectionsCover == [](NothingLost /\ SectionsFit) /\ Advances
=============================================================================
