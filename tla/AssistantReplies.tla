--------------------------- MODULE AssistantReplies ---------------------------
(***************************************************************************)
(* When the assistant answers and with what: the settings as the dashboard *)
(* saves them, the working week they are read against, the two model       *)
(* providers tried in turn and what is made of their output.               *)
(***************************************************************************)
EXTENDS Integers, FiniteSets

CONSTANTS
    HoursPerDay, \* bound: how finely a day is divided
    Confidence   \* confidences, in tenths

ASSUME AssistantRepliesAssumption == HoursPerDay \in Nat \ {0} /\ Confidence \subseteq 0..10

VARIABLES
    settings,  \* ai_agent_configs
    now,       \* the time in the workspace's zone
    answer     \* what the last question was answered with

replyVars == <<settings, now, answer>>

Days == 1..7
Hours == 0..(HoursPerDay - 1)
Modes == {"always_on", "after_hours", "idle_fallback", "copilot_only"}
Unsaved == "unsaved"
Silence == [text |-> "none"]

DefaultDays == 1..5

\* A workspace that never saved any settings.
DefaultSettings ==
    [enabled |-> FALSE, mode |-> "after_hours", start |-> 0, end |-> HoursPerDay - 1,
     days |-> DefaultDays, threshold |-> 7, row |-> Unsaved]

RepliesInit ==
    /\ settings = DefaultSettings
    /\ now = [day |-> 1, hour |-> 0]
    /\ answer = Silence

-----------------------------------------------------------------------------
(* Settings *)

\* Days and threshold are both given or both left out.
Requests ==
    {r \in [enabled : BOOLEAN, mode : Modes \cup {"", "other"}, start : Hours, end : Hours,
            days : {{}, {1, 7}}, threshold : {0, 7}] : r.days = {} <=> r.threshold = 0}

Accepted(request) == request.mode # "other"

\* Mistaken variant, for mutation: a threshold left out stays zero.
NormalisedPartly(request) ==
    [enabled |-> request.enabled, mode |-> IF request.mode = "" THEN "after_hours" ELSE request.mode,
     start |-> request.start, end |-> request.end, days |-> request.days,
     threshold |-> request.threshold, row |-> "saved"]

Normalised(request) ==
    [enabled |-> request.enabled, mode |-> IF request.mode = "" THEN "after_hours" ELSE request.mode,
     start |-> request.start, end |-> request.end,
     days |-> IF request.days = {} THEN DefaultDays ELSE request.days,
     threshold |-> IF request.threshold = 0 THEN 7 ELSE request.threshold, row |-> "saved"]

SaveConfig(request) ==
    /\ Accepted(request)
    /\ settings' = Normalised(request)
    /\ UNCHANGED <<now, answer>>

\* The first switch inserts the row and chooses its mode; later ones keep it.
SetEnabled(enabled) ==
    /\ settings' = IF settings.row = Unsaved
                   THEN [settings EXCEPT !.enabled = enabled, !.row = "saved",
                                         !.mode = IF enabled THEN "always_on" ELSE "after_hours"]
                   ELSE [settings EXCEPT !.enabled = enabled]
    /\ UNCHANGED <<now, answer>>

HourPasses ==
    /\ now' = IF now.hour + 1 \in Hours THEN [now EXCEPT !.hour = @ + 1]
              ELSE [day |-> (now.day % 7) + 1, hour |-> 0]
    /\ UNCHANGED <<settings, answer>>

-----------------------------------------------------------------------------
(* Whether to answer *)

OutsideHours(start, end, hour) ==
    IF start <= end THEN hour < start \/ hour >= end ELSE hour >= end /\ hour < start

ShouldRespond ==
    /\ settings.enabled
    /\ \/ settings.mode \in {"always_on", "idle_fallback"}
       \/ /\ settings.mode = "after_hours"
          /\ \/ now.day \notin settings.days
             \/ OutsideHours(settings.start, settings.end, now.hour)

-----------------------------------------------------------------------------
(* With what: Gemini, then Groq *)

\* What a provider may return. Text outside the agreed form is accepted only
\* with a legacy marker, and has no confidence.
Outputs ==
    [form : {"error", "empty", "text"}] \cup [form : {"marked"}, handoff : BOOLEAN]
    \cup [form : {"json"}, handoff : BOOLEAN, reason : {"none", "missing_knowledge"},
          confidence : Confidence]

Processed(output) == output.form \in {"json", "marked"}

ConfidenceOf(output) == IF output.form = "json" THEN output.confidence ELSE 0

\* Mistaken variant, for mutation: what has no confidence is passed on.
UnsureScored(output) == output.form = "json" /\ output.confidence < settings.threshold

Unsure(output) == settings.threshold > 0 /\ ConfidenceOf(output) < settings.threshold

Result(output) ==
    IF Unsure(output)
    THEN [text |-> "fallback", human |-> TRUE, gap |-> TRUE, confidence |-> ConfidenceOf(output)]
    ELSE [text |-> "reply", human |-> output.handoff, confidence |-> ConfidenceOf(output),
          gap |-> output.form = "json" /\ output.reason = "missing_knowledge"]

\* Groq is asked only when Gemini's output cannot be used.
GenerateReply ==
    \E gemini \in Outputs :
        \/ Processed(gemini) /\ answer' = Result(gemini)
        \/ /\ ~Processed(gemini)
           /\ \E groq \in Outputs :
                  answer' = IF Processed(groq) THEN Result(groq) ELSE Silence

Ask ==
    /\ \/ ShouldRespond /\ GenerateReply
       \/ ~ShouldRespond /\ answer' = Silence
    /\ UNCHANGED <<settings, now>>

RepliesNext ==
    \/ \E request \in Requests : SaveConfig(request)
    \/ \E enabled \in BOOLEAN : SetEnabled(enabled)
    \/ Ask \/ HourPasses

RepliesSpec == RepliesInit /\ [][RepliesNext]_replyVars

-----------------------------------------------------------------------------
RepliesTypeOK ==
    /\ settings.mode \in Modes /\ settings.days # {} /\ settings.threshold \in 1..10
    /\ now.day \in Days /\ now.hour \in Hours

\* Whatever settings are saved and whichever provider answers, a customer
\* never reads a model's text whose confidence is under the workspace's bar:
\* the fallback is sent instead and a person is called.
OnlyConfidentIsSent ==
    [][(answer' # answer /\ answer'.text = "reply") => answer'.confidence >= settings.threshold]_replyVars

\* On a working day the assistant is silent for as many hours as the shift
\* has, also when the shift crosses midnight.
ShiftLength ==
    settings.enabled /\ settings.mode = "after_hours" =>
        Cardinality({h \in Hours : ~OutsideHours(settings.start, settings.end, h)}) =
            (settings.end - settings.start + HoursPerDay) % HoursPerDay

\* A shift that crosses midnight belongs to the day it starts on: the
\* assistant is silent through it and answers outside it.
ShiftBelongsToItsDay ==
    LET started == IF now.hour >= settings.start THEN now.day ELSE ((now.day + 5) % 7) + 1 IN
    (settings.enabled /\ settings.mode = "after_hours" /\ settings.start > settings.end) =>
        (ShouldRespond = (started \notin settings.days
                          \/ OutsideHours(settings.start, settings.end, now.hour)))

\* The assistant keeps to its settings: silent for the length of the shift,
\* and sure enough of what it says.
RepliesAsConfigured == []ShiftLength /\ OnlyConfidentIsSent
=============================================================================
