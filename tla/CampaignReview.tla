----------------------------- MODULE CampaignReview -----------------------------
(***************************************************************************)
(* A campaign before it is sent: the agency edits it, submits it, approves *)
(* or rejects it, schedules, cancels, deletes or dispatches it, and the    *)
(* brand looks at it through a review link and answers. Every use case     *)
(* reads the campaign, decides, and then writes with one guarded UPDATE;   *)
(* between the two, other calls may write. Calls is the set of calls that  *)
(* may be under way at the same time. What follows a dispatch is           *)
(* DeliveryPipeline's.                                                     *)
(*                                                                         *)
(* Content is a version number. The brand's page shows the version it was  *)
(* loaded with; the answer it posts names no version. BrandReloads says    *)
(* that the brand answers only about the version it would be shown now.    *)
(***************************************************************************)
EXTENDS Naturals

CONSTANTS
    Calls,            \* calls that can be under way at once
    Roles,            \* roles of the agency's callers
    RequireApproval,  \* tenant_settings.require_campaign_approval
    LookupMayFail,    \* the lookup of that setting may error, and its error is ignored
    BrandReloads,
    MaxVersion        \* bound on the number of versions

ASSUME ReviewAssumption ==
    /\ Roles \subseteq {"approver", "operator"}
    /\ {RequireApproval, LookupMayFail, BrandReloads} \subseteq BOOLEAN
    /\ MaxVersion \in Nat \ {0}

VARIABLES
    status,     \* campaigns.status, or "deleted"
    content,    \* the version of the content
    approval,   \* the version approved_by stands for, 0 when it is NULL
    brand,      \* the newest campaign_review_events row
    viewed,     \* the version on the brand's page
    call,       \* what each call has read, and will do
    cleared,    \* versions an owner, an admin or the brand has cleared
    sent        \* versions dispatched

campaignVars == <<status, content, approval>>
reviewVars == <<campaignVars, brand, viewed, call, cleared, sent>>

Versions == 1..MaxVersion
ReviewStatuses == {"draft", "pending_approval", "approved", "rejected", "scheduled",
                   "processing", "cancelled", "deleted"}
Operations == {"update", "submit", "approve", "reject", "schedule", "dispatch",
               "cancel", "delete", "decide", "advance"}
Decisions == {"none", "approved", "changes_requested"}

CallStates == [op : Operations \cup {"idle"}, role : {"approver", "operator"},
               status : ReviewStatuses, content : Versions, decision : Decisions]

Idle == [op |-> "idle", role |-> "operator", status |-> "draft", content |-> 1,
         decision |-> "none"]

ReviewTypeOK ==
    /\ status \in ReviewStatuses
    /\ content \in Versions
    /\ approval \in 0..MaxVersion
    /\ brand \in [decision : Decisions, version : 0..MaxVersion, current : BOOLEAN]
    /\ viewed \in 0..MaxVersion
    /\ call \in [Calls -> CallStates]
    /\ cleared \subseteq Versions
    /\ sent \subseteq Versions

ReviewInit ==
    /\ status = "draft"
    /\ content = 1
    /\ approval = 0
    /\ brand = [decision |-> "none", version |-> 0, current |-> FALSE]
    /\ viewed = 0
    /\ call = [c \in Calls |-> Idle]
    /\ cleared = {}
    /\ sent = {}

-----------------------------------------------------------------------------
\* The first half of a call: read, check, and return at once unless all is well.

BrandChangesOutstanding == brand.decision = "changes_requested" /\ brand.current
BrandReviewStale == brand.decision # "none" /\ ~ brand.current

campaignEditable ==
    \/ status \in {"draft", "rejected"}
    \/ status \in {"pending_approval", "approved"} /\ brand.decision = "changes_requested"

\* What the call takes the workspace's approval setting to be.
ApprovalSettings == {RequireApproval} \cup (IF LookupMayFail THEN {FALSE} ELSE {})

MaySchedule(role) ==
    /\ ~ BrandChangesOutstanding /\ ~ BrandReviewStale
    /\ \E required \in ApprovalSettings :
          required /\ role # "approver" => status = "approved"
    /\ status \in {"draft", "approved", "pending_approval"}

\* Mistaken variants, for mutation: a submission passes for an approval; an
\* outdated answer of the brand is good enough.
MayDispatchSubmitted(role) ==
    /\ status \notin {"processing", "cancelled", "rejected", "deleted"}
    /\ ~ BrandChangesOutstanding /\ ~ BrandReviewStale
    /\ RequireApproval /\ role # "approver" =>
          status \in {"pending_approval", "approved", "scheduled"}

MayDispatchStale(role) ==
    /\ status \notin {"processing", "cancelled", "rejected", "deleted"}
    /\ ~ BrandChangesOutstanding
    /\ RequireApproval /\ role # "approver" => status \in {"approved", "scheduled"}

\* The scheduler calls without a role, for a campaign it has found scheduled.
MayDispatch(role) ==
    /\ status \notin {"processing", "cancelled", "rejected", "deleted"}
    /\ ~ BrandChangesOutstanding /\ ~ BrandReviewStale
    /\ \E required \in ApprovalSettings :
          required /\ role # "approver" => status \in {"approved", "scheduled"}

Starts(c, op, role) ==
    /\ call[c].op = "idle"
    /\ call' = [call EXCEPT ![c] = [op |-> op, role |-> role, status |-> status,
                                    content |-> content, decision |-> "none"]]
    /\ UNCHANGED <<campaignVars, brand, viewed, cleared, sent>>

StartCall(c) ==
    \E role \in Roles :
        \/ campaignEditable /\ content < MaxVersion /\ Starts(c, "update", role)
        \/ status \in {"draft", "rejected"} /\ Starts(c, "submit", role)
        \/ /\ role = "approver" /\ status = "pending_approval"
           /\ ~ BrandChangesOutstanding
           /\ Starts(c, "approve", role)
        \/ /\ role = "approver" /\ status = "pending_approval"
           /\ Starts(c, "reject", role)
        \/ MaySchedule(role) /\ Starts(c, "schedule", role)
        \/ MayDispatch(role) /\ Starts(c, "dispatch", role)
        \/ /\ status \in {"draft", "scheduled", "pending_approval", "approved"}
           /\ Starts(c, "cancel", role)
        \/ status = "draft" /\ Starts(c, "delete", role)

-----------------------------------------------------------------------------
\* The second half: one UPDATE, which does nothing when its WHERE fails.

Returns(c) == call' = [call EXCEPT ![c] = Idle]

\* A guarded UPDATE of the status alone.
Moves(c, op, from, to) ==
    /\ call[c].op = op
    /\ status' = IF status \in from THEN to ELSE status
    /\ Returns(c)

\* The UPDATE of the content, which stamps content_revised_at. `reset` is the
\* caller's resetApproval.
Edit(c, reset) ==
    /\ call[c].op = "update"
    /\ content < MaxVersion
    /\ \/ /\ status \in {"draft", "rejected", "pending_approval", "approved"}
          /\ content' = content + 1
          /\ brand' = [brand EXCEPT !.current = FALSE]
          /\ IF reset THEN status' = "draft" /\ approval' = 0
                      ELSE UNCHANGED <<status, approval>>
       \/ /\ status \notin {"draft", "rejected", "pending_approval", "approved"}
          /\ UNCHANGED <<campaignVars, brand>>
    /\ Returns(c)
    /\ UNCHANGED <<viewed, cleared, sent>>

\* Mistaken variant, for mutation: only a rejection is undone.
UpdateKeepingApproval(c) == Edit(c, call[c].status = "rejected")

\* Approval and submission are cleared when the status READ was not draft.
UpdateContent(c) == Edit(c, call[c].status # "draft")

SubmitForApproval(c) ==
    /\ Moves(c, "submit", {"draft", "rejected"}, "pending_approval")
    /\ UNCHANGED <<content, approval, brand, viewed, cleared, sent>>

\* The UPDATE of ApproveCampaign; `version` is the one the approver looked at.
Approves(version) ==
    IF status = "pending_approval"
    THEN /\ status' = "approved"
         /\ approval' = version
         /\ cleared' = cleared \cup {version}
    ELSE UNCHANGED <<status, approval, cleared>>

ApproveCampaign(c) ==
    /\ call[c].op = "approve"
    /\ Approves(call[c].content)
    /\ Returns(c)
    /\ UNCHANGED <<content, brand, viewed, sent>>

RejectCampaign(c) ==
    /\ Moves(c, "reject", {"pending_approval"}, "rejected")
    /\ UNCHANGED <<content, approval, brand, viewed, cleared, sent>>

\* An owner or admin who schedules or dispatches clears the version by doing so.
ClearedBy(c) == IF call[c].role = "approver" THEN cleared \cup {call[c].content}
                                            ELSE cleared

SetScheduled(c) ==
    /\ Moves(c, "schedule", {"draft", "approved"}, "scheduled")
    /\ cleared' = IF status \in {"draft", "approved"} THEN ClearedBy(c) ELSE cleared
    /\ UNCHANGED <<content, approval, brand, viewed, sent>>

\* TriggerDispatch publishes the content it has read, then marks the campaign,
\* whatever has become of it.
SendAndMark(c) ==
    /\ call[c].op = "dispatch"
    /\ status' = IF status = "deleted" THEN status ELSE "processing"
    /\ sent' = sent \cup {call[c].content}
    /\ cleared' = ClearedBy(c)
    /\ Returns(c)
    /\ UNCHANGED <<content, approval, brand, viewed>>

CancelCampaign(c) ==
    /\ Moves(c, "cancel", {"draft", "scheduled", "pending_approval", "approved"},
             "cancelled")
    /\ UNCHANGED <<content, approval, brand, viewed, cleared, sent>>

DeleteDraft(c) ==
    /\ Moves(c, "delete", {"draft"}, "deleted")
    /\ UNCHANGED <<content, approval, brand, viewed, cleared, sent>>

\* One UPDATE, with no read before it.
CancelScheduledCampaign(c) ==
    /\ call[c].op = "idle"
    /\ status = "scheduled"
    /\ status' = "draft"
    /\ UNCHANGED <<content, approval, brand, viewed, call, cleared, sent>>

-----------------------------------------------------------------------------
\* The brand.

GetPublicReview ==
    /\ status # "deleted"
    /\ viewed' = content
    /\ UNCHANGED <<campaignVars, brand, call, cleared, sent>>

\* Decide reads the campaign, records the answer, and advances a campaign that
\* it has read as pending.
StartDecide(c) ==
    /\ call[c].op = "idle"
    /\ status \in {"draft", "pending_approval", "approved"}
    /\ viewed # 0
    /\ BrandReloads => viewed = content
    /\ \E decision \in Decisions \ {"none"} :
          call' = [call EXCEPT ![c] = [op |-> "decide", role |-> "operator",
                                       status |-> status, content |-> viewed,
                                       decision |-> decision]]
    /\ UNCHANGED <<campaignVars, brand, viewed, cleared, sent>>

RecordDecision(c) ==
    /\ call[c].op = "decide"
    /\ \/ /\ status # "deleted"
          /\ brand' = [decision |-> call[c].decision, version |-> call[c].content,
                       current |-> TRUE]
          /\ IF call[c].decision = "approved" /\ call[c].status = "pending_approval"
             THEN call' = [call EXCEPT ![c].op = "advance"]
             ELSE Returns(c)
       \/ /\ status = "deleted"
          /\ Returns(c)
          /\ UNCHANGED brand
    /\ UNCHANGED <<campaignVars, viewed, cleared, sent>>

AdvanceDecided(c) ==
    /\ call[c].op = "advance"
    /\ Approves(call[c].content)
    /\ Returns(c)
    /\ UNCHANGED <<content, brand, viewed, sent>>

ReviewNext ==
    \/ GetPublicReview
    \/ \E c \in Calls :
          \/ StartCall(c) \/ StartDecide(c) \/ CancelScheduledCampaign(c)
          \/ UpdateContent(c) \/ SubmitForApproval(c) \/ ApproveCampaign(c)
          \/ RejectCampaign(c) \/ SetScheduled(c) \/ SendAndMark(c)
          \/ CancelCampaign(c) \/ DeleteDraft(c)
          \/ RecordDecision(c) \/ AdvanceDecided(c)

ReviewSpec == ReviewInit /\ [][ReviewNext]_reviewVars

-----------------------------------------------------------------------------

\* "So edited content is never covered by an approval granted for an earlier
\* version": an approved campaign holds the version its approver looked at.
ApprovedIsCurrent == status = "approved" => approval = content

\* In a workspace that requires approval, no version goes out that nobody with
\* the right to has cleared, by whatever detour through rejection, brand review,
\* scheduling and unscheduling.
OnlyClearedIsSent == RequireApproval => sent \subseteq cleared

\* BrandReviewCurrent "reports whether the latest brand decision still describes
\* the current content".
BrandReviewIsCurrent == brand.current => brand.version = content

\* What a decision says it is about is what the campaign holds.
DecisionsAreCurrent == ApprovedIsCurrent /\ BrandReviewIsCurrent

\* A brand that has answered has said yes to what goes out.
BrandHasAgreed ==
    [][sent' # sent => \/ brand.decision = "none"
                       \/ brand.decision = "approved" /\ sent' \ sent \subseteq {brand.version}
      ]_reviewVars

=============================================================================
