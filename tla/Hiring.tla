------------------------------- MODULE Hiring -------------------------------
(* Recruitment (recruitment.py): job openings, their applicants, the interviews of an applicant and the offer made
to him, down to the onboarding it starts.  An applicant is moved by hand along a matrix and, past it, by what is
decided of his offer.  HRMS itself keeps to one interview of a round and to one offer for an applicant.

A request reads its snapshot: the present one, or the one `held' since another request was let through.  What is
written by db.set_value is written over whatever the row has become. *)
EXTENDS Integers, FiniteSets
CONSTANTS
  Openings, Applicants, Rounds,
  Overlaps   \* the values of `overlap' to look at
VARIABLES
  opening, applicant,
  interview,  \* the state of each round of an applicant
  offer,
  onboarded,  \* applicants with an onboarding
  held,       \* the snapshot a request still reads, if any
  overlap     \* whether requests overlap
vars == <<opening, applicant, interview, offer, onboarded, held, overlap>>

NoOpening == "None"
NoApplicant == [status |-> "None", of |-> NoOpening]
Now == [opening |-> opening, applicant |-> applicant, interview |-> interview, offer |-> offer]
Views == {Now} \cup held
Hold ==
  /\ overlap /\ held = {} /\ held' = {Now}
  /\ UNCHANGED <<opening, applicant, interview, offer, onboarded, overlap>>
Ends(v) == held' \in {held \ {v}, held \ ({v} \ {Now})} /\ UNCHANGED overlap

OPENING_STATUSES   == {"Open", "Closed"}
APPLICANT_STATUSES == {"Open", "Replied", "Rejected", "Hold", "Accepted"}
INTERVIEW_STATUSES == {"Pending", "Under Review", "Cleared", "Rejected"}
OFFER_STATUSES     == {"Awaiting Response", "Accepted", "Rejected"}
_FEEDBACK_STATUSES == INTERVIEW_STATUSES \ {"Pending"}
_ACTIVE_APPLICANT_STATUSES == {"Open", "Replied", "Hold"}
_APPLICANT_TRANSITIONS(from) ==
  CASE from = "Open"     -> {"Replied", "Hold", "Rejected"}
    [] from = "Replied"  -> {"Hold", "Rejected", "Accepted"}
    [] from = "Hold"     -> {"Replied", "Rejected"}
    [] from = "Rejected" -> {"Open"}
    [] OTHER             -> {}

ApplicantsOf(v, o) == {a \in Applicants : v.applicant[a].of = o}
ActiveOf(v, o) == {a \in ApplicantsOf(v, o) : v.applicant[a].status \in _ACTIVE_APPLICANT_STATUSES}
Held(v, a) == {r \in Rounds : v.interview[a][r] # "None"}
_all_rounds_cleared(v, a) == Held(v, a) # {} /\ \A r \in Held(v, a) : v.interview[a][r] = "Cleared"
Known(v, a) == v.applicant[a] # NoApplicant

-----------------------------------------------------------------------------
(* Openings. *)

save_job_opening(v, o) ==
  /\ opening[o] = "None" /\ opening' = [opening EXCEPT ![o] = "Open"]
  /\ Ends(v) /\ UNCHANGED <<applicant, interview, offer, onboarded>>
set_job_opening_status(v, o, status, force) ==
  /\ v.opening[o] # "None" /\ opening[o] # "None"
  /\ status = "Closed" /\ ~force => ActiveOf(v, o) = {}
  /\ opening' = [opening EXCEPT ![o] = status]
  /\ Ends(v) /\ UNCHANGED <<applicant, interview, offer, onboarded>>
\* Mutant: only applicants still in progress count, as when closing.
UnlinkedActive(v, o) == ActiveOf(v, o) = {}
Unlinked(v, o) == ApplicantsOf(v, o) = {}
delete_job_opening(v, o) ==
  /\ v.opening[o] # "None" /\ Unlinked(v, o)
  /\ opening' = [opening EXCEPT ![o] = "None"]
  /\ Ends(v) /\ UNCHANGED <<applicant, interview, offer, onboarded>>

-----------------------------------------------------------------------------
(* Applicants and their interviews. *)

\* For an opening, closed or not, or for none.
submit_job_application(v, a, o) ==
  /\ ~Known(Now, a) /\ (o # NoOpening => v.opening[o] # "None")
  /\ applicant' = [applicant EXCEPT ![a] = [status |-> "Open", of |-> o]]
  /\ Ends(v) /\ UNCHANGED <<opening, interview, offer, onboarded>>
set_applicant_status(v, a, status) ==
  /\ status \in _APPLICANT_TRANSITIONS(v.applicant[a].status)
  /\ applicant' = [applicant EXCEPT ![a].status = status]
  /\ Ends(v) /\ UNCHANGED <<opening, interview, offer, onboarded>>
\* Whatever has become of the applicant.
schedule_interview(v, a, r) ==
  /\ Known(v, a) /\ interview[a][r] = "None"
  /\ interview' = [interview EXCEPT ![a][r] = "Pending"]
  /\ Ends(v) /\ UNCHANGED <<opening, applicant, offer, onboarded>>
\* Again too, and after the offer.
submit_interview_feedback(v, a, r, status) ==
  /\ v.interview[a][r] # "None" /\ status \in _FEEDBACK_STATUSES
  /\ interview' = [interview EXCEPT ![a][r] = status]
  /\ Ends(v) /\ UNCHANGED <<opening, applicant, offer, onboarded>>

-----------------------------------------------------------------------------
(* Offers. *)

save_job_offer(v, a, force) ==
  /\ Known(v, a) /\ offer[a] = "None"
  /\ v.applicant[a].status # "Rejected"
  /\ force \/ _all_rounds_cleared(v, a)
  /\ offer' = [offer EXCEPT ![a] = "Awaiting Response"]
  /\ Ends(v) /\ UNCHANGED <<opening, applicant, interview, onboarded>>
\* Mutant: the offer decides, whatever was decided of the applicant.
FollowsAlways(read, is, status) == status
Follows(read, is, status) == IF read \in {"Accepted", "Rejected"} THEN is ELSE status
\* Decided again too.  An onboarding that cannot be inserted is logged, and the offer is decided without it.
set_job_offer_status(v, a, status, create_onboarding) ==
  /\ v.offer[a] # "None" /\ status \in {"Accepted", "Rejected"}
  /\ offer' = [offer EXCEPT ![a] = status]
  /\ applicant' = [applicant EXCEPT ![a].status = Follows(v.applicant[a].status, @, status)]
  /\ onboarded' \in IF status = "Accepted" /\ create_onboarding THEN {onboarded, onboarded \cup {a}} ELSE {onboarded}
  /\ Ends(v) /\ UNCHANGED <<opening, interview>>

-----------------------------------------------------------------------------
Init ==
  /\ opening = [o \in Openings |-> "None"] /\ applicant = [a \in Applicants |-> NoApplicant]
  /\ interview = [a \in Applicants |-> [r \in Rounds |-> "None"]] /\ offer = [a \in Applicants |-> "None"]
  /\ onboarded = {} /\ held = {} /\ overlap \in Overlaps
Next ==
  \/ Hold
  \/ \E v \in Views :
       \/ \E o \in Openings :
            \/ save_job_opening(v, o) \/ delete_job_opening(v, o)
            \/ \E s \in OPENING_STATUSES, f \in BOOLEAN : set_job_opening_status(v, o, s, f)
       \/ \E a \in Applicants :
            \/ \E o \in Openings \cup {NoOpening} : submit_job_application(v, a, o)
            \/ \E s \in APPLICANT_STATUSES : set_applicant_status(v, a, s)
            \/ \E r \in Rounds :
                 \/ schedule_interview(v, a, r)
                 \/ \E s \in _FEEDBACK_STATUSES : submit_interview_feedback(v, a, r, s)
            \/ \E f \in BOOLEAN : save_job_offer(v, a, f)
            \/ \E s \in {"Accepted", "Rejected"}, c \in BOOLEAN : set_job_offer_status(v, a, s, c)
Spec == Init /\ [][Next]_vars

-----------------------------------------------------------------------------
(* Properties. *)

TypeOK ==
  /\ opening \in [Openings -> OPENING_STATUSES \cup {"None"}]
  /\ applicant \in [Applicants -> [status : APPLICANT_STATUSES, of : Openings \cup {NoOpening}] \cup {NoApplicant}]
  /\ interview \in [Applicants -> [Rounds -> INTERVIEW_STATUSES \cup {"None"}]]
  /\ offer \in [Applicants -> OFFER_STATUSES \cup {"None"}]
  /\ onboarded \subseteq Applicants /\ Cardinality(held) <= 1 /\ overlap \in BOOLEAN
\* When requests do not overlap, nobody applies for an opening that is gone (delete_job_opening).
OpeningIsThere == ~overlap => \A a \in Applicants : applicant[a].of # NoOpening => opening[applicant[a].of] # "None"
\* When requests do not overlap, who was accepted by hand or by his offer stays accepted
\* (set_applicant_status, set_job_offer_status).
AcceptedStays ==
  ~overlap => \A a \in Applicants : applicant[a].status = "Accepted" => applicant'[a].status = "Accepted"

\* Refuted.  Who is onboarded was accepted: the offer of one who was rejected meanwhile can be accepted.
OnboardedIsAccepted == \A a \in onboarded : applicant[a].status = "Accepted"
\* Refuted.  "Closing guards against applicants still in progress": one can apply to what is closed.
ClosedIsQuiet == \A o \in Openings : opening[o] = "Closed" => ActiveOf(Now, o) = {}
\* Refuted.  An accepted offer is a hired applicant.
OfferIsFollowed == \A a \in Applicants : offer[a] = "Accepted" => applicant[a].status = "Accepted"
=============================================================================
