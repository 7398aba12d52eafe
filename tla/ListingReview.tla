---------------------------- MODULE ListingReview ----------------------------
(***************************************************************************)
(* The life of ONE seller listing from its submission to its auction: the  *)
(* seller's edit page (save, save and resubmit), the administrators'       *)
(* review queue (review, schedule), and listing.rs at the HTTP server.     *)
(* The pages work on query data that may be stale, a request is several    *)
(* steps at the server, and nothing disables the administrators' buttons.  *)
(* The content of the listing is a version number.                         *)
(***************************************************************************)
EXTENDS Integers, FiniteSets

CONSTANTS
    Admins,
    MaxEdits,    \* bound: versions of the content
    MaxReviews,  \* bound: reviews sent
    MaxSchedules,\* bound: schedules sent
    Events       \* what may happen once: "reply" an answer is lost, "update" the listing
                 \* is not updated after its auction was created, "history" it is updated
                 \* and the row of its history is not stored

ASSUME ListingAssumption ==
    /\ IsFiniteSet(Admins) /\ MaxEdits \in Nat \ {0}
    /\ MaxReviews \in Nat /\ MaxSchedules \in Nat
    /\ Events \subseteq {"reply", "update", "history"}

VARIABLES
    listing,     \* the row: status, content, feedback, auction
    auctions,    \* the auctions created for the listing
    data,        \* the seller page's query data
    form,        \* the seller page's edited content
    save,        \* the seller page's mutation
    queue,       \* each administrator's query data
    review,      \* each administrator's review mutation
    schedule,    \* each administrator's schedule mutation
    \* history and bounds
    approved,    \* the content when the listing was approved
    edits, reviews, schedules, events

sellerVars == <<data, form, save>>
adminVars  == <<queue, review, schedule>>
countVars  == <<edits, reviews, schedules>>
vars == <<listing, auctions, sellerVars, adminVars, approved, countVars, events>>

Statuses   == {"SUBMITTED", "CHANGES_REQUESTED", "APPROVED", "REJECTED", "SCHEDULED"}
Contents   == 1..MaxEdits
Decisions  == {"APPROVED", "CHANGES_REQUESTED", "REJECTED"}
None == 0

\* update_listing and resubmit_listing; nothing creates a DRAFT.
Editable(status) == status = "CHANGES_REQUESTED"
\* review_listing; nothing sets UNDER_REVIEW.
Reviewable(status) == status \in {"SUBMITTED", "CHANGES_REQUESTED"}

NoSave == [step |-> "idle", content |-> None, resubmit |-> FALSE]
NoReview == [step |-> "idle", decision |-> "APPROVED", feedback |-> FALSE]
NoSchedule == [step |-> "idle", content |-> None, auction |-> None]

\* create_listing has stored the listing; the pages are loaded.
Init ==
    /\ listing = [status |-> "SUBMITTED", content |-> 1, feedback |-> FALSE, auction |-> None]
    /\ auctions = {}
    /\ data = listing /\ form = 1 /\ save = NoSave
    /\ queue = [a \in Admins |-> listing]
    /\ review = [a \in Admins |-> NoReview] /\ schedule = [a \in Admins |-> NoSchedule]
    /\ approved = None /\ edits = 1 /\ reviews = 0 /\ schedules = 0 /\ events = {}

Event(kind) == kind \in Events \ events /\ events' = events \cup {kind}
NoEvent == UNCHANGED events

-----------------------------------------------------------------------------
(* The seller's edit page *)

sellerOnly == UNCHANGED <<listing, auctions, adminVars, approved, reviews, schedules>>

\* The query is read again; the effect replaces what is edited when it changed.
SellerRefetch ==
    /\ data # listing
    /\ data' = listing /\ form' = listing.content
    /\ NoEvent /\ UNCHANGED <<save, edits>> /\ sellerOnly

\* The seller types.
Edit ==
    /\ Editable(data.status) /\ edits < MaxEdits
    /\ edits' = edits + 1 /\ form' = edits + 1
    /\ NoEvent /\ UNCHANGED <<data, save>> /\ sellerOnly

\* Save changes, or save and resubmit.
Save(resubmit) ==
    /\ Editable(data.status) /\ save.step \in {"idle", "error"}
    /\ save' = [step |-> "put", content |-> form, resubmit |-> resubmit]
    /\ NoEvent /\ UNCHANGED <<data, form, edits>> /\ sellerOnly

\* onSuccess leaves the page.
SaveSucceeded ==
    /\ save.step = "ok"
    /\ save' = NoSave
    /\ NoEvent /\ UNCHANGED <<data, form, edits>> /\ sellerOnly

-----------------------------------------------------------------------------
(* The seller's requests at the server *)

sellerRequest == UNCHANGED <<auctions, data, form, adminVars, approved, countVars>>

\* What the page makes of an answer: a lost one is an error.
Answer(step) == save' = [save EXCEPT !.step = step] /\ NoEvent
LostAnswer == save' = [save EXCEPT !.step = "error"] /\ Event("reply")
AfterPut == IF save.resubmit THEN "resubmit" ELSE "ok"

\* Variant: the status of the listing is not looked at.
UpdateListingAlways ==
    /\ save.step = "put"
    /\ listing' = [listing EXCEPT !.content = save.content]
    /\ Answer(AfterPut) \/ LostAnswer
    /\ sellerRequest

\* Variant: no row updated is no error.
UpdateListingSilent ==
    /\ save.step = "put"
    /\ listing' = IF Editable(listing.status) THEN [listing EXCEPT !.content = save.content] ELSE listing
    /\ Answer(AfterPut) \/ LostAnswer
    /\ sellerRequest

\* update_listing.
UpdateListing ==
    /\ save.step = "put"
    /\ IF Editable(listing.status)
       THEN /\ listing' = [listing EXCEPT !.content = save.content]
            /\ Answer(AfterPut) \/ LostAnswer
       ELSE UNCHANGED listing /\ Answer("error")
    /\ sellerRequest

\* resubmit_listing.
ResubmitListing ==
    /\ save.step = "resubmit"
    /\ IF Editable(listing.status)
       THEN /\ listing' = [listing EXCEPT !.status = "SUBMITTED", !.feedback = FALSE]
            /\ Answer("ok") \/ LostAnswer
       ELSE UNCHANGED listing /\ Answer("error")
    /\ sellerRequest

-----------------------------------------------------------------------------
(* The administrators' queue *)

adminOnly == UNCHANGED <<listing, auctions, sellerVars, approved, edits>>

AdminRefetch(a) ==
    /\ queue[a] # listing /\ queue' = [queue EXCEPT ![a] = listing]
    /\ NoEvent /\ UNCHANGED <<review, schedule, reviews, schedules>> /\ adminOnly

Review(a, decision, feedback) ==
    /\ Reviewable(queue[a].status) /\ review[a].step = "idle" /\ reviews < MaxReviews
    /\ review' = [review EXCEPT ![a] = [step |-> "check", decision |-> decision, feedback |-> feedback]]
    /\ reviews' = reviews + 1
    /\ NoEvent /\ UNCHANGED <<queue, schedule, schedules>> /\ adminOnly

\* Both dates are chosen.
ScheduleAuction(a) ==
    /\ queue[a].status = "APPROVED" /\ schedule[a].step = "idle" /\ schedules < MaxSchedules
    /\ schedule' = [schedule EXCEPT ![a].step = "read"]
    /\ schedules' = schedules + 1
    /\ NoEvent /\ UNCHANGED <<queue, review, reviews>> /\ adminOnly

\* onSuccess reads the queue again, an error leaves it stale.
Answered(a) ==
    /\ \/ /\ review[a].step \in {"ok", "error"}
          /\ queue' = [queue EXCEPT ![a] = IF review[a].step = "ok" THEN listing ELSE @]
          /\ review' = [review EXCEPT ![a] = NoReview] /\ UNCHANGED schedule
       \/ /\ schedule[a].step \in {"ok", "error"}
          /\ queue' = [queue EXCEPT ![a] = IF schedule[a].step = "ok" THEN listing ELSE @]
          /\ schedule' = [schedule EXCEPT ![a] = NoSchedule] /\ UNCHANGED review
    /\ NoEvent /\ UNCHANGED <<reviews, schedules>> /\ adminOnly

-----------------------------------------------------------------------------
(* The administrators' requests at the server *)

adminRequest == UNCHANGED <<sellerVars, queue, countVars>>

\* review_listing: changes and rejections need feedback.
ReviewCheck(a) ==
    /\ review[a].step = "check"
    /\ review' = [review EXCEPT ![a].step =
          IF review[a].decision # "APPROVED" /\ ~review[a].feedback THEN "error" ELSE "update"]
    /\ NoEvent /\ UNCHANGED <<listing, auctions, schedule, approved>> /\ adminRequest

\* The transaction of review_listing.
ReviewUpdate(a) ==
    /\ review[a].step = "update"
    /\ IF Reviewable(listing.status)
       THEN /\ listing' = [listing EXCEPT !.status = review[a].decision, !.feedback = review[a].feedback]
            /\ approved' = IF review[a].decision = "APPROVED" THEN listing.content ELSE approved
            /\ \/ review' = [review EXCEPT ![a].step = "ok"] /\ NoEvent
               \/ review' = [review EXCEPT ![a].step = "error"] /\ Event("reply")
       ELSE review' = [review EXCEPT ![a].step = "error"] /\ NoEvent /\ UNCHANGED <<listing, approved>>
    /\ UNCHANGED <<auctions, schedule>> /\ adminRequest

\* schedule_listing reads the approved listing.
ScheduleRead(a) ==
    /\ schedule[a].step = "read"
    /\ schedule' = [schedule EXCEPT ![a] =
          IF listing.status = "APPROVED" THEN [@ EXCEPT !.step = "create", !.content = listing.content]
          ELSE [@ EXCEPT !.step = "error"]]
    /\ NoEvent /\ UNCHANGED <<listing, auctions, review, approved>> /\ adminRequest

\* create_auction_service with the content read: one transaction, which refuses the
\* chosen dates or fails, or leaves an auction.
ScheduleCreate(a) ==
    /\ schedule[a].step = "create"
    /\ \/ LET id == Cardinality(auctions) + 1
          IN  /\ auctions' = auctions \cup {[id |-> id, content |-> schedule[a].content]}
              /\ schedule' = [schedule EXCEPT ![a].step = "update", ![a].auction = id]
       \/ schedule' = [schedule EXCEPT ![a].step = "error"] /\ UNCHANGED auctions
    /\ NoEvent /\ UNCHANGED <<listing, review, approved>> /\ adminRequest

\* Variant: the link to the auction is not stored.
ScheduleUpdateUnlinked(a) ==
    /\ schedule[a].step = "update"
    /\ listing' = [listing EXCEPT !.status = "SCHEDULED"]
    /\ schedule' = [schedule EXCEPT ![a].step = "ok"] /\ NoEvent
    /\ UNCHANGED <<auctions, review, approved>> /\ adminRequest

\* The listing is updated whatever its status is, or that fails.  No transaction
\* joins the update and its row in the history: without the row the request fails
\* and the listing stays scheduled.
ScheduleUpdate(a) ==
    /\ schedule[a].step = "update"
    /\ \/ /\ listing' = [listing EXCEPT !.status = "SCHEDULED", !.auction = schedule[a].auction]
          /\ \/ schedule' = [schedule EXCEPT ![a].step = "ok"] /\ NoEvent
             \/ schedule' = [schedule EXCEPT ![a].step = "error"] /\ Event("history")
       \/ /\ schedule' = [schedule EXCEPT ![a].step = "error"] /\ Event("update") /\ UNCHANGED listing
    /\ UNCHANGED <<auctions, review, approved>> /\ adminRequest

Next ==
    \/ SellerRefetch \/ Edit \/ SaveSucceeded \/ UpdateListing \/ ResubmitListing
    \/ \E resubmit \in BOOLEAN : Save(resubmit)
    \/ \E a \in Admins :
          \/ AdminRefetch(a) \/ Answered(a) \/ ScheduleAuction(a)
          \/ ReviewCheck(a) \/ ReviewUpdate(a)
          \/ ScheduleRead(a) \/ ScheduleCreate(a) \/ ScheduleUpdate(a)
          \/ \E decision \in Decisions, feedback \in BOOLEAN : Review(a, decision, feedback)

Spec == Init /\ [][Next]_vars

-----------------------------------------------------------------------------
(* Properties *)

\* The variables have their types; no listing is ever a draft again.
TypeOK ==
    /\ listing \in [status : Statuses, content : Contents, feedback : BOOLEAN, auction : 0..MaxSchedules]
    /\ auctions \subseteq [id : 1..MaxSchedules, content : Contents]
    /\ data.status \in Statuses /\ form \in Contents
    /\ save \in [step : {"idle", "put", "resubmit", "ok", "error"}, content : Contents \cup {None}, resubmit : BOOLEAN]
    /\ review \in [Admins -> [step : {"idle", "check", "update", "ok", "error"},
                              decision : Decisions, feedback : BOOLEAN]]
    /\ schedule \in [Admins -> [step : {"idle", "read", "create", "update", "ok", "error"},
                                content : Contents \cup {None}, auction : 0..MaxSchedules]]
    /\ \A a \in Admins : queue[a].status \in Statuses
    /\ approved \in Contents \cup {None} /\ edits \in Contents

\* schedule_listing takes the content it read earlier and updates the listing
\* without a condition; still every auction, also one left over by a failure or
\* created twice, runs with the content that was approved, its listing is not
\* under review again, and a scheduled listing is linked to one of its auctions.
ScheduledAsApproved ==
    /\ auctions # {} => listing.status \in {"APPROVED", "SCHEDULED"}
    /\ \A x \in auctions : x.content = approved
    /\ listing.status = "SCHEDULED" => \E x \in auctions : x.id = listing.auction

\* review_listing, update_listing: an approval, a rejection and a schedule are final,
\* for reviews sent from a stale queue, edits from a stale page and late requests too.
DecisionsAreFinal ==
    [][listing.status \in {"APPROVED", "REJECTED", "SCHEDULED"} =>
          /\ listing'.content = listing.content
          /\ listing'.status \in {listing.status} \cup (IF listing.status = "APPROVED" THEN {"SCHEDULED"} ELSE {})]_vars

\* What the seller is told is what is stored.  update_listing and resubmit_listing
\* are two requests, and an administrator may decide between them: a seller who is
\* told that the changes are saved finds them in the listing.  listing.rs:399
\* "Feedback is required for changes or rejection": a seller whose listing was sent
\* back finds the feedback, whatever was saved, resubmitted and reviewed since.
SellerIsTold ==
    /\ save.step = "ok" => listing.content = save.content
    /\ listing.status \in {"CHANGES_REQUESTED", "REJECTED"} => listing.feedback
===============================================================================
