------------------------- MODULE ListingReviewProofs -------------------------
(***************************************************************************)
(* Proofs about ListingReview, for any number of administrators, edits,    *)
(* reviews and schedules: auctions run with what was approved, a decision  *)
(* is final, and the seller is told the truth.                             *)
(***************************************************************************)
EXTENDS ListingReview, FiniteSetTheorems, TLAPS

Rows == [status : Statuses, content : Nat, feedback : BOOLEAN, auction : Nat]
Saves == [step : {"idle", "put", "resubmit", "ok", "error"}, content : Nat, resubmit : BOOLEAN]
Reviews == [step : {"idle", "check", "update", "ok", "error"}, decision : Decisions, feedback : BOOLEAN]
Schedules == [step : {"idle", "read", "create", "update", "ok", "error"}, content : Nat, auction : Nat]

\* The records have their fields.  The pages' query data needs no type: what the
\* server does never depends on it.
Shapes ==
    /\ listing \in Rows
    /\ IsFiniteSet(auctions)
    /\ form \in Nat /\ edits \in Nat /\ save \in Saves
    /\ review \in [Admins -> Reviews] /\ schedule \in [Admins -> Schedules]

\* A schedule under way has read the listing while it was approved, and nothing
\* takes an approved listing back.
ScheduleInv ==
    /\ ScheduledAsApproved
    /\ listing.status \in {"APPROVED", "SCHEDULED"} => approved = listing.content
    /\ \A a \in Admins : schedule[a].step \in {"create", "update"} =>
          listing.status \in {"APPROVED", "SCHEDULED"} /\ schedule[a].content = approved
    /\ \A a \in Admins : schedule[a].step = "update" =>
          \E x \in auctions : x.id = schedule[a].auction

\* Only the seller's own put changes the content; a decision that needs feedback
\* has passed the check.
TellInv ==
    /\ SellerIsTold
    /\ save.step = "resubmit" => listing.content = save.content
    /\ \A a \in Admins : review[a].step = "update" /\ review[a].decision # "APPROVED" =>
          review[a].feedback

ListingInv == Shapes /\ ScheduleInv /\ TellInv

-----------------------------------------------------------------------------
(* The inductive invariant *)

\* create_listing stores a submitted listing; no request is under way.
LEMMA ListingInit == Init => ListingInv
  <1> SUFFICES ASSUME Init PROVE ListingInv
    OBVIOUS
  <1>1. Shapes
    <2>1. IsFiniteSet(auctions)
      BY FS_EmptySet DEF Init
    <2>2. QED
      BY <2>1 DEF Init, Shapes, Rows, Saves, Reviews, Schedules, Statuses, Decisions,
                  NoSave, NoReview, NoSchedule, None
  <1>2. ScheduleInv
    BY DEF Init, ScheduleInv, ScheduledAsApproved, NoSchedule
  <1>3. TellInv
    BY DEF Init, TellInv, SellerIsTold, NoSave, NoReview
  <1>4. QED
    BY <1>1, <1>2, <1>3 DEF ListingInv

\* The seller page's own steps change neither the listing nor a request of an
\* administrator; a save that is reported as done was stored.
LEMMA SellerPageSteps ==
    ASSUME ListingInv,
           SellerRefetch \/ Edit \/ SaveSucceeded \/ \E resubmit \in BOOLEAN : Save(resubmit)
    PROVE  ListingInv'
  <1> USE DEF ListingInv, Shapes
  <1>1. /\ UNCHANGED <<listing, auctions, review, schedule, approved>>
        /\ save' = save \/ save'.step \in {"idle", "put"}
    BY DEF SellerRefetch, Edit, SaveSucceeded, Save, sellerOnly, adminVars, NoSave
  <1>2. Shapes'
    <2>1. form' \in Nat /\ edits' \in Nat
      BY DEF SellerRefetch, Edit, SaveSucceeded, Save, Rows
    <2>2. save' \in Saves
      <3>1. CASE \E resubmit \in BOOLEAN : Save(resubmit)
        BY <3>1 DEF Save, Saves
      <3>2. CASE SaveSucceeded
        BY <3>2 DEF SaveSucceeded, NoSave, None, Saves
      <3>3. QED
        BY <3>1, <3>2 DEF SellerRefetch, Edit
    <2>3. QED
      BY <1>1, <2>1, <2>2
  <1>3. ScheduleInv'
    BY <1>1 DEF ScheduleInv, ScheduledAsApproved
  <1>4. TellInv'
    BY <1>1 DEF TellInv, SellerIsTold
  <1>5. QED
    BY <1>2, <1>3, <1>4

\* update_listing and resubmit_listing touch a listing only while changes are
\* requested: then no auction exists and no schedule is past its read.
LEMMA SellerRequestSteps ==
    ASSUME ListingInv, UpdateListing \/ ResubmitListing
    PROVE  ListingInv'
  <1> USE DEF ListingInv, Shapes
  <1>1. UNCHANGED <<auctions, form, review, schedule, approved, edits>>
    BY DEF UpdateListing, ResubmitListing, sellerRequest, adminVars, countVars
  <1>2. save' \in Saves
    BY DEF UpdateListing, ResubmitListing, Answer, LostAnswer, AfterPut, Saves
  <1>3. CASE UNCHANGED listing
    <2>1. save'.step \in {"resubmit", "ok"} => FALSE \/ listing.content = save'.content
      BY <1>3 DEF UpdateListing, ResubmitListing, Answer, LostAnswer, AfterPut, Saves, Rows,
                  TellInv, Editable
    <2>2. QED
      BY <1>1, <1>2, <1>3, <2>1 DEF ScheduleInv, ScheduledAsApproved, TellInv, SellerIsTold
  <1>4. CASE listing' # listing
    <2>1. listing.status = "CHANGES_REQUESTED"
      BY <1>4 DEF UpdateListing, ResubmitListing, Editable
    <2>2. /\ auctions = {}
          /\ \A a \in Admins : schedule[a].step \notin {"create", "update"}
      BY <2>1 DEF ScheduleInv, ScheduledAsApproved
    <2>3. listing' \in Rows /\ listing'.status \in {"CHANGES_REQUESTED", "SUBMITTED"}
      BY <2>1, <1>4 DEF UpdateListing, ResubmitListing, Rows, Saves, Statuses
    <2>4. Shapes' /\ ScheduleInv'
      BY <1>1, <1>2, <2>2, <2>3 DEF ScheduleInv, ScheduledAsApproved
    <2>5. save'.step \in {"resubmit", "ok"} => listing'.content = save'.content
      BY <1>4 DEF UpdateListing, ResubmitListing, Answer, LostAnswer, AfterPut, Saves, Rows, TellInv
    <2>6. listing'.status = "CHANGES_REQUESTED" => listing'.feedback
      BY <2>1, <1>4 DEF UpdateListing, ResubmitListing, Rows, TellInv, SellerIsTold
    <2>7. QED
      BY <1>1, <2>3, <2>4, <2>5, <2>6 DEF TellInv, SellerIsTold
  <1>5. QED
    BY <1>3, <1>4

\* The administrator page's own steps start requests at their first step and
\* forget finished ones.
LEMMA AdminPageSteps ==
    ASSUME ListingInv, NEW a \in Admins,
           \/ AdminRefetch(a) \/ Answered(a) \/ ScheduleAuction(a)
           \/ \E decision \in Decisions, feedback \in BOOLEAN : Review(a, decision, feedback)
    PROVE  ListingInv'
  <1> USE DEF ListingInv, Shapes
  <1>1. UNCHANGED <<listing, auctions, form, save, approved, edits>>
    BY DEF AdminRefetch, Answered, ScheduleAuction, Review, adminOnly, sellerVars
  <1>2. review' \in [Admins -> Reviews] /\ schedule' \in [Admins -> Schedules]
    <2>1. NoReview \in Reviews /\ NoSchedule \in Schedules
      BY DEF NoReview, NoSchedule, None, Reviews, Schedules, Decisions
    <2>2. CASE Answered(a)
      BY <2>1, <2>2 DEF Answered
    <2>3. CASE ScheduleAuction(a)
      BY <2>3 DEF ScheduleAuction, Schedules
    <2>4. CASE \E decision \in Decisions, feedback \in BOOLEAN : Review(a, decision, feedback)
      <3>1. PICK decision \in Decisions, feedback \in BOOLEAN : Review(a, decision, feedback)
        BY <2>4
      <3>2. [step |-> "check", decision |-> decision, feedback |-> feedback] \in Reviews
        BY DEF Reviews
      <3>3. QED
        BY <3>1, <3>2 DEF Review
    <2>5. QED
      BY <2>2, <2>3, <2>4 DEF AdminRefetch
  <1>3. \A b \in Admins : /\ schedule'[b] = schedule[b] \/ schedule'[b].step \in {"idle", "read"}
                          /\ review'[b] = review[b] \/ review'[b].step \in {"idle", "check"}
    BY DEF AdminRefetch, Answered, ScheduleAuction, Review, Reviews, Schedules,
           NoReview, NoSchedule
  <1>4. Shapes'
    BY <1>1, <1>2
  <1>5. ScheduleInv'
    BY <1>1, <1>3 DEF ScheduleInv, ScheduledAsApproved
  <1>6. TellInv'
    BY <1>1, <1>3 DEF TellInv, SellerIsTold
  <1>7. QED
    BY <1>4, <1>5, <1>6

\* review_listing: the check lets a decision without its feedback through to no
\* update, and the transaction decides only a listing that has no auction.
LEMMA ReviewSteps ==
    ASSUME ListingInv, NEW a \in Admins, ReviewCheck(a) \/ ReviewUpdate(a)
    PROVE  ListingInv'
  <1> USE DEF ListingInv, Shapes
  <1>1. UNCHANGED <<auctions, form, save, schedule, edits>>
    BY DEF ReviewCheck, ReviewUpdate, adminRequest, sellerVars, countVars
  <1>2. review' \in [Admins -> Reviews]
    BY DEF ReviewCheck, ReviewUpdate, Reviews
  <1>3. \A b \in Admins : review'[b].step = "update" /\ review'[b].decision # "APPROVED"
                            => review'[b].feedback
    BY DEF ReviewCheck, ReviewUpdate, Reviews, TellInv
  <1>4. CASE UNCHANGED <<listing, approved>>
    BY <1>1, <1>2, <1>3, <1>4 DEF ScheduleInv, ScheduledAsApproved, TellInv, SellerIsTold
  <1>5. CASE ReviewUpdate(a) /\ Reviewable(listing.status)
    <2>1. /\ auctions = {}
          /\ \A b \in Admins : schedule[b].step \notin {"create", "update"}
      BY <1>5 DEF Reviewable, ScheduleInv, ScheduledAsApproved
    <2>2. /\ listing' \in Rows /\ listing'.status = review[a].decision
          /\ listing'.content = listing.content /\ listing'.feedback = review[a].feedback
          /\ review[a].decision \in Decisions
          /\ review[a].decision = "APPROVED" => approved' = listing.content
      BY <1>5 DEF ReviewUpdate, Rows, Reviews, Statuses, Decisions
    <2>3. review[a].decision # "APPROVED" => review[a].feedback
      BY <1>5 DEF ReviewUpdate, TellInv
    <2>4. ScheduleInv'
      BY <1>1, <2>1, <2>2 DEF ScheduleInv, ScheduledAsApproved, Decisions
    <2>5. TellInv'
      BY <1>1, <1>3, <2>2, <2>3 DEF TellInv, SellerIsTold, Decisions
    <2>6. QED
      BY <1>1, <1>2, <2>2, <2>4, <2>5
  <1>6. QED
    BY <1>4, <1>5 DEF ReviewCheck, ReviewUpdate

\* schedule_listing: what is read approved stays approved, so the auction created
\* later and the link stored after it are of the approved content.
LEMMA ScheduleSteps ==
    ASSUME ListingInv, NEW a \in Admins, ScheduleRead(a) \/ ScheduleCreate(a) \/ ScheduleUpdate(a)
    PROVE  ListingInv'
  <1> USE DEF ListingInv, Shapes
  <1>1. UNCHANGED <<form, save, review, approved, edits>>
    BY DEF ScheduleRead, ScheduleCreate, ScheduleUpdate, adminRequest, sellerVars, countVars
  <1>2. CASE ScheduleRead(a)
    <2>1. UNCHANGED <<listing, auctions>> /\ schedule' \in [Admins -> Schedules]
      BY <1>2 DEF ScheduleRead, Schedules, Rows
    <2>2. \A b \in Admins : b # a => schedule'[b] = schedule[b]
      BY <1>2 DEF ScheduleRead
    <2>3. /\ schedule'[a].step \in {"create", "error"}
          /\ schedule'[a].step = "create" => listing.status = "APPROVED"
                                             /\ schedule'[a].content = listing.content
      BY <1>2 DEF ScheduleRead, Schedules
    <2>4. ScheduleInv'
      BY <2>1, <2>2, <2>3, <1>1 DEF ScheduleInv, ScheduledAsApproved
    <2>5. QED
      BY <1>1, <2>1, <2>4 DEF TellInv, SellerIsTold
  <1>3. CASE ScheduleCreate(a)
    <2> DEFINE new == [id |-> Cardinality(auctions) + 1, content |-> schedule[a].content]
    <2>0. CASE schedule' = [schedule EXCEPT ![a].step = "error"] /\ UNCHANGED auctions
      <3>1. UNCHANGED listing /\ schedule' \in [Admins -> Schedules]
        BY <1>3, <2>0 DEF ScheduleCreate, Schedules
      <3>2. /\ \A b \in Admins : b # a => schedule'[b] = schedule[b]
            /\ schedule'[a].step = "error"
        BY <2>0 DEF Schedules
      <3>3. ScheduleInv'
        BY <2>0, <3>1, <3>2, <1>1 DEF ScheduleInv, ScheduledAsApproved
      <3>4. QED
        BY <2>0, <1>1, <3>1, <3>3 DEF TellInv, SellerIsTold
    <2> SUFFICES ASSUME ~(schedule' = [schedule EXCEPT ![a].step = "error"] /\ UNCHANGED auctions)
                 PROVE  ListingInv'
      BY <2>0
    <2>1. /\ auctions' = auctions \cup {new} /\ UNCHANGED listing
          /\ schedule' = [schedule EXCEPT ![a].step = "update", ![a].auction = new.id]
          /\ schedule[a].step = "create"
      BY <1>3 DEF ScheduleCreate
    <2>2. IsFiniteSet(auctions') /\ new.id \in Nat
      <3>1. Cardinality(auctions) \in Nat
        BY FS_CardinalityType
      <3>2. IsFiniteSet(auctions')
        BY <2>1, FS_AddElement
      <3>3. QED
        BY <3>1, <3>2
    <2>3. schedule' \in [Admins -> Schedules]
      BY <2>1, <2>2 DEF Schedules
    <2>4. /\ \A b \in Admins : b # a => schedule'[b] = schedule[b]
          /\ schedule'[a].step = "update" /\ schedule'[a].auction = new.id
          /\ schedule'[a].content = schedule[a].content
      BY <2>1 DEF Schedules
    <2>5. new \in auctions' /\ new.content = approved
      BY <2>1 DEF ScheduleInv
    <2>6. ScheduleInv'
      <3> HIDE DEF new
      <3> QED
        BY <2>1, <2>4, <2>5, <1>1 DEF ScheduleInv, ScheduledAsApproved
    <2>7. QED
      BY <1>1, <2>1, <2>2, <2>3, <2>6 DEF TellInv, SellerIsTold
  <1>4. CASE ScheduleUpdate(a)
    <2>1. /\ schedule[a].step = "update" /\ UNCHANGED auctions
          /\ listing.status \in {"APPROVED", "SCHEDULED"}
          /\ \E x \in auctions : x.id = schedule[a].auction
      BY <1>4 DEF ScheduleUpdate, ScheduleInv
    <2>2. /\ schedule' \in [Admins -> Schedules]
          /\ \A b \in Admins : b # a => schedule'[b] = schedule[b]
          /\ schedule'[a].step \in {"ok", "error"}
      BY <1>4 DEF ScheduleUpdate, Schedules
    <2>3. /\ listing' \in Rows /\ listing'.content = listing.content
          /\ \/ listing' = listing
             \/ listing'.status = "SCHEDULED" /\ listing'.auction = schedule[a].auction
      BY <1>4 DEF ScheduleUpdate, Rows, Statuses, Schedules
    <2>4. ScheduleInv'
      BY <2>1, <2>2, <2>3, <1>1 DEF ScheduleInv, ScheduledAsApproved
    <2>5. TellInv'
      BY <2>1, <2>3, <1>1 DEF TellInv, SellerIsTold
    <2>6. QED
      BY <1>1, <2>1, <2>2, <2>3, <2>4, <2>5
  <1>5. QED
    BY <1>2, <1>3, <1>4

\* Every step of the pages and of the server keeps the invariant.
LEMMA ListingStep == ListingInv /\ [Next]_vars => ListingInv'
  <1> SUFFICES ASSUME ListingInv, [Next]_vars PROVE ListingInv'
    OBVIOUS
  <1>1. CASE UNCHANGED vars
    BY <1>1 DEF vars, sellerVars, adminVars, countVars, ListingInv, Shapes, ScheduleInv,
                ScheduledAsApproved, TellInv, SellerIsTold
  <1>2. CASE Next
    BY <1>2, SellerPageSteps, SellerRequestSteps, AdminPageSteps, ReviewSteps, ScheduleSteps DEF Next
  <1>3. QED
    BY <1>1, <1>2

\* The invariant of the listings workflow.
THEOREM ListingInvariant == Spec => []ListingInv
  BY ListingInit, ListingStep, PTL DEF Spec

-----------------------------------------------------------------------------
(* The results *)

\* schedule_listing: every auction of the listing runs with the approved content,
\* its listing is not under review again, and a scheduled listing is linked to
\* one of its auctions.
THEOREM AuctionsAreScheduledAsApproved == Spec => []ScheduledAsApproved
  <1>1. ListingInv => ScheduledAsApproved
    BY DEF ListingInv, ScheduleInv
  <1>2. QED
    BY <1>1, ListingInvariant, PTL

\* update_listing, resubmit_listing, review_listing: what the seller is told is
\* what is stored.
THEOREM SellersAreTold == Spec => []SellerIsTold
  <1>1. ListingInv => SellerIsTold
    BY DEF ListingInv, TellInv
  <1>2. QED
    BY <1>1, ListingInvariant, PTL

\* review_listing, update_listing, schedule_listing: no request, however late,
\* takes an approval, a rejection or a schedule back.
THEOREM FinalDecisions == Spec => DecisionsAreFinal
  <1> DEFINE Final == listing.status \in {"APPROVED", "REJECTED", "SCHEDULED"} =>
          /\ listing'.content = listing.content
          /\ listing'.status \in {listing.status} \cup
                (IF listing.status = "APPROVED" THEN {"SCHEDULED"} ELSE {})
  <1>1. ListingInv /\ [Next]_vars => [Final]_vars
    <2> SUFFICES ASSUME ListingInv, Next, listing' # listing,
                        listing.status \in {"APPROVED", "REJECTED", "SCHEDULED"}
                 PROVE  listing'.content = listing.content
                        /\ listing.status \in {"APPROVED", "SCHEDULED"}
                        /\ listing'.status = "SCHEDULED"
      OBVIOUS
    <2>1. PICK a \in Admins : ScheduleUpdate(a)
      BY DEF Next, SellerRefetch, Edit, SaveSucceeded, Save, sellerOnly, UpdateListing,
             ResubmitListing, Editable, AdminRefetch, Answered, ScheduleAuction, Review, adminOnly,
             ReviewCheck, ReviewUpdate, Reviewable, ScheduleRead, ScheduleCreate
    <2>2. listing.status \in {"APPROVED", "SCHEDULED"}
      BY <2>1 DEF ScheduleUpdate, ListingInv, ScheduleInv
    <2>3. QED
      BY <2>1, <2>2 DEF ScheduleUpdate, ListingInv, Shapes, Rows
  <1>2. QED
    BY <1>1, ListingInvariant, PTL DEF Spec, DecisionsAreFinal
===============================================================================
