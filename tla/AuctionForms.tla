----------------------------- MODULE AuctionForms -----------------------------
(***************************************************************************)
(* The web client's four forms that publish something: a shipment, a       *)
(* forward auction, an auction of either type, and a seller's listing.     *)
(* One visit of one form: the user edits, adds and removes files and       *)
(* submits; the submission (a React Query mutation) uploads the files one  *)
(* after the other, builds a payload and posts it while the user goes on   *)
(* editing or leaves the page; the HTTP server validates and stores it.    *)
(*                                                                         *)
(* A form is a function of fields.  "title" stands for the texts and       *)
(* measures of its section, "place" for origin and destination (same       *)
(* inputs, handlers and effect), "at" for the coordinates of the place.    *)
(* Times are minutes.                                                      *)
(***************************************************************************)
EXTENDS Integers, Sequences, FiniteSets, Functions

CONSTANTS
    Kinds,      \* the forms that are visited
    Entries,    \* bound: Entries[k][f], what users type into field f of form k
    Durations,  \* the buttons of setAuctionDuration
    Sections,   \* the sections of the shipment form that users collapse
    MaxFiles,   \* bound: files added in the visit
    MaxClock,   \* bound: minutes of the visit
    MaxSubmits, \* bound: submissions
    MaxEdits,   \* bound: edits after the first submission
    Faults      \* what may fail: "upload", "create", "reply", "route"

Fields == {"title", "place", "at", "pickup", "start", "end", "price", "step", "reserve", "type"}

Empty    == -1   \* an empty input, a null in a payload
Unknown  == 0    \* the address 'Unknown', or one of three letters or less
Untitled == 0    \* the title 'Untitled'
REVERSE  == 0
FORWARD  == 1

AllKinds == {"shipment", "forward", "auction", "listing"}

ASSUME AuctionFormsAssumption ==
    /\ Kinds \subseteq AllKinds
    /\ \A k \in Kinds : Entries[k] \in [Fields -> SUBSET Nat]
    /\ Durations \subseteq Nat /\ Sections \subseteq {"freight", "route", "details", "media"}
    /\ MaxFiles \in Nat /\ MaxClock \in Nat /\ MaxSubmits \in Nat /\ MaxEdits \in Nat
    /\ Faults \subseteq {"upload", "create", "reply", "route"}

VARIABLES
    kind,       \* the form that is visited
    page,       \* "form", "away", or "dashboard" where the listing form redirects
    form,       \* formData (the DOM of the listing form)
    collapsed,  \* the collapsed sections
    isLoaded,   \* the map script is loaded
    routeReqs,  \* places of the direction requests under way
    directions, \* directionsResponse: the place it was asked for
    added,      \* files added so far; a file is its number
    media,      \* the files of the form, in order
    live,       \* files whose object URL is not revoked
    job,        \* the mutation
    formError,  \* a message is shown
    formSuccess,
    now,
    stored,     \* what the server has stored, in order
    \* history and bounds
    submits,    \* submissions so far
    shown,      \* the form and files on the screen at each submission
    confirmed,  \* submissions whose onSuccess ran
    edits       \* edits since the first submission

editVars == <<form, collapsed, isLoaded, routeReqs, directions, added, media, live>>
noticeVars == <<formError, formSuccess>>
histVars == <<submits, shown, confirmed>>
vars == <<kind, page, editVars, job, noticeVars, now, stored, histVars, edits>>

-----------------------------------------------------------------------------
(* The forms: initial values, inputs, client-side validation *)

Blank == [f \in Fields |-> Empty]

\* The useState initialisers.
ShipmentForm == [Blank EXCEPT !["at"] = 0, !["type"] = REVERSE]
ForwardForm  == [Blank EXCEPT !["type"] = FORWARD]
INITIAL_FORM == [Blank EXCEPT !["type"] = REVERSE, !["step"] = 1]
ListingForm  == [Blank EXCEPT !["type"] = FORWARD, !["step"] = 1]

InitialForm(k) == CASE k = "shipment" -> ShipmentForm
                    [] k = "forward"  -> ForwardForm
                    [] k = "auction"  -> INITIAL_FORM
                    [] k = "listing"  -> ListingForm

\* The inputs that are rendered and enabled: a collapsed section is not
\* rendered, the address inputs are disabled until the map script is loaded.
FreightInputs == IF "freight" \in collapsed THEN {} ELSE {"title"}
RouteInputs   == IF "route" \in collapsed THEN {}
                 ELSE (IF isLoaded THEN {"place"} ELSE {}) \cup {"pickup", "start", "end"}
DetailsInputs == IF "details" \in collapsed THEN {} ELSE {"price"}

ReserveInput == IF form["type"] = FORWARD THEN {"reserve"} ELSE {}

Inputs == CASE kind = "shipment" -> FreightInputs \cup RouteInputs \cup DetailsInputs
            [] kind = "forward"  -> {"title", "place", "price", "end"}
            [] kind = "auction"  -> {"title", "type", "price", "step", "start", "end"} \cup ReserveInput
            [] kind = "listing"  -> {"title", "type", "price", "step"} \cup ReserveInput

\* What the browser asks of a form before onSubmit: every required input is
\* filled in and every number reaches its min.
BrowserValid ==
    /\ \A f \in Inputs \ {"reserve", "type"} : form[f] # Empty
    /\ kind \in {"auction", "listing"} => form["price"] > 0 /\ form["step"] > 0

\* What the submit handlers refuse, with a message.
ShipmentRefused ==
    \/ form["pickup"] = Empty \/ form["start"] = Empty \/ form["end"] = Empty
    \/ form["start"] - now < 3
    \/ form["end"] - form["start"] < 5
ForwardRefused == form["end"] = Empty \/ form["end"] - now < 5
AuctionRefused ==
    \/ form["start"] = Empty \/ form["end"] = Empty
    \/ form["end"] - form["start"] < 5
    \/ form["price"] <= 0 \/ form["step"] <= 0
    \/ /\ form["type"] = FORWARD /\ form["reserve"] # Empty
       /\ form["reserve"] < form["price"]

Refused == CASE kind = "shipment" -> ShipmentRefused
             [] kind = "forward"  -> ForwardRefused
             [] kind = "auction"  -> AuctionRefused
             [] kind = "listing"  -> FALSE

-----------------------------------------------------------------------------
(* The payloads, built in the step that receives the last upload's reply *)

Nullable(v) == IF v = 0 THEN Empty ELSE v      \* Number(v) || null

ShipmentPayload(d) ==
    [d EXCEPT !["title"] = IF @ = Empty THEN Untitled ELSE @,
              !["place"] = IF @ = Empty THEN Unknown ELSE @,
              !["price"] = Nullable(@), !["step"] = 1]

\* Variant: the form as it is when the uploads are done.
ForwardPayloadOfForm(d) ==
    [form EXCEPT !["place"] = IF @ = Empty THEN Unknown ELSE @, !["at"] = 0,
                 !["start"] = now, !["price"] = Nullable(@), !["step"] = 1]

\* A forward auction starts when its payload is built.
ForwardPayload(d) ==
    [d EXCEPT !["place"] = IF @ = Empty THEN Unknown ELSE @, !["at"] = 0,
              !["start"] = now, !["price"] = Nullable(@), !["step"] = 1]

\* The reserve of a reverse auction is not sent.
AuctionPayload(d) ==
    [d EXCEPT !["reserve"] = IF d["type"] = FORWARD THEN @ ELSE Empty]

\* The direction is the one of the submission, the rest is read from the DOM.
ListingPayload(d) == [form EXCEPT !["type"] = d["type"]]

Payload(d) == CASE kind = "shipment" -> ShipmentPayload(d)
                [] kind = "forward"  -> ForwardPayload(d)
                [] kind = "auction"  -> AuctionPayload(d)
                [] kind = "listing"  -> ListingPayload(d)

-----------------------------------------------------------------------------
IdleJob == [phase |-> "idle", data |-> Blank, files |-> <<>>, done |-> 0, sent |-> Blank]

Init ==
    /\ kind \in Kinds
    /\ page = "form" /\ form = InitialForm(kind)
    /\ collapsed = {} /\ isLoaded = FALSE /\ routeReqs = {} /\ directions = Empty
    /\ added = 0 /\ media = <<>> /\ live = {}
    /\ job = IdleJob /\ formError = FALSE /\ formSuccess = FALSE
    /\ now = 0 /\ stored = <<>>
    /\ submits = 0 /\ shown = <<>> /\ confirmed = {} /\ edits = 0

\* An edit by the user.
Edit ==
    /\ page = "form"
    /\ submits > 0 => edits < MaxEdits
    /\ edits' = IF submits > 0 THEN edits + 1 ELSE 0
    /\ UNCHANGED <<kind, page, job, noticeVars, now, stored, histVars>>

\* The effect on [origin, destination, isLoaded]: ask for the directions.
AskDirections(place, loaded) ==
    routeReqs' = IF kind = "shipment" /\ loaded /\ place > Unknown
                 THEN routeReqs \cup {place} ELSE routeReqs

\* handleChange, and field of the auction form.  The reserve input of the
\* listing form is removed, with what it held, when the direction is REVERSE.
HandleChange(f, v) ==
    /\ f \in Inputs /\ v # form[f]
    /\ Edit
    /\ form' = IF kind = "listing" /\ f = "type" /\ v = REVERSE
               THEN [form EXCEPT ![f] = v, !["reserve"] = Empty]
               ELSE [form EXCEPT ![f] = v]
    /\ IF f = "place" THEN AskDirections(v, isLoaded) ELSE UNCHANGED routeReqs
    /\ UNCHANGED <<collapsed, isLoaded, directions, added, media, live>>

\* onOriginPlacesChanged, onDestPlacesChanged: address and coordinates.
PlacesChanged(p) ==
    /\ kind = "shipment" /\ "place" \in Inputs
    /\ <<form["place"], form["at"]>> # <<p, p>>
    /\ Edit
    /\ form' = [form EXCEPT !["place"] = p, !["at"] = p]
    /\ IF form["place"] # p THEN AskDirections(p, isLoaded) ELSE UNCHANGED routeReqs
    /\ UNCHANGED <<collapsed, isLoaded, directions, added, media, live>>

SetAuctionDuration(minutes) ==
    /\ kind = "shipment" /\ "end" \in Inputs
    /\ form["start"] # Empty
    /\ form["end"] # form["start"] + minutes
    /\ Edit
    /\ form' = [form EXCEPT !["end"] = form["start"] + minutes]
    /\ UNCHANGED <<collapsed, isLoaded, routeReqs, directions, added, media, live>>

ToggleCollapse(section) ==
    /\ kind = "shipment"
    /\ Edit
    /\ collapsed' = IF section \in collapsed THEN collapsed \ {section} ELSE collapsed \cup {section}
    /\ UNCHANGED <<form, isLoaded, routeReqs, directions, added, media, live>>

\* Variant: object URLs are not revoked with the effect.
CleanupNever(urls) == urls

\* The cleanup of the effect on [media] runs before the next one and on unmount:
\* it revokes the URL of every file of the list it was set up for.
Cleanup(urls) == IF kind = "listing" THEN urls ELSE urls \ Range(media)

\* handleFileChange: one or several files are appended.
HandleFileChange(n) ==
    /\ kind = "shipment" => "media" \notin collapsed
    /\ added + n <= MaxFiles
    /\ Edit
    /\ added' = added + n
    /\ media' = media \o [i \in 1..n |-> added + i]
    /\ live' = Cleanup(live) \cup (added + 1)..(added + n)
    /\ UNCHANGED <<form, collapsed, isLoaded, routeReqs, directions>>

RemoveMedia(i) ==
    /\ kind = "shipment" => "media" \notin collapsed
    /\ i \in DOMAIN media
    /\ Edit
    /\ media' = SubSeq(media, 1, i - 1) \o SubSeq(media, i + 1, Len(media))
    /\ live' = IF kind \in {"shipment", "forward"} THEN Cleanup(live \ {media[i]}) ELSE Cleanup(live)
    /\ UNCHANGED <<form, collapsed, isLoaded, routeReqs, directions, added>>

\* useJsApiLoader: the script is there.
MapLoaded ==
    /\ kind = "shipment" /\ page = "form" /\ ~isLoaded
    /\ isLoaded' = TRUE
    /\ AskDirections(form["place"], TRUE)
    /\ UNCHANGED <<kind, page, form, collapsed, directions, added, media, live>>
    /\ UNCHANGED <<job, noticeVars, now, stored, histVars, edits>>

\* The callback of one direction request; a status other than OK is ignored.
DirectionsReply(p) ==
    /\ p \in routeReqs
    /\ routeReqs' = routeReqs \ {p}
    /\ \/ directions' = IF page = "form" THEN p ELSE directions
       \/ "route" \in Faults /\ UNCHANGED directions
    /\ UNCHANGED <<kind, page, form, collapsed, isLoaded, added, media, live>>
    /\ UNCHANGED <<job, noticeVars, now, stored, histVars, edits>>

\* Toast: closed by the user or by its timer.
CloseToast ==
    /\ page = "form" /\ (formError \/ formSuccess)
    /\ \/ formError' = FALSE /\ UNCHANGED formSuccess
       \/ formSuccess' = FALSE /\ UNCHANGED formError
    /\ UNCHANGED <<kind, page, editVars, job, now, stored, histVars, edits>>

-----------------------------------------------------------------------------
(* Submission *)

\* The submit handlers: the shipment form clears both messages first, the
\* forward form none, the others the error.
HandleSubmit ==
    /\ page = "form" /\ job.phase = "idle" /\ submits < MaxSubmits
    /\ BrowserValid
    /\ formSuccess' = (formSuccess /\ kind # "shipment")
    /\ IF Refused
       THEN /\ formError' = TRUE
            /\ UNCHANGED <<job, histVars>>
       ELSE /\ formError' = (formError /\ kind = "forward")
            /\ submits' = submits + 1
            /\ shown' = Append(shown, [form |-> form, files |-> media])
            /\ job' = [IdleJob EXCEPT !.phase = IF media = <<>> THEN "sent" ELSE "upload",
                                      !.data = form, !.files = media,
                                      !.sent = IF media = <<>> THEN Payload(form) ELSE Blank]
            /\ UNCHANGED confirmed
    /\ UNCHANGED <<kind, page, editVars, now, stored, edits>>

jobUnchanged == UNCHANGED <<kind, now, submits, shown, edits>>

\* The reply of one upload; after the last one the payload is posted.
Uploaded ==
    /\ job.phase = "upload"
    /\ job' = IF job.done + 1 = Len(job.files)
              THEN [job EXCEPT !.done = @ + 1, !.phase = "sent", !.sent = Payload(job.data)]
              ELSE [job EXCEPT !.done = @ + 1]
    /\ jobUnchanged /\ UNCHANGED <<page, editVars, noticeVars, stored, confirmed>>

\* The validation of create_auction and create_listing: the server's own check of the
\* duration refuses a forward auction whose uploads took too long.  (Negative amounts
\* are refused too; Entries has none.)
ServerAccepts(p) ==
    /\ p["price"] > 0 /\ p["step"] > 0
    /\ kind # "listing" =>
          /\ ~ (p["type"] = FORWARD /\ p["reserve"] # Empty /\ p["reserve"] < p["price"])
          /\ p["end"] - p["start"] >= 5

\* The request at the server: one transaction, or a refusal.
ServerCreate ==
    /\ job.phase = "sent"
    /\ \/ /\ ServerAccepts(job.sent)
          /\ stored' = Append(stored, [submit |-> submits, row |-> job.sent, media |-> job.files])
          /\ job' = [job EXCEPT !.phase = "created"]
       \/ /\ ~ServerAccepts(job.sent) \/ "create" \in Faults
          /\ job' = [job EXCEPT !.phase = "failed"] /\ UNCHANGED stored
    /\ jobUnchanged /\ UNCHANGED <<page, editVars, noticeVars, confirmed>>

\* A request that is answered by an error, or whose answer is lost, throws.
RequestFails ==
    /\ \/ job.phase = "upload" /\ "upload" \in Faults
       \/ job.phase = "created" /\ "reply" \in Faults
    /\ job' = [job EXCEPT !.phase = "failed"]
    /\ jobUnchanged /\ UNCHANGED <<page, editVars, noticeVars, stored, confirmed>>

\* Variant: response.ok is not looked at.
RepliedUnchecked == job.phase \in {"created", "failed"}

\* The answer to the creation request has arrived and is not an error.
Replied == job.phase = "created"

\* onSuccess.  The listing form redirects, the others show the message, clear
\* the form and invalidate the catalogue; on a form that is gone the state
\* setters do nothing.
OnSuccess ==
    /\ Replied
    /\ job' = IdleJob
    /\ confirmed' = confirmed \cup {submits}
    /\ IF kind = "listing"
       THEN page' = "dashboard" /\ UNCHANGED <<editVars, noticeVars>>
       ELSE /\ UNCHANGED page
            /\ IF page = "form"
               THEN /\ formSuccess' = TRUE /\ formError' = FALSE
                    /\ form' = InitialForm(kind)
                    /\ media' = <<>> /\ live' = Cleanup(live) /\ directions' = Empty
                    /\ UNCHANGED <<collapsed, isLoaded, routeReqs, added>>
               ELSE UNCHANGED <<editVars, noticeVars>>
    /\ jobUnchanged /\ UNCHANGED stored

\* Variant: the failed mutation is not left.
OnErrorPending ==
    /\ job.phase = "failed"
    /\ IF page = "form" THEN formError' = TRUE /\ formSuccess' = FALSE ELSE UNCHANGED noticeVars
    /\ jobUnchanged /\ UNCHANGED <<page, editVars, stored, confirmed, job>>

\* onError: the message; the form keeps what was entered.
OnError ==
    /\ job.phase = "failed"
    /\ job' = IdleJob
    /\ IF page = "form"
       THEN formError' = TRUE /\ formSuccess' = (formSuccess /\ kind = "listing")
       ELSE UNCHANGED noticeVars
    /\ jobUnchanged /\ UNCHANGED <<page, editVars, stored, confirmed>>

\* The user leaves the page; the mutation goes on.
Unmount ==
    /\ page = "form"
    /\ page' = "away"
    /\ live' = Cleanup(live)
    /\ UNCHANGED <<kind, form, collapsed, isLoaded, routeReqs, directions, added, media>>
    /\ UNCHANGED <<job, noticeVars, now, stored, histVars, edits>>

Tick ==
    /\ now < MaxClock
    /\ now' = now + 1
    /\ UNCHANGED <<kind, page, editVars, job, noticeVars, stored, histVars, edits>>

-----------------------------------------------------------------------------
JobStep == Uploaded \/ ServerCreate \/ RequestFails \/ OnSuccess \/ OnError

Next ==
    \/ \E f \in Fields : \E v \in Entries[kind][f] : HandleChange(f, v)
    \/ \E p \in Entries[kind]["at"] : PlacesChanged(p)
    \/ \E minutes \in Durations : SetAuctionDuration(minutes)
    \/ \E section \in Sections : ToggleCollapse(section)
    \/ \E n \in 1..MaxFiles : HandleFileChange(n) \/ RemoveMedia(n)
    \/ \E p \in routeReqs : DirectionsReply(p)
    \/ MapLoaded \/ CloseToast \/ HandleSubmit \/ JobStep \/ Unmount \/ Tick

\* Requests are answered or fail, and the browser runs the callbacks of an
\* answer; nothing obliges the user.
Spec == Init /\ [][Next]_vars /\ WF_vars(JobStep)

-----------------------------------------------------------------------------
(* Properties *)

FormType == [Fields -> Nat \cup {Empty}]

\* The variables have their types.
TypeOK ==
    /\ kind \in AllKinds /\ page \in {"form", "away", "dashboard"}
    /\ form \in FormType /\ collapsed \subseteq Sections /\ isLoaded \in BOOLEAN
    /\ routeReqs \subseteq Nat /\ directions \in Nat \cup {Empty}
    /\ added \in 0..MaxFiles /\ live \subseteq 1..added
    /\ media \in Seq(1..added) /\ Cardinality(Range(media)) = Len(media)
    /\ job.phase \in {"idle", "upload", "sent", "created", "failed"}
    /\ job.data \in FormType /\ job.sent \in FormType
    /\ job.files \in Seq(1..added) /\ job.done \in 0..Len(job.files)
    /\ formError \in BOOLEAN /\ formSuccess \in BOOLEAN
    /\ now \in 0..MaxClock /\ submits \in 0..MaxSubmits /\ edits \in 0..MaxEdits
    /\ Len(shown) = submits /\ confirmed \subseteq 1..submits
    /\ \A i \in DOMAIN stored : stored[i].submit \in 1..submits

\* What is stored is what was on the screen when the user submitted it, price,
\* schedule, reserve and every file in its order, although the payload is built
\* after the uploads and the user edits and removes files meanwhile (mutate takes
\* the form, the mutation closes over media).  The listing form reads its inputs
\* after the uploads: only its type and files are those of the submission.
PublishedAsSubmitted ==
    \A i \in DOMAIN stored :
        LET row == stored[i].row
            screen == shown[stored[i].submit]
        IN  /\ stored[i].media = screen.files
            /\ row["type"] = screen.form["type"]
            /\ kind # "listing" =>
                  /\ row["price"] = screen.form["price"] /\ row["end"] = screen.form["end"]
                  /\ row["title"] \in {screen.form["title"], Untitled}
                  /\ row["at"] \in {screen.form["at"], 0}
                  /\ kind # "forward" => row["start"] = screen.form["start"]
                  /\ row["type"] = FORWARD => row["reserve"] = screen.form["reserve"]

\* A submission that is reported as published is stored exactly once, also when
\* replies are lost, requests fail and the user submits again.
ConfirmedIsPublished ==
    \A n \in confirmed : Cardinality({i \in DOMAIN stored : stored[i].submit = n}) = 1

\* No object URL outlives the form (the effect on [media] of the three forms
\* that have it), whatever files were added, removed and published in whatever
\* order.
NoUrlLeak == page # "form" /\ kind # "listing" => live = {}

\* Every submission comes to an end, and the button is enabled again: an upload,
\* the creation or its reply may fail and the user may have left.
SubmissionSettles == job.phase # "idle" ~> job.phase = "idle"
===============================================================================
