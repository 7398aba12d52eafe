-------------------------- MODULE AuctionFormsProofs --------------------------
(***************************************************************************)
(* Theorems about AuctionForms, for all inputs users type and any number   *)
(* of files, edits, submissions and minutes.                               *)
(*                                                                         *)
(* The mutation works on what it was given when the user submitted, and    *)
(* the screen of that submission is the last one that was recorded: JobInv *)
(* says so until the request, StoredInv by whom a row was stored.          *)
(***************************************************************************)
EXTENDS AuctionForms, FiniteSetTheorems, TLAPS

-----------------------------------------------------------------------------
(* The inductive invariant *)

\* The types the other parts need.
ShapeInv ==
    /\ kind \in Kinds /\ form \in FormType
    /\ shown \in Seq([form : FormType, files : Seq(Nat)]) /\ Len(shown) = submits
    /\ added \in Nat /\ media \in Seq(Nat)
    /\ DOMAIN stored = 1 .. Len(stored) /\ Len(stored) \in Nat

\* What the row of a request says of the screen of its submission.
Carries(row, screen) ==
    /\ row["type"] = screen["type"]
    /\ kind # "listing" =>
          /\ row["price"] > 0 => row["price"] = screen["price"]
          /\ row["end"] = screen["end"]
          /\ row["title"] \in {screen["title"], Untitled}
          /\ row["at"] \in {screen["at"], 0}
          /\ kind # "forward" => row["start"] = screen["start"]
          /\ row["type"] = FORWARD => row["reserve"] = screen["reserve"]

\* The mutation has the form and the files of the last submission.
JobInv ==
    job.phase # "idle" =>
        /\ submits \in 1 .. Len(shown)
        /\ job.data = shown[submits].form /\ job.files = shown[submits].files
        /\ job.phase = "sent" => Carries(job.sent, shown[submits].form)

\* A submission is stored at most once, by its own mutation.
StoredInv ==
    /\ \A i \in DOMAIN stored : stored[i].submit \in 1 .. submits
    /\ \A i, j \in DOMAIN stored : stored[i].submit = stored[j].submit => i = j
    /\ job.phase \in {"upload", "sent"} => \A i \in DOMAIN stored : stored[i].submit # submits
    /\ job.phase = "created" => \E i \in DOMAIN stored : stored[i].submit = submits
    /\ \A n \in confirmed : \E i \in DOMAIN stored : stored[i].submit = n

\* The live object URLs are those of the files in the form.
UrlInv ==
    kind # "listing" => /\ live \subseteq Range(media)
                        /\ page # "form" => live = {}

FormsInv == ShapeInv /\ JobInv /\ StoredInv /\ UrlInv /\ PublishedAsSubmitted

-----------------------------------------------------------------------------
(* The payloads *)

\* Every payload carries what its form held, whatever the form holds now.
LEMMA PayloadCarries ==
    ASSUME kind \in AllKinds, form \in FormType, NEW d \in FormType
    PROVE  Carries(Payload(d), d)
<1>1. CASE kind = "shipment"
  <2>1. Payload(d) = ShipmentPayload(d)
    BY <1>1 DEF Payload
  <2> QED BY <1>1, <2>1 DEF ShipmentPayload, Carries, Nullable, Empty, FormType, Fields
<1>2. CASE kind = "forward"
  <2>1. Payload(d) = ForwardPayload(d)
    BY <1>2 DEF Payload
  <2> QED BY <1>2, <2>1 DEF ForwardPayload, Carries, Nullable, Empty, FormType, Fields
<1>3. CASE kind = "auction"
  <2>1. Payload(d) = AuctionPayload(d)
    BY <1>3 DEF Payload
  <2> QED BY <1>3, <2>1 DEF AuctionPayload, Carries, FormType, Fields
<1>4. CASE kind = "listing"
  <2>1. Payload(d) = ListingPayload(d)
    BY <1>4 DEF Payload
  <2> QED BY <1>4, <2>1 DEF ListingPayload, Carries, FormType, Fields
<1> QED BY <1>1, <1>2, <1>3, <1>4 DEF AllKinds

\* The initial forms are forms.
LEMMA InitialFormType == \A k \in AllKinds : InitialForm(k) \in FormType
<1> SUFFICES ASSUME NEW k \in AllKinds PROVE InitialForm(k) \in FormType
  OBVIOUS
<1>1. Blank \in FormType
  BY DEF Blank, FormType, Empty
<1>2. /\ ShipmentForm \in FormType /\ ForwardForm \in FormType
      /\ INITIAL_FORM \in FormType /\ ListingForm \in FormType
  BY <1>1 DEF ShipmentForm, ForwardForm, INITIAL_FORM, ListingForm, FormType, REVERSE, FORWARD
<1> QED BY <1>2 DEF InitialForm, AllKinds

-----------------------------------------------------------------------------
(* The steps that leave the submissions alone *)

\* Nothing is submitted, stored or confirmed.
LEMMA SameSubmissions ==
    ASSUME FormsInv, UNCHANGED <<kind, job, submits, shown, stored, confirmed>>
    PROVE  JobInv' /\ StoredInv' /\ PublishedAsSubmitted'
<1> USE DEF FormsInv
<1>1. JobInv'
  BY DEF JobInv, Carries
<1>2. StoredInv'
  BY DEF StoredInv
<1>3. PublishedAsSubmitted'
  BY DEF PublishedAsSubmitted
<1> QED BY <1>1, <1>2, <1>3

\* The inputs: what is typed is a value of the form.
LEMMA InputSteps ==
    ASSUME FormsInv,
           \/ \E f \in Fields : \E v \in Entries[kind][f] : HandleChange(f, v)
           \/ \E p \in Entries[kind]["at"] : PlacesChanged(p)
           \/ \E minutes \in Durations : SetAuctionDuration(minutes)
           \/ \E section \in Sections : ToggleCollapse(section)
    PROVE  FormsInv'
<1>1. /\ UNCHANGED <<kind, page, job, submits, shown, stored, confirmed, added, media, live>>
  BY DEF HandleChange, PlacesChanged, SetAuctionDuration, ToggleCollapse, Edit, histVars
<1>2. kind \in Kinds /\ form \in FormType /\ Entries[kind] \in [Fields -> SUBSET Nat] /\ Durations \subseteq Nat
  BY AuctionFormsAssumption DEF FormsInv, ShapeInv
<1>3. \A f \in Fields : \A v \in Nat \cup {Empty} : \A w \in FormType : [w EXCEPT ![f] = v] \in FormType
  BY DEF FormType
<1>4. {"place", "at", "end", "start", "reserve"} \subseteq Fields
  BY DEF Fields
<1>5. ASSUME NEW f \in Fields, NEW v \in Entries[kind][f], HandleChange(f, v) PROVE form' \in FormType
  <2>1. v \in Nat
    BY <1>2
  <2>2. [form EXCEPT ![f] = v, !["reserve"] = Empty] = [[form EXCEPT ![f] = v] EXCEPT !["reserve"] = Empty]
    BY <1>2 DEF FormType
  <2> QED BY <1>2, <1>3, <1>4, <1>5, <2>1, <2>2 DEF HandleChange
<1>6. ASSUME NEW p \in Entries[kind]["at"], PlacesChanged(p) PROVE form' \in FormType
  <2>1. p \in Nat
    BY <1>2, <1>4
  <2>2. [form EXCEPT !["place"] = p, !["at"] = p] = [[form EXCEPT !["place"] = p] EXCEPT !["at"] = p]
    BY <1>2 DEF FormType
  <2> QED BY <1>2, <1>3, <1>4, <1>6, <2>1, <2>2 DEF PlacesChanged
<1>7. ASSUME NEW m \in Durations, SetAuctionDuration(m) PROVE form' \in FormType
  <2>1. form["start"] \in Nat \cup {Empty} /\ form["start"] # Empty /\ m \in Nat
    BY <1>2, <1>4, <1>7 DEF SetAuctionDuration, FormType
  <2>2. form["start"] + m \in Nat
    BY <2>1
  <2> QED BY <1>2, <1>3, <1>4, <1>7, <2>2 DEF SetAuctionDuration
<1>8. ASSUME NEW s \in Sections, ToggleCollapse(s) PROVE form' \in FormType
  BY <1>2, <1>8 DEF ToggleCollapse
<1>9. form' \in FormType
  BY <1>5, <1>6, <1>7, <1>8
<1>10. ShapeInv'
  BY <1>1, <1>9 DEF FormsInv, ShapeInv
<1>11. UrlInv'
  BY <1>1 DEF FormsInv, UrlInv
<1> QED BY <1>1, <1>10, <1>11, SameSubmissions DEF FormsInv

\* Files are appended; the URLs of those that were there are revoked.
LEMMA HandleFileChangeStep ==
    ASSUME FormsInv, NEW n \in 1 .. MaxFiles, HandleFileChange(n)
    PROVE  FormsInv'
<1>1. /\ UNCHANGED <<kind, page, form, job, submits, shown, stored, confirmed>> /\ page = "form"
      /\ added' = added + n /\ media' = media \o [i \in 1..n |-> added + i]
      /\ live' = Cleanup(live) \cup (added + 1)..(added + n)
  BY DEF HandleFileChange, Edit, histVars
<1>2. n \in Nat /\ added \in Nat /\ media \in Seq(Nat) /\ added' \in Nat
  BY <1>1, AuctionFormsAssumption DEF FormsInv, ShapeInv
<1>3. PICK new : new = [i \in 1..n |-> added + i]
  OBVIOUS
<1>4. new \in Seq(Nat) /\ Len(new) = n /\ \A i \in 1 .. n : new[i] = added + i
  BY <1>2, <1>3
<1>5. /\ media' \in Seq(Nat) /\ DOMAIN media' = 1 .. Len(media) + n
      /\ \A i \in 1 .. n : media'[Len(media) + i] = new[i]
  BY <1>1, <1>2, <1>3, <1>4
<1>6. (added + 1)..(added + n) \subseteq Range(media')
  <2> SUFFICES ASSUME NEW x \in (added + 1)..(added + n) PROVE x \in Range(media')
    OBVIOUS
  <2>1. x - added \in 1 .. n /\ Len(media) \in Nat
    BY <1>2
  <2>2. Len(media) + (x - added) \in DOMAIN media' /\ added + (x - added) = x
    BY <1>2, <1>5, <2>1
  <2>3. media'[Len(media) + (x - added)] = x
    BY <1>4, <1>5, <2>1, <2>2
  <2> QED BY <2>2, <2>3 DEF Range
<1>7. ShapeInv'
  BY <1>1, <1>2, <1>5 DEF FormsInv, ShapeInv
<1>8. UrlInv'
  <2>1. kind # "listing" => Cleanup(live) = {}
    BY DEF FormsInv, UrlInv, Cleanup
  <2> QED BY <1>1, <1>6, <2>1 DEF UrlInv
<1> QED BY <1>1, <1>7, <1>8, SameSubmissions DEF FormsInv

\* A file is removed; the URLs of all files are revoked.
LEMMA RemoveMediaStep ==
    ASSUME FormsInv, NEW n \in 1 .. MaxFiles, RemoveMedia(n)
    PROVE  FormsInv'
<1>1. /\ UNCHANGED <<kind, page, form, job, submits, shown, stored, confirmed, added>>
      /\ n \in DOMAIN media
      /\ media' = SubSeq(media, 1, n - 1) \o SubSeq(media, n + 1, Len(media))
      /\ live' \in {Cleanup(live), Cleanup(live \ {media[n]})}
  BY DEF RemoveMedia, Edit, histVars
<1>2. media \in Seq(Nat) /\ n \in 1 .. Len(media)
  BY <1>1 DEF FormsInv, ShapeInv
<1>3. SubSeq(media, 1, n - 1) \in Seq(Nat) /\ SubSeq(media, n + 1, Len(media)) \in Seq(Nat)
  BY <1>2
<1>4. media' \in Seq(Nat)
  BY <1>1, <1>3
<1>5. kind # "listing" => live' = {}
  BY <1>1 DEF FormsInv, UrlInv, Cleanup
<1>6. ShapeInv' /\ UrlInv'
  BY <1>1, <1>4, <1>5 DEF FormsInv, ShapeInv, UrlInv
<1> QED BY <1>1, <1>6, SameSubmissions DEF FormsInv

\* The map, the messages, the clock, and leaving the page.
LEMMA PageSteps ==
    ASSUME FormsInv,
           \/ \E p \in routeReqs : DirectionsReply(p)
           \/ MapLoaded \/ CloseToast \/ Unmount \/ Tick \/ UNCHANGED vars
    PROVE  FormsInv'
<1>1. UNCHANGED <<kind, form, job, submits, shown, stored, confirmed, added, media>>
  BY DEF DirectionsReply, MapLoaded, CloseToast, Unmount, Tick, vars, editVars, histVars
<1>2. UNCHANGED <<page, live>> \/ live' = Cleanup(live)
  BY DEF DirectionsReply, MapLoaded, CloseToast, Unmount, Tick, vars, editVars
<1>3. UrlInv'
  <2>1. CASE UNCHANGED <<page, live>>
    BY <1>1, <2>1 DEF FormsInv, UrlInv
  <2>2. CASE live' = Cleanup(live)
    BY <1>1, <2>2 DEF FormsInv, UrlInv, Cleanup
  <2> QED BY <1>2, <2>1, <2>2
<1>4. ShapeInv'
  BY <1>1 DEF FormsInv, ShapeInv
<1> QED BY <1>1, <1>3, <1>4, SameSubmissions DEF FormsInv

-----------------------------------------------------------------------------
(* Submission *)

\* The user submits: the mutation takes the form and its files.
LEMMA HandleSubmitStep ==
    ASSUME FormsInv, HandleSubmit
    PROVE  FormsInv'
<1>1. UNCHANGED <<kind, page, form, added, media, live, stored, confirmed>>
  BY DEF HandleSubmit, editVars, histVars
<1>2. UrlInv'
  BY <1>1 DEF FormsInv, UrlInv
<1>3. CASE Refused
  <2>1. UNCHANGED <<job, submits, shown>>
    BY <1>3 DEF HandleSubmit, histVars
  <2>2. ShapeInv'
    BY <1>1, <2>1 DEF FormsInv, ShapeInv
  <2> QED BY <1>1, <1>2, <2>1, <2>2, SameSubmissions DEF FormsInv
<1>4. CASE ~Refused
  <2>1. PICK screen : screen = [form |-> form, files |-> media]
    OBVIOUS
  <2>2. /\ submits' = submits + 1 /\ shown' = Append(shown, screen)
        /\ job' = [IdleJob EXCEPT !.phase = IF media = <<>> THEN "sent" ELSE "upload",
                                  !.data = form, !.files = media,
                                  !.sent = IF media = <<>> THEN Payload(form) ELSE Blank]
    BY <1>4, <2>1 DEF HandleSubmit
  <2>3. /\ kind \in AllKinds /\ form \in FormType /\ media \in Seq(Nat) /\ submits \in Nat
        /\ shown \in Seq([form : FormType, files : Seq(Nat)]) /\ Len(shown) = submits
    BY AuctionFormsAssumption DEF FormsInv, ShapeInv
  <2>4. screen \in [form : FormType, files : Seq(Nat)] /\ screen.form = form /\ screen.files = media
    BY <2>1, <2>3
  <2>5. /\ shown' \in Seq([form : FormType, files : Seq(Nat)]) /\ Len(shown') = submits + 1
        /\ shown'[submits + 1] = screen
        /\ \A i \in 1 .. submits : shown'[i] = shown[i]
    BY <2>2, <2>3, <2>4
  <2>6. /\ job'.phase \in {"sent", "upload"} /\ job'.data = form /\ job'.files = media
        /\ job'.phase = "sent" => job'.sent = Payload(form)
    BY <2>2 DEF IdleJob
  <2>7. ShapeInv'
    BY <1>1, <2>2, <2>5 DEF FormsInv, ShapeInv
  <2>8. JobInv'
    <3>1. submits' \in 1 .. Len(shown')
      BY <2>2, <2>3, <2>5
    <3>2. Carries(Payload(form), form)
      BY <2>3, PayloadCarries
    <3>3. job'.phase = "sent" => Carries(job'.sent, form)
      BY <2>6, <3>2
    <3>4. shown'[submits'] = screen
      BY <2>2, <2>5
    <3> QED BY <1>1, <2>4, <2>6, <3>1, <3>3, <3>4 DEF JobInv, Carries
  <2>9. StoredInv'
    <3>1. \A i \in DOMAIN stored : stored[i].submit \in 1 .. submits + 1 /\ stored[i].submit # submits + 1
      BY <2>3 DEF FormsInv, StoredInv
    <3> QED BY <1>1, <2>2, <2>6, <3>1 DEF FormsInv, StoredInv
  <2>10. PublishedAsSubmitted'
    <3>1. \A i \in DOMAIN stored : shown'[stored[i].submit] = shown[stored[i].submit]
      BY <2>5 DEF FormsInv, StoredInv
    <3> QED BY <1>1, <3>1 DEF FormsInv, PublishedAsSubmitted
  <2> QED BY <1>2, <2>7, <2>8, <2>9, <2>10 DEF FormsInv
<1> QED BY <1>3, <1>4

\* The uploads are answered, one after the other.
LEMMA UploadedStep ==
    ASSUME FormsInv, Uploaded
    PROVE  FormsInv'
<1>1. /\ UNCHANGED <<kind, page, form, added, media, live, stored, confirmed, submits, shown>>
      /\ job.phase = "upload"
  BY DEF Uploaded, jobUnchanged, editVars
<1>2. /\ submits \in 1 .. Len(shown)
      /\ job.data = shown[submits].form /\ job.files = shown[submits].files
  BY <1>1 DEF FormsInv, JobInv
<1>3. PICK phase, sent : /\ phase \in {"upload", "sent"}
                         /\ phase = "sent" => sent = Payload(job.data)
                         /\ job'.phase = phase /\ job'.sent = sent
                         /\ job'.data = job.data /\ job'.files = job.files
  <2>1. CASE job.done + 1 = Len(job.files)
    BY <1>1, <2>1 DEF Uploaded
  <2>2. CASE job.done + 1 # Len(job.files)
    BY <1>1, <2>2 DEF Uploaded
  <2> QED BY <2>1, <2>2
<1>4. kind \in AllKinds /\ form \in FormType /\ job.data \in FormType
  <2>1. kind \in AllKinds /\ form \in FormType /\ shown \in Seq([form : FormType, files : Seq(Nat)])
    BY AuctionFormsAssumption DEF FormsInv, ShapeInv
  <2>2. shown[submits] \in [form : FormType, files : Seq(Nat)]
    <3>1. PICK R : R = [form : FormType, files : Seq(Nat)]
      OBVIOUS
    <3>2. submits \in 1 .. Len(shown) /\ shown \in Seq(R)
      BY <1>2, <2>1, <3>1
    <3>3. shown[submits] \in R
      BY ONLY <3>2
    <3> QED BY <3>1, <3>3
  <2> QED BY <1>2, <2>1, <2>2
<1>5. Carries(Payload(job.data), job.data)
  BY <1>4, PayloadCarries
<1>6. JobInv'
  <2>1. phase = "sent" => Carries(sent, shown[submits].form)
    BY <1>2, <1>3, <1>5
  <2> QED BY <1>1, <1>2, <1>3, <2>1 DEF JobInv, Carries
<1>7. StoredInv'
  <2>1. job'.phase # "created" /\ \A i \in DOMAIN stored : stored[i].submit # submits
    <3>1. job'.phase # "created"
      BY <1>3
    <3>2. \A i \in DOMAIN stored : stored[i].submit # submits
      BY <1>1 DEF FormsInv, StoredInv
    <3> QED BY <3>1, <3>2
  <2> QED BY <1>1, <2>1 DEF FormsInv, StoredInv
<1>8. ShapeInv' /\ UrlInv'
  BY <1>1 DEF FormsInv, ShapeInv, UrlInv
<1>9. PublishedAsSubmitted'
  BY <1>1 DEF FormsInv, PublishedAsSubmitted
<1> QED BY <1>6, <1>7, <1>8, <1>9 DEF FormsInv

\* The mutation ends or fails; nothing new is stored.
LEMMA EndsStep ==
    ASSUME FormsInv, UNCHANGED <<kind, stored, submits, shown>>,
           job'.phase \in {"idle", "failed"},
           job'.phase = "failed" => job.phase # "idle" /\ job'.data = job.data /\ job'.files = job.files,
           confirmed' = confirmed \/ (confirmed' = confirmed \cup {submits} /\ job.phase = "created")
    PROVE  JobInv' /\ StoredInv' /\ PublishedAsSubmitted'
<1>1. JobInv'
  BY DEF FormsInv, JobInv
<1>2. StoredInv'
  BY DEF FormsInv, StoredInv
<1>3. PublishedAsSubmitted'
  BY DEF FormsInv, PublishedAsSubmitted
<1> QED BY <1>1, <1>2, <1>3

\* The server stores the row, or refuses it.
LEMMA ServerCreateStep ==
    ASSUME FormsInv, ServerCreate
    PROVE  FormsInv'
<1>1. /\ UNCHANGED <<kind, page, form, added, media, live, confirmed, submits, shown>>
      /\ job.phase = "sent"
  BY DEF ServerCreate, jobUnchanged, editVars
<1>2. UrlInv'
  BY <1>1 DEF FormsInv, UrlInv
<1>3. CASE job' = [job EXCEPT !.phase = "failed"] /\ UNCHANGED stored
  <2>1. job'.phase = "failed" /\ job'.data = job.data /\ job'.files = job.files
    BY <1>3
  <2>2. ShapeInv'
    BY <1>1, <1>3 DEF FormsInv, ShapeInv
  <2> QED BY <1>1, <1>2, <1>3, <2>1, <2>2, EndsStep DEF FormsInv
<1>4. CASE /\ ServerAccepts(job.sent) /\ job' = [job EXCEPT !.phase = "created"]
           /\ stored' = Append(stored, [submit |-> submits, row |-> job.sent, media |-> job.files])
  <2>1. /\ submits \in 1 .. Len(shown) /\ Carries(job.sent, shown[submits].form)
        /\ job.data = shown[submits].form /\ job.files = shown[submits].files
        /\ \A i \in DOMAIN stored : stored[i].submit # submits
    BY <1>1 DEF FormsInv, JobInv, StoredInv
  <2>2. PICK n : n = Len(stored)
    OBVIOUS
  <2>3. PICK new : new = [submit |-> submits, row |-> job.sent, media |-> job.files]
    OBVIOUS
  <2>4. n \in Nat /\ DOMAIN stored = 1 .. n
    BY <2>2 DEF FormsInv, ShapeInv
  <2>5. /\ DOMAIN stored' = 1 .. n + 1 /\ Len(stored') = n + 1
        /\ \A i \in 1 .. n : stored'[i] = stored[i]
        /\ stored'[n + 1] = new
    BY <1>4, <2>2, <2>3, <2>4 DEF FormsInv, ShapeInv
  <2>6. new.submit = submits /\ new.row = job.sent /\ new.media = job.files
    BY <2>3
  <2>7. \A i \in 1 .. n + 1 : i \in 1 .. n \/ i = n + 1
    BY <2>4
  <2>8. n + 1 \in 1 .. n + 1 /\ 1 .. n \subseteq 1 .. n + 1 /\ n + 1 \notin 1 .. n
    BY <2>4
  <2>9. job'.phase = "created" /\ job'.data = job.data /\ job'.files = job.files
    BY <1>4
  <2>10. ShapeInv'
    BY <1>1, <2>4, <2>5 DEF FormsInv, ShapeInv
  <2>11. JobInv'
    BY <1>1, <2>1, <2>9 DEF JobInv
  <2>12. StoredInv'
    <3>1. /\ \A i \in 1 .. n : stored[i].submit \in 1 .. submits
          /\ \A i, j \in 1 .. n : stored[i].submit = stored[j].submit => i = j
          /\ \A m \in confirmed : \E i \in 1 .. n : stored[i].submit = m
      BY <2>4 DEF FormsInv, StoredInv
    <3>2. submits \in 1 .. submits
      BY <2>1 DEF FormsInv, ShapeInv
    <3>3. \A i \in 1 .. n + 1 : stored'[i].submit \in 1 .. submits
      BY <2>5, <2>6, <2>7, <3>1, <3>2
    <3>4. \A i, j \in 1 .. n + 1 : stored'[i].submit = stored'[j].submit => i = j
      BY <2>1, <2>4, <2>5, <2>6, <2>7, <3>1
    <3>5. \A m \in confirmed : \E i \in 1 .. n + 1 : stored'[i].submit = m
      BY <2>5, <2>8, <3>1
    <3>6. \E i \in 1 .. n + 1 : stored'[i].submit = submits
      BY <2>5, <2>6, <2>8
    <3> QED BY <1>1, <2>5, <2>9, <3>3, <3>4, <3>5, <3>6 DEF StoredInv
  <2>13. job.sent["price"] > 0
    BY <1>4 DEF ServerAccepts
  <2>14. PublishedAsSubmitted'
    <3> DEFINE Published(r, screen) ==
            /\ r.media = screen.files
            /\ r.row["type"] = screen.form["type"]
            /\ kind # "listing" =>
                  /\ r.row["price"] = screen.form["price"] /\ r.row["end"] = screen.form["end"]
                  /\ r.row["title"] \in {screen.form["title"], Untitled}
                  /\ r.row["at"] \in {screen.form["at"], 0}
                  /\ kind # "forward" => r.row["start"] = screen.form["start"]
                  /\ r.row["type"] = FORWARD => r.row["reserve"] = screen.form["reserve"]
    <3>1. \A i \in 1 .. n : Published(stored[i], shown[stored[i].submit])
      BY <2>4 DEF FormsInv, PublishedAsSubmitted
    <3>2. Published(new, shown[submits])
      BY <2>1, <2>6, <2>13 DEF Carries
    <3>3. \A i \in 1 .. n + 1 : Published(stored'[i], shown[stored'[i].submit])
      <4> HIDE DEF Published
      <4> QED BY <2>5, <2>6, <2>7, <3>1, <3>2
    <3> QED BY <1>1, <2>5, <3>3 DEF PublishedAsSubmitted
  <2> QED BY <1>2, <2>10, <2>11, <2>12, <2>14 DEF FormsInv
<1> QED BY <1>3, <1>4 DEF ServerCreate

\* A request fails, or the callbacks of the mutation run.
LEMMA CallbackSteps ==
    ASSUME FormsInv, RequestFails \/ OnSuccess \/ OnError
    PROVE  FormsInv'
<1>1. UNCHANGED <<kind, stored, submits, shown>>
  BY DEF RequestFails, OnSuccess, OnError, jobUnchanged
<1>2. /\ job'.phase \in {"idle", "failed"}
      /\ job'.phase = "failed" => job.phase # "idle" /\ job'.data = job.data /\ job'.files = job.files
      /\ confirmed' = confirmed \/ (confirmed' = confirmed \cup {submits} /\ job.phase = "created")
  <2>1. CASE RequestFails
    BY <2>1 DEF RequestFails
  <2>2. CASE OnSuccess
    BY <2>2 DEF OnSuccess, Replied, IdleJob
  <2>3. CASE OnError
    BY <2>3 DEF OnError, IdleJob
  <2> QED BY <2>1, <2>2, <2>3
<1>3. JobInv' /\ StoredInv' /\ PublishedAsSubmitted'
  BY <1>1, <1>2, EndsStep
<1>4. ShapeInv' /\ UrlInv'
  <2>1. CASE UNCHANGED <<page, form, added, media, live>>
    BY <1>1, <2>1 DEF FormsInv, ShapeInv, UrlInv
  <2>2. CASE kind = "listing" /\ UNCHANGED <<form, added, media, live>>
    BY <1>1, <2>2 DEF FormsInv, ShapeInv, UrlInv
  <2>3. CASE /\ page = "form" /\ UNCHANGED <<page, added>>
             /\ form' = InitialForm(kind) /\ media' = <<>> /\ live' = Cleanup(live)
    <3>1. form' \in FormType
      BY <2>3, InitialFormType, AuctionFormsAssumption DEF FormsInv, ShapeInv
    <3>2. media' \in Seq(Nat)
      BY <2>3
    <3>3. kind # "listing" => live' = {}
      BY <2>3 DEF FormsInv, UrlInv, Cleanup
    <3> QED BY <1>1, <2>3, <3>1, <3>2, <3>3 DEF FormsInv, ShapeInv, UrlInv
  <2> QED BY <2>1, <2>2, <2>3 DEF RequestFails, OnSuccess, OnError, editVars
<1> QED BY <1>3, <1>4 DEF FormsInv

-----------------------------------------------------------------------------
(* The theorems *)

\* A form that is opened has submitted nothing.
LEMMA FormsInit == Init => FormsInv
<1> SUFFICES ASSUME Init PROVE FormsInv
  OBVIOUS
<1>1. /\ kind \in Kinds /\ form = InitialForm(kind) /\ added = 0 /\ media = <<>> /\ live = {}
      /\ job = IdleJob /\ stored = <<>> /\ submits = 0 /\ shown = <<>> /\ confirmed = {}
  BY DEF Init
<1>2. ShapeInv
  BY <1>1, InitialFormType, AuctionFormsAssumption DEF ShapeInv
<1>3. job.phase = "idle" /\ DOMAIN stored = {}
  BY <1>1 DEF IdleJob
<1>4. JobInv /\ StoredInv /\ UrlInv /\ PublishedAsSubmitted
  BY <1>1, <1>3 DEF JobInv, StoredInv, UrlInv, PublishedAsSubmitted
<1> QED BY <1>2, <1>4 DEF FormsInv

\* Every step of the user, the browser and the server keeps the invariant.
LEMMA FormsNext == FormsInv /\ [Next]_vars => FormsInv'
  BY InputSteps, HandleFileChangeStep, RemoveMediaStep, PageSteps, HandleSubmitStep,
     UploadedStep, ServerCreateStep, CallbackSteps DEF Next, JobStep

\* The inductive invariant: what the mutation holds, who has stored what, and
\* whose object URLs are live.
THEOREM FormsInvariant == Spec => []FormsInv
  BY FormsInit, FormsNext, PTL DEF Spec

\* What is stored is what was on the screen when the user submitted it, whatever
\* the user edits while the files are uploaded.
THEOREM StoredAsSubmitted == Spec => []PublishedAsSubmitted
<1>1. FormsInv => PublishedAsSubmitted
  BY DEF FormsInv
<1> QED BY <1>1, FormsInvariant, PTL

\* A submission reported as published is stored exactly once, whatever fails and
\* however often the user submits.
THEOREM ConfirmedOnce == Spec => []ConfirmedIsPublished
<1>1. ASSUME FormsInv, NEW n \in confirmed
      PROVE  Cardinality({i \in DOMAIN stored : stored[i].submit = n}) = 1
  <2>1. PICK i \in DOMAIN stored : stored[i].submit = n
    BY <1>1 DEF FormsInv, StoredInv
  <2>2. {j \in DOMAIN stored : stored[j].submit = n} = {i}
    BY <1>1, <2>1 DEF FormsInv, StoredInv
  <2> QED BY <2>2, FS_Singleton
<1>2. FormsInv => ConfirmedIsPublished
  BY <1>1 DEF ConfirmedIsPublished
<1> QED BY <1>2, FormsInvariant, PTL

\* No object URL outlives the three forms that revoke them.
THEOREM UrlsAreRevoked == Spec => []NoUrlLeak
<1>1. FormsInv => NoUrlLeak
  BY DEF FormsInv, UrlInv, NoUrlLeak
<1> QED BY <1>1, FormsInvariant, PTL
===============================================================================
