----------------------------- MODULE KycProofs -----------------------------
(***************************************************************************)
(* Proofs about Kyc, for any documents, any table of the documents that    *)
(* the levels need, any number of levels and of calls in flight, in memory *)
(* and on PostgreSQL, wherever the process dies.                           *)
(***************************************************************************)
EXTENDS Kyc, TLAPS

-----------------------------------------------------------------------------
(* Types *)

KycTypes ==
  /\ copies \in BOOLEAN
  /\ record \in Record
  /\ calls \in [Slot -> {Idle} \cup Call]
  /\ \A i \in Slot : calls[i] # Idle => (calls[i].own => ~copies)
  /\ verdict \in [Document -> {"none", "verified", "rejected"}]
  /\ approved \subseteq Document
  /\ overtaken \in BOOLEAN /\ died \in BOOLEAN

\* What a call looks at is a record.
LEMMA SeenType ==
  ASSUME KycTypes, NEW i \in Slot, calls[i] # Idle
  PROVE  Seen(calls[i]) \in Record
  BY DEF KycTypes, Seen, Call

\* A call that loses the store's object is still a call.
LEMMA DetachedType ==
  ASSUME KycTypes, NEW i \in Slot
  PROVE  /\ Detached(calls[i]) \in {Idle} \cup Call
         /\ calls[i] = Idle => Detached(calls[i]) = Idle
         /\ Detached(calls[i]) # Idle =>
              \/ Detached(calls[i]) = calls[i]
              \/ ~Detached(calls[i]).own /\ Detached(calls[i]).copy = record
<1>1. CASE calls[i] = Idle
  BY <1>1 DEF Detached
<1>2. CASE calls[i] # Idle
  <2>1. calls[i] \in Call
    BY <1>2 DEF KycTypes
  <2>2. record \in Record
    BY DEF KycTypes
  <2>. QED
    BY <1>2, <2>1, <2>2 DEF Detached, Call
<1>. QED
  BY <1>1, <1>2

LEMMA SubmittedType ==
  ASSUME NEW documents \in [Document -> Status], NEW target
  PROVE  SubmittedDocuments(documents, target) \in [Document -> Status]
  BY DEF SubmittedDocuments, Status

LEMMA KycTypesKept == KycSpec => []KycTypes
<1>. USE LevelsOrdered
<1>1. KycInit => KycTypes
  <2>. SUFFICES ASSUME KycInit PROVE KycTypes
    OBVIOUS
  <2>1. record \in Record
    BY DEF KycInit, Record, Level, Status, NoReview
  <2>2. calls \in [Slot -> {Idle} \cup Call] /\ \A i \in Slot : calls[i] = Idle
    BY DEF KycInit
  <2>3. verdict \in [Document -> {"none", "verified", "rejected"}]
    BY DEF KycInit
  <2>. QED
    BY <2>1, <2>2, <2>3 DEF KycInit, KycTypes
<1>2. KycTypes /\ [KycNext]_kycVars => KycTypes'
  <2>. SUFFICES ASSUME KycTypes, [KycNext]_kycVars PROVE KycTypes'
    OBVIOUS
  <2>. copies' = copies
    BY DEF KycNext, kycVars, Begin, EndRefused, UploadDocument, SubmitReview, ReplaceRecord,
       ApproveDocument, RejectDocument, PromoteLevel
  <2>1. ASSUME NEW i \in Slot, NEW kind \in {"upload", "review"}, Begin(i, kind) PROVE KycTypes'
    <3>1. [kind |-> kind, own |-> ~copies, copy |-> record] \in Call
      BY DEF KycTypes, Call
    <3>. DEFINE c == [kind |-> kind, own |-> ~copies, copy |-> record]
    <3>2. c \in Call /\ c.own = ~copies
      BY <3>1
    <3>3. calls' = [calls EXCEPT ![i] = c]
      BY <2>1 DEF Begin
    <3>. HIDE DEF c
    <3>4. calls' \in [Slot -> {Idle} \cup Call]
      BY <3>2, <3>3 DEF KycTypes
    <3>5. \A j \in Slot : calls'[j] = IF j = i THEN c ELSE calls[j]
      BY <3>3 DEF KycTypes
    <3>6. \A j \in Slot : calls'[j] # Idle => (calls'[j].own => ~copies)
      BY <3>2, <3>5 DEF KycTypes
    <3>. QED
      BY <2>1, <3>4, <3>6 DEF Begin, KycTypes
  <2>2. ASSUME NEW i \in Slot, EndRefused(i) PROVE KycTypes'
    BY <2>2 DEF EndRefused, KycTypes
  <2>3. ASSUME NEW i \in Slot, NEW key \in Document, UploadDocument(i, key) PROVE KycTypes'
    <3>1. Seen(calls[i]) \in Record
      BY <2>3, SeenType DEF UploadDocument, Resume
    <3>2. record' \in Record
      BY <2>3, <3>1 DEF UploadDocument, KycTypes, Record, Status
    <3>3. overtaken' \in BOOLEAN
      BY <2>3 DEF UploadDocument, Resume, KycTypes, Overtaken
    <3>. QED
      BY <2>3, <3>2, <3>3 DEF UploadDocument, KycTypes
  <2>4. ASSUME NEW i \in Slot, NEW target \in 1..TopLevel, NEW dies \in BOOLEAN,
               SubmitReview(i, target, dies)
        PROVE  KycTypes'
    <3>1. Seen(calls[i]) \in Record
      BY <2>4, SeenType DEF SubmitReview, Resume
    <3>. DEFINE docs == SubmittedDocuments(Seen(calls[i]).documents, target)
    <3>2. docs \in [Document -> Status]
      BY <3>1, SubmittedType DEF Record
    <3>3. record' = [record EXCEPT !.documents = docs, !.pending_review = IF dies THEN @ ELSE target]
      BY <2>4 DEF SubmitReview
    <3>. HIDE DEF docs
    <3>4. record' \in Record
      <4>1. CASE dies
        BY <3>2, <3>3, <4>1 DEF KycTypes, Record
      <4>2. CASE ~dies
        <5>1. target \in 0..TopLevel
          OBVIOUS
        <5>2. record' = [record EXCEPT !.documents = docs, !.pending_review = target]
          BY <3>3, <4>2
        <5>. QED
          BY <3>2, <5>1, <5>2 DEF KycTypes, Record
      <4>. QED
        BY <4>1, <4>2
    <3>5. overtaken' \in BOOLEAN /\ died' \in BOOLEAN
      BY <2>4 DEF SubmitReview, Resume, Survives, KycTypes, Overtaken
    <3>6. \A j \in Slot : calls'[j] = calls[j] \/ calls'[j] = Idle
      BY <2>4 DEF SubmitReview, Survives, KycTypes
    <3>7. calls' \in [Slot -> {Idle} \cup Call]
      BY <2>4 DEF SubmitReview, Survives, KycTypes
    <3>. QED
      BY <2>4, <3>4, <3>5, <3>6, <3>7 DEF SubmitReview, KycTypes
  <2>5. CASE ReplaceRecord
    <3>1. calls' \in [Slot -> {Idle} \cup Call]
      BY <2>5, DetachedType DEF ReplaceRecord
    <3>2. \A j \in Slot : calls'[j] = Detached(calls[j])
      BY <2>5 DEF ReplaceRecord
    <3>3. \A j \in Slot : calls'[j] # Idle => (calls'[j].own => ~copies')
      BY <2>5, <3>2, DetachedType DEF ReplaceRecord, KycTypes
    <3>. QED
      BY <2>5, <3>1, <3>3 DEF ReplaceRecord, KycTypes
  <2>6. ASSUME NEW key \in Document, ApproveDocument(key) PROVE KycTypes'
    <3>1. record' \in Record
      BY <2>6 DEF ApproveDocument, KycTypes, Record, Status
    <3>2. verdict' \in [Document -> {"none", "verified", "rejected"}]
      BY <2>6 DEF ApproveDocument, KycTypes
    <3>. QED
      BY <2>6, <3>1, <3>2 DEF ApproveDocument, KycTypes
  <2>7. ASSUME NEW key \in Document, NEW dies \in BOOLEAN, RejectDocument(key, dies) PROVE KycTypes'
    <3>1. record' \in Record
      <4>1. CASE dies
        BY <2>7, <4>1 DEF RejectDocument, KycTypes, Record, Status, NoReview
      <4>2. CASE ~dies
        <5>1. NoReview \in 0..TopLevel
          BY DEF NoReview
        <5>2. record' = [record EXCEPT !.documents[key] = "rejected", !.pending_review = NoReview]
          BY <2>7, <4>2 DEF RejectDocument
        <5>. QED
          BY <5>1, <5>2 DEF KycTypes, Record, Status
      <4>. QED
        BY <4>1, <4>2
    <3>2. calls' \in [Slot -> {Idle} \cup Call] /\ \A j \in Slot : calls'[j] = calls[j] \/ calls'[j] = Idle
      BY <2>7 DEF RejectDocument, KycTypes
    <3>. QED
      BY <2>7, <3>1, <3>2 DEF RejectDocument, KycTypes
  <2>8. ASSUME NEW dies \in BOOLEAN, PromoteLevel(dies) PROVE KycTypes'
    <3>1. record' \in Record
      <4>1. CASE dies
        BY <2>8, <4>1 DEF PromoteLevel, KycTypes, Record, Level, NoReview
      <4>2. CASE ~dies
        <5>1. NoReview \in 0..TopLevel
          BY DEF NoReview
        <5>2. record' = [record EXCEPT !.level = record.pending_review, !.pending_review = NoReview]
          BY <2>8, <4>2 DEF PromoteLevel
        <5>. QED
          BY <5>1, <5>2 DEF KycTypes, Record, Level
      <4>. QED
        BY <4>1, <4>2
    <3>2. calls' \in [Slot -> {Idle} \cup Call] /\ \A j \in Slot : calls'[j] = calls[j] \/ calls'[j] = Idle
      BY <2>8 DEF PromoteLevel, KycTypes
    <3>. QED
      BY <2>8, <3>1, <3>2 DEF PromoteLevel, KycTypes
  <2>9. CASE UNCHANGED kycVars
    BY <2>9 DEF kycVars, KycTypes
  <2>. QED
    BY <2>1, <2>2, <2>3, <2>4, <2>5, <2>6, <2>7, <2>8, <2>9 DEF KycNext
<1>. QED
  BY <1>1, <1>2, PTL DEF KycSpec

\* The type invariant of the module: it also says that only the in-memory
\* store hands out its own object.
THEOREM KycTypeCorrect == KycSpec => []KycTypeOK
<1>1. KycTypes => KycTypeOK
  BY DEF KycTypes, KycTypeOK
<1>. QED
  BY <1>1, KycTypesKept, PTL

-----------------------------------------------------------------------------
(* Levels *)

\* The documents that the levels up to n need are among those in A.
Earned(n, A) == \A l \in 1..n : REQUIRED_DOCS_FOR[l] \subseteq A

\* So is each document that a record shows as verified.
Vouched(r, A) ==
  /\ Earned(r.level, A)
  /\ \A k \in Document : r.documents[k] = "verified" => k \in A

\* LevelEarned is not inductive: an old record that a call writes back brings
\* back what it says of the documents and asks for the level after its own,
\* so the calls' copies and the review in progress must be accounted for too.
EarnedInv ==
  /\ Vouched(record, approved)
  /\ record.pending_review # NoReview => Earned(record.pending_review - 1, approved)
  /\ \A i \in Slot : calls[i] # Idle => Vouched(calls[i].copy, approved)

\* What was approved stays approved.
LEMMA MoreApproved ==
  ASSUME NEW A, NEW B, A \subseteq B, NEW r
  PROVE  /\ Vouched(r, A) => Vouched(r, B)
         /\ \A n : Earned(n, A) => Earned(n, B)
  BY DEF Vouched, Earned

LEMMA SeenVouched ==
  ASSUME EarnedInv, NEW i \in Slot, calls[i] # Idle
  PROVE  Vouched(Seen(calls[i]), approved)
  BY DEF EarnedInv, Seen

\* No step but Begin and ReplaceRecord gives a call another copy.
LEMMA CallsVouched ==
  ASSUME EarnedInv, approved \subseteq approved',
         \A j \in Slot : calls'[j] = calls[j] \/ calls'[j] = Idle
  PROVE  \A j \in Slot : calls'[j] # Idle => Vouched(calls'[j].copy, approved')
  BY MoreApproved DEF EarnedInv

LEMMA EarnedInvariant == KycSpec => []EarnedInv
<1>. USE LevelsOrdered
<1>1. KycInit => EarnedInv
  BY DEF KycInit, EarnedInv, Vouched, Earned, NoReview
<1>2. KycTypes /\ EarnedInv /\ [KycNext]_kycVars => EarnedInv'
  <2>. SUFFICES ASSUME KycTypes, EarnedInv, [KycNext]_kycVars PROVE EarnedInv'
    OBVIOUS
  <2>0. record \in Record /\ calls \in [Slot -> {Idle} \cup Call]
    BY DEF KycTypes
  <2>1. ASSUME NEW i \in Slot, NEW kind, Begin(i, kind) PROVE EarnedInv'
    <3>. DEFINE c == [kind |-> kind, own |-> ~copies, copy |-> record]
    <3>1. c.copy = record
      OBVIOUS
    <3>2. calls' = [calls EXCEPT ![i] = c]
      BY <2>1 DEF Begin
    <3>. HIDE DEF c
    <3>3. \A j \in Slot : calls'[j] = IF j = i THEN c ELSE calls[j]
      BY <2>0, <3>2
    <3>4. \A j \in Slot : calls'[j] # Idle => Vouched(calls'[j].copy, approved)
      BY <3>1, <3>3 DEF EarnedInv
    <3>. QED
      BY <2>1, <3>4 DEF Begin, EarnedInv
  <2>2. ASSUME NEW i \in Slot, EndRefused(i) PROVE EarnedInv'
    <3>1. \A j \in Slot : calls'[j] = calls[j] \/ calls'[j] = Idle
      BY <2>0, <2>2 DEF EndRefused
    <3>. QED
      BY <2>2, <3>1, CallsVouched DEF EndRefused, EarnedInv
  <2>3. ASSUME NEW i \in Slot, NEW key \in Document, UploadDocument(i, key) PROVE EarnedInv'
    <3>1. \A j \in Slot : calls'[j] = calls[j] \/ calls'[j] = Idle
      BY <2>0, <2>3 DEF UploadDocument
    <3>2. Seen(calls[i]) \in Record /\ Vouched(Seen(calls[i]), approved)
      BY <2>3, SeenType, SeenVouched DEF UploadDocument, Resume
    <3>3. /\ record'.level = record.level /\ record'.pending_review = record.pending_review
          /\ record'.documents = [Seen(calls[i]).documents EXCEPT ![key] = "uploaded"]
      BY <2>0, <2>3 DEF UploadDocument, Record
    <3>4. \A k \in Document : record'.documents[k] = "verified" => k \in approved
      BY <3>2, <3>3 DEF Vouched, Record
    <3>5. approved' = approved
      BY <2>3 DEF UploadDocument
    <3>. QED
      BY <3>1, <3>3, <3>4, <3>5, CallsVouched DEF EarnedInv, Vouched
  <2>4. ASSUME NEW i \in Slot, NEW target \in 1..TopLevel, NEW dies \in BOOLEAN,
               SubmitReview(i, target, dies)
        PROVE  EarnedInv'
    <3>1. \A j \in Slot : calls'[j] = calls[j] \/ calls'[j] = Idle
      BY <2>0, <2>4 DEF SubmitReview, Survives
    <3>. DEFINE seen == Seen(calls[i])
                docs == SubmittedDocuments(seen.documents, target)
    <3>2. seen \in Record /\ Vouched(seen, approved)
      BY <2>4, SeenType, SeenVouched DEF SubmitReview, Resume
    <3>3. \A k \in Document : docs[k] = "verified" => k \in approved
      BY <3>2 DEF SubmittedDocuments, Vouched
    <3>4. target = seen.level + 1
      BY <2>4 DEF SubmitReview, NextLevel
    <3>5. Earned(target - 1, approved)
      BY <3>2, <3>4 DEF Vouched, Record, Level
    <3>6. record' = [record EXCEPT !.documents = docs, !.pending_review = IF dies THEN @ ELSE target]
      BY <2>4 DEF SubmitReview
    <3>. HIDE DEF docs
    <3>7. /\ record'.level = record.level /\ record'.documents = docs
          /\ record'.pending_review = IF dies THEN record.pending_review ELSE target
      BY <2>0, <3>6 DEF Record
    <3>8. approved' = approved
      BY <2>4 DEF SubmitReview
    <3>9. record'.pending_review # NoReview => Earned(record'.pending_review - 1, approved)
      BY <3>5, <3>7 DEF EarnedInv
    <3>. QED
      BY <3>1, <3>3, <3>7, <3>8, <3>9, CallsVouched DEF EarnedInv, Vouched
  <2>5. CASE ReplaceRecord
    <3>1. \A j \in Slot : calls'[j] = Detached(calls[j])
      BY <2>5 DEF ReplaceRecord
    <3>2. \A j \in Slot : calls'[j] # Idle =>
            calls[j] # Idle /\ calls'[j].copy \in {calls[j].copy, record}
      BY <3>1, DetachedType
    <3>3. \A j \in Slot : calls'[j] # Idle => Vouched(calls'[j].copy, approved)
      BY <3>2 DEF EarnedInv
    <3>. QED
      BY <2>5, <3>3 DEF ReplaceRecord, EarnedInv
  <2>6. ASSUME NEW key \in Document, ApproveDocument(key) PROVE EarnedInv'
    <3>1. \A j \in Slot : calls'[j] = calls[j] \/ calls'[j] = Idle
      BY <2>6 DEF ApproveDocument
    <3>2. /\ record'.level = record.level /\ record'.pending_review = record.pending_review
          /\ record'.documents = [record.documents EXCEPT ![key] = "verified"]
          /\ approved' = approved \cup {key}
      BY <2>0, <2>6 DEF ApproveDocument, Record
    <3>3. \A k \in Document : record'.documents[k] = "verified" => k \in approved'
      BY <2>0, <3>2 DEF EarnedInv, Vouched, Record
    <3>4. \A n : Earned(n, approved) => Earned(n, approved')
      BY <3>2, MoreApproved
    <3>. QED
      BY <3>1, <3>2, <3>3, <3>4, CallsVouched DEF EarnedInv, Vouched
  <2>7. ASSUME NEW key \in Document, NEW dies \in BOOLEAN, RejectDocument(key, dies)
        PROVE  EarnedInv'
    <3>1. \A j \in Slot : calls'[j] = calls[j] \/ calls'[j] = Idle
      BY <2>0, <2>7 DEF RejectDocument
    <3>2. /\ record'.level = record.level
          /\ record'.pending_review \in {NoReview, record.pending_review}
          /\ record'.documents = [record.documents EXCEPT ![key] = "rejected"]
          /\ approved' = approved
      BY <2>0, <2>7 DEF RejectDocument, Record
    <3>3. \A k \in Document : record'.documents[k] = "verified" => k \in approved
      BY <2>0, <3>2 DEF EarnedInv, Vouched, Record
    <3>. QED
      BY <3>1, <3>2, <3>3, CallsVouched DEF EarnedInv, Vouched
  <2>8. ASSUME NEW dies \in BOOLEAN, PromoteLevel(dies) PROVE EarnedInv'
    <3>1. \A j \in Slot : calls'[j] = calls[j] \/ calls'[j] = Idle
      BY <2>0, <2>8 DEF PromoteLevel
    <3>2. /\ record.pending_review # NoReview
          /\ record'.level = record.pending_review
          /\ record'.pending_review \in {NoReview, record.pending_review}
          /\ record'.documents = record.documents
          /\ approved' = approved
      BY <2>0, <2>8 DEF PromoteLevel, Record
    <3>3. record.pending_review \in 1..TopLevel
      BY <2>0, <3>2 DEF Record, NoReview
    <3>4. REQUIRED_DOCS_FOR[record.pending_review] \subseteq approved
      BY <2>8, <3>3 DEF PromoteLevel, Complete, EarnedInv, Vouched
    <3>5. Earned(record.pending_review, approved)
      BY <3>2, <3>3, <3>4 DEF Earned, EarnedInv
    <3>. QED
      BY <3>1, <3>2, <3>5, CallsVouched DEF EarnedInv, Vouched
  <2>9. CASE UNCHANGED kycVars
    BY <2>9 DEF kycVars, EarnedInv
  <2>. QED
    BY <2>1, <2>2, <2>3, <2>4, <2>5, <2>6, <2>7, <2>8, <2>9 DEF KycNext
<1>. QED
  BY <1>1, <1>2, KycTypesKept, PTL DEF KycSpec

\* Whatever calls overtake each other, and wherever the process dies, nobody
\* has a level without an approval of each document that it, and every level
\* below it, needs.
THEOREM LevelsAreEarned == KycSpec => []LevelEarned
<1>1. EarnedInv => LevelEarned
  BY DEF EarnedInv, Vouched, Earned, LevelEarned
<1>. QED
  BY <1>1, EarnedInvariant, PTL

-----------------------------------------------------------------------------
(* Calls that were not overtaken *)

\* A call that ends without having been overtaken has seen the record as it is.
LEMMA NotOvertaken ==
  ASSUME NEW i \in Slot, NEW kind, Resume(i, kind), ~overtaken'
  PROVE  /\ Seen(calls[i]) = record
         /\ record.pending_review = NoReview
         /\ ~overtaken
  BY DEF Resume, Overtaken

\* The verdicts: every step that is not overtaken keeps the documents it does
\* not decide about.
LEMMA VerdictStep == KycTypes /\ VerdictStands /\ [KycNext]_kycVars => VerdictStands'
<1>. SUFFICES ASSUME KycTypes, VerdictStands, [KycNext]_kycVars, ~overtaken'
              PROVE  \A k \in Document : record'.documents[k] = "verified" => verdict'[k] = "verified"
  BY DEF VerdictStands
<1>0. record \in Record /\ verdict \in [Document -> {"none", "verified", "rejected"}]
  BY DEF KycTypes
<1>1. CASE UNCHANGED <<record, verdict, overtaken>>
  BY <1>1 DEF VerdictStands
<1>2. ASSUME NEW i \in Slot, NEW key \in Document, UploadDocument(i, key)
      PROVE  \A k \in Document : record'.documents[k] = "verified" => verdict'[k] = "verified"
  <2>1. Seen(calls[i]) = record /\ ~overtaken
    BY <1>2, NotOvertaken DEF UploadDocument
  <2>2. /\ record'.documents = [record.documents EXCEPT ![key] = "uploaded"]
        /\ verdict' = [verdict EXCEPT ![key] = "none"]
    BY <1>0, <1>2, <2>1 DEF UploadDocument, Record
  <2>. QED
    BY <1>0, <2>1, <2>2 DEF VerdictStands, Record
<1>3. ASSUME NEW i \in Slot, NEW target \in 1..TopLevel, NEW dies \in BOOLEAN,
             SubmitReview(i, target, dies)
      PROVE  \A k \in Document : record'.documents[k] = "verified" => verdict'[k] = "verified"
  <2>1. Seen(calls[i]) = record /\ ~overtaken
    BY <1>3, NotOvertaken DEF SubmitReview
  <2>. DEFINE docs == SubmittedDocuments(record.documents, target)
  <2>2. record' = [record EXCEPT !.documents = docs, !.pending_review = IF dies THEN @ ELSE target]
    BY <1>3, <2>1 DEF SubmitReview
  <2>3. \A k \in Document : docs[k] = "verified" => record.documents[k] = "verified"
    BY DEF SubmittedDocuments
  <2>. HIDE DEF docs
  <2>4. record'.documents = docs
    BY <1>0, <2>2 DEF Record
  <2>5. verdict' = verdict
    BY <1>3 DEF SubmitReview
  <2>. QED
    BY <2>1, <2>3, <2>4, <2>5 DEF VerdictStands
<1>4. ASSUME NEW key \in Document, ApproveDocument(key)
      PROVE  \A k \in Document : record'.documents[k] = "verified" => verdict'[k] = "verified"
  <2>1. /\ record'.documents = [record.documents EXCEPT ![key] = "verified"]
        /\ verdict' = [verdict EXCEPT ![key] = "verified"]
        /\ ~overtaken
    BY <1>0, <1>4 DEF ApproveDocument, Record
  <2>. QED
    BY <1>0, <2>1 DEF VerdictStands, Record
<1>5. ASSUME NEW key \in Document, NEW dies \in BOOLEAN, RejectDocument(key, dies)
      PROVE  \A k \in Document : record'.documents[k] = "verified" => verdict'[k] = "verified"
  <2>1. /\ record'.documents = [record.documents EXCEPT ![key] = "rejected"]
        /\ verdict' = [verdict EXCEPT ![key] = "rejected"]
        /\ ~overtaken
    BY <1>0, <1>5 DEF RejectDocument, Record
  <2>. QED
    BY <1>0, <2>1 DEF VerdictStands, Record
<1>6. ASSUME NEW dies \in BOOLEAN, PromoteLevel(dies)
      PROVE  \A k \in Document : record'.documents[k] = "verified" => verdict'[k] = "verified"
  <2>1. record'.documents = record.documents /\ verdict' = verdict /\ ~overtaken
    BY <1>0, <1>6 DEF PromoteLevel, Record
  <2>. QED
    BY <2>1 DEF VerdictStands
<1>. QED
  BY <1>1, <1>2, <1>3, <1>4, <1>5, <1>6
  DEF KycNext, kycVars, Begin, EndRefused, ReplaceRecord

\* A document that was rejected, or uploaded anew, is verified only after an
\* approval of its own, as long as no call was overtaken.
THEOREM VerdictsStand == KycSpec => []VerdictStands
<1>1. KycInit => VerdictStands
  BY DEF KycInit, VerdictStands
<1>. QED
  BY <1>1, VerdictStep, KycTypesKept, PTL DEF KycSpec

\* The review in progress: only a call that is overtaken, or a process that
\* dies, parts it from the documents it needs.
LEMMA ReviewStep == KycTypes /\ ReviewComplete /\ [KycNext]_kycVars => ReviewComplete'
<1>. DEFINE Needed == \A k \in REQUIRED_DOCS_FOR[record.pending_review] :
                        record.documents[k] \in {"pending_review", "verified"}
<1>. SUFFICES ASSUME KycTypes, ReviewComplete, [KycNext]_kycVars,
                     record'.pending_review # NoReview, ~overtaken', ~died'
              PROVE  Needed'
  BY DEF ReviewComplete
<1>. USE LevelsOrdered
<1>0. record \in Record
  BY DEF KycTypes
<1>a. record.pending_review # NoReview =>
        REQUIRED_DOCS_FOR[record.pending_review] \subseteq Document
  BY <1>0 DEF Record, NoReview
<1>1. CASE UNCHANGED <<record, overtaken, died>>
  BY <1>1 DEF ReviewComplete
<1>2. ASSUME NEW i \in Slot, NEW key \in Document, UploadDocument(i, key) PROVE FALSE
  <2>1. record.pending_review = NoReview
    BY <1>2, NotOvertaken DEF UploadDocument
  <2>2. record'.pending_review = record.pending_review
    BY <1>0, <1>2 DEF UploadDocument, Record
  <2>. QED
    BY <2>1, <2>2
<1>3. ASSUME NEW i \in Slot, NEW target \in 1..TopLevel, NEW dies \in BOOLEAN,
             SubmitReview(i, target, dies)
      PROVE  Needed'
  <2>1. Seen(calls[i]) = record /\ ~overtaken
    BY <1>3, NotOvertaken DEF SubmitReview
  <2>2. ~dies
    BY <1>3 DEF SubmitReview, Survives
  <2>. DEFINE docs == SubmittedDocuments(record.documents, target)
  <2>3. record' = [record EXCEPT !.documents = docs, !.pending_review = target]
    BY <1>3, <2>1, <2>2 DEF SubmitReview
  <2>4. REQUIRED_DOCS_FOR[target] \subseteq Document
    OBVIOUS
  <2>5. \A k \in REQUIRED_DOCS_FOR[target] : docs[k] \in {"pending_review", "verified"}
    BY <1>3, <2>1, <2>4 DEF SubmittedDocuments, SubmitReview
  <2>. HIDE DEF docs
  <2>6. record'.documents = docs /\ record'.pending_review = target
    BY <1>0, <2>3 DEF Record
  <2>. QED
    BY <2>5, <2>6
<1>4. ASSUME NEW key \in Document, ApproveDocument(key) PROVE Needed'
  <2>1. /\ record'.documents = [record.documents EXCEPT ![key] = "verified"]
        /\ record'.pending_review = record.pending_review
        /\ ~overtaken /\ ~died
    BY <1>0, <1>4 DEF ApproveDocument, Record
  <2>. QED
    BY <1>0, <1>a, <2>1 DEF ReviewComplete, Record
<1>5. ASSUME NEW key \in Document, NEW dies \in BOOLEAN, RejectDocument(key, dies) PROVE FALSE
  BY <1>0, <1>5 DEF RejectDocument, Record
<1>6. ASSUME NEW dies \in BOOLEAN, PromoteLevel(dies) PROVE FALSE
  BY <1>0, <1>6 DEF PromoteLevel, Record
<1>. QED
  BY <1>1, <1>2, <1>3, <1>4, <1>5, <1>6
  DEF KycNext, kycVars, Begin, EndRefused, ReplaceRecord

\* The administrator can end each review in progress: it has its documents, as
\* long as no call was overtaken and no process died half-way.
THEOREM ReviewsComplete == KycSpec => []ReviewComplete
<1>1. KycInit => ReviewComplete
  BY DEF KycInit, ReviewComplete
<1>. QED
  BY <1>1, ReviewStep, KycTypesKept, PTL DEF KycSpec

\* As long as no call was overtaken a review is of the level after the user's,
\* or of the user's: the process died before it closed the review.
NextInv ==
  (record.pending_review # NoReview /\ ~overtaken) =>
    record.pending_review \in {record.level, record.level + 1}

LEMMA NextInvariant == KycSpec => []NextInv
<1>1. KycInit => NextInv
  BY DEF KycInit, NextInv
<1>2. KycTypes /\ NextInv /\ [KycNext]_kycVars => NextInv'
  <2>. SUFFICES ASSUME KycTypes, NextInv, [KycNext]_kycVars,
                       record'.pending_review # NoReview, ~overtaken'
                PROVE  record'.pending_review \in {record'.level, record'.level + 1}
    BY DEF NextInv
  <2>0. record \in Record
    BY DEF KycTypes
  <2>1. CASE UNCHANGED <<record, overtaken>>
    BY <2>1 DEF NextInv
  <2>2. ASSUME NEW i \in Slot, NEW key \in Document, UploadDocument(i, key) PROVE FALSE
    <3>1. record.pending_review = NoReview
      BY <2>2, NotOvertaken DEF UploadDocument
    <3>2. record'.pending_review = record.pending_review
      BY <2>0, <2>2 DEF UploadDocument, Record
    <3>. QED
      BY <3>1, <3>2
  <2>3. ASSUME NEW i \in Slot, NEW target \in 1..TopLevel, NEW dies \in BOOLEAN,
               SubmitReview(i, target, dies)
        PROVE  record'.pending_review = record'.level + 1
    <3>1. Seen(calls[i]) = record /\ record.pending_review = NoReview
      BY <2>3, NotOvertaken DEF SubmitReview
    <3>. DEFINE docs == SubmittedDocuments(record.documents, target)
    <3>2. record' = [record EXCEPT !.documents = docs, !.pending_review = IF dies THEN @ ELSE target]
      BY <2>3, <3>1 DEF SubmitReview
    <3>. HIDE DEF docs
    <3>3. /\ record'.level = record.level
          /\ record'.pending_review = IF dies THEN record.pending_review ELSE target
      BY <2>0, <3>2 DEF Record
    <3>. QED
      BY <2>3, <3>1, <3>3 DEF SubmitReview, NextLevel
  <2>4. ASSUME NEW key \in Document, ApproveDocument(key)
        PROVE  record'.pending_review \in {record'.level, record'.level + 1}
    <3>1. /\ record'.level = record.level /\ record'.pending_review = record.pending_review
          /\ ~overtaken
      BY <2>0, <2>4 DEF ApproveDocument, Record
    <3>. QED
      BY <3>1 DEF NextInv
  <2>5. ASSUME NEW key \in Document, NEW dies \in BOOLEAN, RejectDocument(key, dies)
        PROVE  record'.pending_review \in {record'.level, record'.level + 1}
    <3>1. /\ record'.level = record.level
          /\ record'.pending_review \in {NoReview, record.pending_review}
          /\ ~overtaken
      BY <2>0, <2>5 DEF RejectDocument, Record
    <3>. QED
      BY <3>1 DEF NextInv
  <2>6. ASSUME NEW dies \in BOOLEAN, PromoteLevel(dies)
        PROVE  record'.pending_review = record'.level
    BY <2>0, <2>6 DEF PromoteLevel, Record
  <2>. QED
    BY <2>1, <2>2, <2>3, <2>4, <2>5, <2>6
    DEF KycNext, kycVars, Begin, EndRefused, ReplaceRecord
<1>. QED
  BY <1>1, <1>2, KycTypesKept, PTL DEF KycSpec

\* Levels change one at a time, and never fall, unless a call was overtaken.
THEOREM LevelsByOne == KycSpec => LevelByOne
<1>1. KycTypes /\ NextInv /\ [KycNext]_kycVars =>
        [record'.level \notin {record.level, record.level + 1} => overtaken]_kycVars
  <2>. SUFFICES ASSUME KycTypes, NextInv, KycNext, ~overtaken
                PROVE  record'.level \in {record.level, record.level + 1}
    OBVIOUS
  <2>0. record \in Record
    BY DEF KycTypes
  <2>1. CASE UNCHANGED record
    BY <2>1
  <2>2. ASSUME NEW i \in Slot, NEW key \in Document, UploadDocument(i, key)
        PROVE  record'.level = record.level
    BY <2>0, <2>2 DEF UploadDocument, Record
  <2>3. ASSUME NEW i \in Slot, NEW target \in 1..TopLevel, NEW dies \in BOOLEAN,
               SubmitReview(i, target, dies)
        PROVE  record'.level = record.level
    BY <2>0, <2>3 DEF SubmitReview, Record
  <2>4. ASSUME NEW key \in Document, ApproveDocument(key) PROVE record'.level = record.level
    BY <2>0, <2>4 DEF ApproveDocument, Record
  <2>5. ASSUME NEW key \in Document, NEW dies \in BOOLEAN, RejectDocument(key, dies)
        PROVE  record'.level = record.level
    BY <2>0, <2>5 DEF RejectDocument, Record
  <2>6. ASSUME NEW dies \in BOOLEAN, PromoteLevel(dies)
        PROVE  record'.level \in {record.level, record.level + 1}
    BY <2>0, <2>6 DEF PromoteLevel, Record, NextInv
  <2>. QED
    BY <2>1, <2>2, <2>3, <2>4, <2>5, <2>6 DEF KycNext, Begin, EndRefused, ReplaceRecord
<1>. QED
  BY <1>1, KycTypesKept, NextInvariant, PTL DEF KycSpec, LevelByOne
=============================================================================
