-------------------------------- MODULE Kyc --------------------------------
(***************************************************************************)
(* The verification of one user: documents, reviews and levels             *)
(* (src/api/kyc_routes.py, src/api/kyc_admin_routes.py).                   *)
(*                                                                         *)
(* The handlers of the user look at the record, await the body of the      *)
(* request, and write back what they derive from the record they hold: in  *)
(* memory the store's own object, which later calls change, until an       *)
(* operation on the user puts another object in its place; from PostgreSQL *)
(* a copy.  The handlers of the administrator look and write in one step.  *)
(* One process serves the user; in PostgreSQL each write is a transaction, *)
(* and the process may die between two of them.                            *)
(***************************************************************************)
EXTENDS Naturals, FiniteSets

CONSTANTS
  Document,        \* the keys of documents
  REQUIRED_DOCS_FOR, \* level -> the documents it needs
  TopLevel,        \* levels are 0..TopLevel (L0, L1, ...)
  Slot             \* bound: the user's calls in flight

ASSUME LevelsOrdered ==
  /\ TopLevel \in Nat
  /\ REQUIRED_DOCS_FOR \in [1..TopLevel -> SUBSET Document]

Level == 0..TopLevel
NoReview == 0
Status == {"missing", "uploaded", "pending_review", "verified", "rejected"}

VARIABLES
  copies,        \* the store hands out copies: PostgreSQL; never changes
  record,        \* the user's documents, pending_review and level
  calls,         \* slot -> the call of the user that awaits its body
  \* History, read by properties only.
  verdict,       \* document -> what was decided of the upload that is stored
  approved,      \* documents that have been approved at some time
  overtaken,     \* a call ended that had seen an older record, or no review
  died           \* the process died between two writes

kycVars == <<copies, record, calls, verdict, approved, overtaken, died>>

Record == [documents : [Document -> Status], pending_review : 0..TopLevel, level : Level]

\* A call holds the store's own object, or another one that keeps a copy.
Idle == [kind |-> "idle"]
Call == [kind : {"upload", "review"}, own : BOOLEAN, copy : Record]
Detached(c) == IF c # Idle /\ c.own THEN [c EXCEPT !.own = FALSE, !.copy = record] ELSE c

KycInit ==
  /\ copies \in BOOLEAN
  /\ record = [documents |-> [k \in Document |-> "missing"], pending_review |-> NoReview, level |-> 0]
  /\ calls = [i \in Slot |-> Idle]
  /\ verdict = [k \in Document |-> "none"]
  /\ approved = {}
  /\ overtaken = FALSE /\ died = FALSE

-----------------------------------------------------------------------------
(* The user's calls. *)

\* Mutant: calls share one object, whatever the store.
BeginShared(i, kind) ==
  /\ calls[i] = Idle
  /\ record.pending_review = NoReview
  /\ calls' = [calls EXCEPT ![i] = [kind |-> kind, own |-> TRUE, copy |-> record]]
  /\ UNCHANGED <<copies, record, verdict, approved, overtaken, died>>

Begin(i, kind) ==
  /\ calls[i] = Idle
  /\ record.pending_review = NoReview
  /\ calls' = [calls EXCEPT ![i] =
       [kind |-> kind, own |-> ~copies, copy |-> record]]
  /\ UNCHANGED <<copies, record, verdict, approved, overtaken, died>>

Seen(c) == IF c.own THEN record ELSE c.copy

\* What the call decided before the await, or looks at after it, is no longer so.
Overtaken(c) == record.pending_review # NoReview \/ Seen(c) # record

\* A call of the kind gets its body and ends.
Resume(i, kind) ==
  /\ calls[i] # Idle /\ calls[i].kind = kind
  /\ overtaken' = (overtaken \/ Overtaken(calls[i]))

\* Nothing survives the process but what its transactions committed.
Survives(i, dies) ==
  /\ dies => copies
  /\ calls' = IF dies THEN [j \in Slot |-> Idle] ELSE [calls EXCEPT ![i] = Idle]
  /\ died' = (died \/ dies)

\* A body that is missing or invalid.
EndRefused(i) ==
  /\ calls[i] # Idle
  /\ calls' = [calls EXCEPT ![i] = Idle]
  /\ UNCHANGED <<copies, record, verdict, approved, overtaken, died>>

\* Mutant: a new upload keeps the status of the one it replaces.
UploadOver(i, key) ==
  LET documents == Seen(calls[i]).documents IN
  /\ Resume(i, "upload")
  /\ record' = [record EXCEPT !.documents = [documents EXCEPT ![key] =
                   IF documents[key] = "missing" THEN "uploaded" ELSE documents[key]]]
  /\ verdict' = [verdict EXCEPT ![key] = "none"]
  /\ calls' = [calls EXCEPT ![i] = Idle]
  /\ UNCHANGED <<copies, approved, died>>

UploadDocument(i, key) ==
  /\ Resume(i, "upload")
  /\ record' = [record EXCEPT !.documents = [Seen(calls[i]).documents EXCEPT ![key] = "uploaded"]]
  /\ verdict' = [verdict EXCEPT ![key] = "none"]
  /\ calls' = [calls EXCEPT ![i] = Idle]
  /\ UNCHANGED <<copies, approved, died>>

SubmittedDocuments(documents, target) ==
  [k \in Document |->
     IF k \in REQUIRED_DOCS_FOR[target] /\ documents[k] = "uploaded"
     THEN "pending_review" ELSE documents[k]]

\* Mutant: any higher level can be asked for.
HigherLevel(level) == {l \in 1..TopLevel : l > level}

NextLevel(level) == {l \in 1..TopLevel : l = level + 1}

\* When the process dies the documents are written and the review is not.
SubmitReview(i, target, dies) ==
  LET seen == Seen(calls[i]) IN
  /\ Resume(i, "review")
  /\ target \in NextLevel(seen.level)
  /\ \A k \in REQUIRED_DOCS_FOR[target] :
       seen.documents[k] \in {"uploaded", "pending_review", "verified"}
  /\ record' = [record EXCEPT !.documents = SubmittedDocuments(seen.documents, target),
                              !.pending_review = IF dies THEN @ ELSE target]
  /\ Survives(i, dies)
  /\ UNCHANGED <<copies, verdict, approved>>

\* set_banned, soft_delete_user, restore_user and update_user put a new object
\* in the place of the one that calls hold.
ReplaceRecord ==
  /\ ~copies
  /\ \E i \in Slot : calls[i] # Idle
  /\ calls' = [i \in Slot |-> Detached(calls[i])]
  /\ UNCHANGED <<copies, record, verdict, approved, overtaken, died>>

-----------------------------------------------------------------------------
(* The administrator's calls. *)

Reviewing(key) == record.pending_review # NoReview /\ record.documents[key] # "missing"

ApproveDocument(key) ==
  /\ Reviewing(key)
  /\ record' = [record EXCEPT !.documents[key] = "verified"]
  /\ verdict' = [verdict EXCEPT ![key] = "verified"]
  /\ approved' = approved \cup {key}
  /\ UNCHANGED <<copies, calls, overtaken, died>>

\* Mutant: a rejection leaves the review open.
RejectAndKeepReview(key, dies) ==
  /\ Reviewing(key) /\ (dies => copies)
  /\ record' = [record EXCEPT !.documents[key] = "rejected"]
  /\ verdict' = [verdict EXCEPT ![key] = "rejected"]
  /\ calls' = IF dies THEN [j \in Slot |-> Idle] ELSE calls
  /\ died' = (died \/ dies)
  /\ UNCHANGED <<copies, approved, overtaken>>

\* The rejection is written before the review is cleared.
RejectDocument(key, dies) ==
  /\ Reviewing(key) /\ (dies => copies)
  /\ record' = [record EXCEPT !.documents[key] = "rejected",
                              !.pending_review = IF dies THEN @ ELSE NoReview]
  /\ verdict' = [verdict EXCEPT ![key] = "rejected"]
  /\ calls' = IF dies THEN [j \in Slot |-> Idle] ELSE calls
  /\ died' = (died \/ dies)
  /\ UNCHANGED <<copies, approved, overtaken>>

\* Mutant: documents that the administrator has not seen yet are enough.
CompleteWhenSubmitted(target) ==
  \A k \in REQUIRED_DOCS_FOR[target] : record.documents[k] \in {"pending_review", "verified"}

Complete(target) == \A k \in REQUIRED_DOCS_FOR[target] : record.documents[k] = "verified"

\* The level is written before the review is cleared.
PromoteLevel(dies) ==
  /\ record.pending_review # NoReview /\ (dies => copies)
  /\ Complete(record.pending_review)
  /\ record' = [record EXCEPT !.level = record.pending_review,
                              !.pending_review = IF dies THEN @ ELSE NoReview]
  /\ calls' = IF dies THEN [j \in Slot |-> Idle] ELSE calls
  /\ died' = (died \/ dies)
  /\ UNCHANGED <<copies, verdict, approved, overtaken>>

-----------------------------------------------------------------------------

KycNext ==
  \/ \E i \in Slot :
       \/ Begin(i, "upload") \/ Begin(i, "review") \/ EndRefused(i)
       \/ \E key \in Document : UploadDocument(i, key)
       \/ \E target \in 1..TopLevel, dies \in BOOLEAN : SubmitReview(i, target, dies)
  \/ ReplaceRecord
  \/ \E key \in Document : ApproveDocument(key) \/ \E dies \in BOOLEAN : RejectDocument(key, dies)
  \/ \E dies \in BOOLEAN : PromoteLevel(dies)

KycSpec == KycInit /\ [][KycNext]_kycVars

-----------------------------------------------------------------------------
(* Properties *)

\* Type invariant; only memory hands out its own object.
KycTypeOK ==
  /\ copies \in BOOLEAN /\ record \in Record
  /\ \A i \in Slot : calls[i] # Idle => calls[i] \in Call /\ (calls[i].own => ~copies)
  /\ verdict \in [Document -> {"none", "verified", "rejected"}]
  /\ approved \subseteq Document
  /\ overtaken \in BOOLEAN /\ died \in BOOLEAN

\* Whatever calls overtake each other and wherever the process dies: each
\* document that the user's level and the levels below need was approved once.
LevelEarned ==
  \A l \in 1..record.level : REQUIRED_DOCS_FOR[l] \subseteq approved

\* A step raises the level by one, and lowers it never, unless a call of the
\* user wrote back what it had decided from an old record: it can have asked
\* for the review of a level that the user had passed, and the call after it,
\* for the level above the one the user was lowered from.
LevelByOne ==
  [][record'.level \notin {record.level, record.level + 1} => overtaken]_kycVars

\* Where no call was overtaken: a document that was rejected, or uploaded anew,
\* is verified only after an approval of its own.
VerdictStands ==
  \A k \in Document :
    (record.documents[k] = "verified" /\ ~overtaken) => verdict[k] = "verified"

\* Where no call was overtaken and no process died half-way: a review in
\* progress has each document it needs, submitted or verified, so that the
\* administrator can end it.
ReviewComplete ==
  (record.pending_review # NoReview /\ ~overtaken /\ ~died) =>
    \A k \in REQUIRED_DOCS_FOR[record.pending_review] :
      record.documents[k] \in {"pending_review", "verified"}

\* What BR-KY-06 says: while a review is in progress no upload is accepted.
NoUploadInReview ==
  [][record.pending_review # NoReview =>
       \A k \in Document : record.documents[k] # "uploaded" => record'.documents[k] # "uploaded"]_kycVars
=============================================================================
