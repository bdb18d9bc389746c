------------------------------- MODULE Media --------------------------------
(***************************************************************************)
(* One media row, from the ticket to the tweet and the avatar that show it *)
(* (internal/media, cmd/worker/media.go).  The client uploads the object   *)
(* through a pre-signed link, any number of times while the link lives;    *)
(* Complete marks the row uploaded and emits an event; the worker downloads*)
(* the object, writes the variants and marks the row ready or failed.      *)
(* Neither UPDATE looks at the status it overwrites.                       *)
(*                                                                         *)
(* Delivery is Kafka's: the partition may move to another worker, or a     *)
(* worker die, and reading resumes at a committed offset; a handler that   *)
(* returns an error has its record skipped.  Workers poll one record at a  *)
(* time.  Bounds: MaxMoves (moves and crashes), MaxSkips (failing calls).  *)
(***************************************************************************)
EXTENDS Naturals

CONSTANTS
  Requests,     \* Complete requests
  Workers,
  Names,        \* the variants: "thumb", "feed", "orig"
  Uploads,      \* what the client may put at the link
  Images,       \* the uploads that decode
  Mismatched,   \* the uploads whose size is not the declared one
  MaxMoves,
  MaxSkips,
  NoImage

ASSUME UploadAssumption ==
  Images \subseteq Uploads /\ Mismatched \subseteq Uploads /\ NoImage \notin Uploads
ASSUME MediaBounds == MaxMoves \in Nat /\ MaxSkips \in Nat

VARIABLES
  status,     \* of the row: "none" before Create
  object,     \* at uploadKey
  variants,   \* the upload each variant was made from
  request,    \* where each Complete request is
  uploadEvents, \* MediaUploaded events emitted
  owner,      \* the worker that reads the partition
  taken,      \* events it has polled
  work,       \* where each worker is
  image,      \* what each worker downloaded
  left,       \* variants each worker still has to put
  use,        \* each use of the media: "no", "checked" or "shown"
  raced,      \* history: two Completes, or two handlers, were under way at once
  moves, skipped

Uses == {"tweet", "avatar"}   \* what may show the media
row == <<status, object, variants, use>>
delivery == <<owner, taken, moves>>
handlers == <<work, image, left>>
mediaVars == <<row, request, uploadEvents, delivery, handlers, raced, skipped>>

MediaTypeOK ==
  /\ status \in {"none", "pending", "uploaded", "ready", "failed"}
  /\ object \in Uploads \cup {NoImage}
  /\ variants \in [Names -> Images \cup {NoImage}]
  /\ request \in [Requests -> {"idle", "head", "write", "done"}]
  /\ uploadEvents \in Nat /\ taken \in 0..uploadEvents
  /\ owner \in Workers
  /\ work \in [Workers -> {"poll", "read", "get", "decode", "put", "mark"}]
  /\ image \in [Workers -> Uploads \cup {NoImage}]
  /\ left \in [Workers -> SUBSET Names]
  /\ \A w \in Workers : work[w] \in {"put", "mark"} => image[w] \in Images
  /\ use \in [Uses -> {"no", "checked", "shown"}]
  /\ raced \in BOOLEAN
  /\ moves \in 0..MaxMoves /\ skipped \in 0..MaxSkips

MediaInit ==
  /\ status = "none" /\ object = NoImage
  /\ variants = [n \in Names |-> NoImage]
  /\ request = [r \in Requests |-> "idle"]
  /\ uploadEvents = 0 /\ taken = 0 /\ owner \in Workers
  /\ work = [w \in Workers |-> "poll"]
  /\ image = [w \in Workers |-> NoImage] /\ left = [w \in Workers |-> {}]
  /\ use = [u \in Uses |-> "no"] /\ raced = FALSE /\ moves = 0 /\ skipped = 0

-----------------------------------------------------------------------------
(* The API.                                                                 *)

Create ==
  /\ status = "none"
  /\ status' = "pending"
  /\ UNCHANGED <<object, variants, use, request, uploadEvents, delivery, handlers, raced, skipped>>

\* The client PUTs to the link, before or after it completes.
Upload(u) ==
  /\ status # "none"
  /\ object' = u
  /\ UNCHANGED <<status, variants, use, request, uploadEvents, delivery, handlers, raced, skipped>>

UnderWay(r) == request[r] \in {"head", "write"}
GoesTo(r, to) == request' = [request EXCEPT ![r] = to]

Anything == status # "none"         \* mutant: no check of the status
Completable == status = "pending"

\* Complete's SELECT; a row that is not pending any more is answered as it is.
ReadRow(r) ==
  /\ request[r] = "idle" /\ status # "none"
  /\ GoesTo(r, IF Completable THEN "head" ELSE "done")
  /\ raced' = (raced \/ (Completable /\ \E q \in Requests \ {r} : UnderWay(q)))
  /\ UNCHANGED <<row, uploadEvents, delivery, handlers, skipped>>

\* HEAD: no object or another size than declared is an error.
HeadObject(r) ==
  /\ request[r] = "head"
  /\ GoesTo(r, IF object \in Uploads \ Mismatched THEN "write" ELSE "idle")
  /\ UNCHANGED <<row, uploadEvents, delivery, handlers, raced, skipped>>

WriteUploaded(r) ==
  /\ request[r] = "write"
  /\ status' = "uploaded" /\ uploadEvents' = uploadEvents + 1
  /\ GoesTo(r, "done")
  /\ UNCHANGED <<object, variants, use, delivery, handlers, raced, skipped>>

\* A tweet, or a profile that takes the media for its avatar, checks that the media
\* is ready by a query of its own, before the transaction or UPDATE that uses it.
CheckReady(u) ==
  /\ use[u] = "no" /\ status = "ready"
  /\ use' = [use EXCEPT ![u] = "checked"]
  /\ UNCHANGED <<status, object, variants, request, uploadEvents, delivery, handlers, raced,
                 skipped>>

Show(u) ==
  /\ use[u] = "checked"
  /\ use' = [use EXCEPT ![u] = "shown"]
  /\ UNCHANGED <<status, object, variants, request, uploadEvents, delivery, handlers, raced,
                 skipped>>

CheckTweetMedia == CheckReady("tweet")
PostTweet == Show("tweet")
CheckAvatar == CheckReady("avatar")
UpdateProfile == Show("avatar")

-----------------------------------------------------------------------------
(* The worker.                                                              *)

Step(w, to) == work' = [work EXCEPT ![w] = to]

Deliver(w) ==
  /\ owner = w /\ work[w] = "poll" /\ taken < uploadEvents
  /\ taken' = taken + 1
  /\ Step(w, "read")
  /\ UNCHANGED <<row, request, uploadEvents, owner, moves, image, left, raced, skipped>>

Processable == status = "uploaded"
Unfinished == {"get", "decode", "put", "mark"}

ReadStatus(w) ==
  /\ work[w] = "read"
  /\ Step(w, IF Processable THEN "get" ELSE "poll")
  /\ raced' = (raced \/ (Processable /\ \E v \in Workers \ {w} : work[v] \in Unfinished))
  /\ UNCHANGED <<row, request, uploadEvents, delivery, image, left, skipped>>

Download(w) ==
  /\ work[w] = "get"
  /\ image' = [image EXCEPT ![w] = object]
  /\ Step(w, "decode")
  /\ UNCHANGED <<row, request, uploadEvents, delivery, left, raced, skipped>>

MissingNames == { n \in Names : variants[n] = NoImage }  \* mutant: keep what is there
NamesToPut == Names

MarkEarly == "mark"   \* mutant: the row is marked before the variants are put
AfterDecode == "put"

Decodes(w) == image[w] \in Images

Decode(w) ==
  /\ work[w] = "decode" /\ Decodes(w)
  /\ left' = [left EXCEPT ![w] = NamesToPut]
  /\ Step(w, AfterDecode)
  /\ UNCHANGED <<row, request, uploadEvents, delivery, image, raced, skipped>>

Park(w) ==
  /\ work[w] = "decode" /\ ~Decodes(w)
  /\ status' = "failed"
  /\ Step(w, "poll")
  /\ UNCHANGED <<object, variants, use, request, uploadEvents, delivery, image, left, raced,
                 skipped>>

\* The variants are put in the order Go walks a map: any.
PutVariant(w, n) ==
  /\ work[w] = "put" /\ n \in left[w]
  /\ variants' = [variants EXCEPT ![n] = image[w]]
  /\ left' = [left EXCEPT ![w] = @ \ {n}]
  /\ UNCHANGED <<status, object, use, request, uploadEvents, delivery, work, image, raced, skipped>>

LastPut(w) ==
  /\ work[w] = "put" /\ left[w] = {}
  /\ Step(w, "mark")
  /\ UNCHANGED <<row, request, uploadEvents, delivery, image, left, raced, skipped>>

MarkReady(w) ==
  /\ work[w] = "mark"
  /\ status' = "ready"
  /\ Step(w, "poll")
  /\ UNCHANGED <<object, variants, use, request, uploadEvents, delivery, image, left, raced,
                 skipped>>

\* Postgres or the store fails: the handler returns and Consume skips the record.
HandlerFails(w) ==
  /\ work[w] # "poll" /\ skipped < MaxSkips
  /\ skipped' = skipped + 1
  /\ Step(w, "poll")
  /\ UNCHANGED <<row, request, uploadEvents, delivery, image, left, raced>>

-----------------------------------------------------------------------------
(* The consumer group.                                                      *)

CommittedAhead == 0..taken  \* mutant: the offset passes the record being handled
Committed == 0..(IF work[owner] = "poll" THEN taken ELSE taken - 1)

Move == moves < MaxMoves /\ moves' = moves + 1 /\ taken' \in Committed

\* The partition goes to another worker; the old one finishes its record.
PartitionMoves(w) ==
  /\ w # owner /\ Move
  /\ owner' = w
  /\ UNCHANGED <<row, request, uploadEvents, handlers, raced, skipped>>

WorkerDies ==
  /\ Move
  /\ Step(owner, "poll")
  /\ UNCHANGED <<row, request, uploadEvents, owner, image, left, raced, skipped>>

-----------------------------------------------------------------------------
Complete(r) == ReadRow(r) \/ HeadObject(r) \/ WriteUploaded(r)

Handle(w) ==
  \/ Deliver(w) \/ ReadStatus(w) \/ Download(w) \/ Decode(w) \/ Park(w)
  \/ (\E n \in Names : PutVariant(w, n)) \/ LastPut(w) \/ MarkReady(w)

MediaNext ==
  \/ Create \/ WorkerDies
  \/ CheckTweetMedia \/ PostTweet \/ CheckAvatar \/ UpdateProfile
  \/ \E u \in Uploads : Upload(u)
  \/ \E r \in Requests : Complete(r)
  \/ \E w \in Workers : Handle(w) \/ HandlerFails(w) \/ PartitionMoves(w)

MediaSpec == MediaInit /\ [][MediaNext]_mediaVars

\* Workers keep polling and finish what they began.
FairMediaSpec == MediaSpec /\ \A w \in Workers : WF_mediaVars(Handle(w))

-----------------------------------------------------------------------------
(* Variants in the store, and the links the API renders.  The upload itself *)
(* lies at orig without .webp.                                              *)

variantKey(n) == [variant |-> n, webp |-> TRUE]
StoredVariants == { variantKey(n) : n \in { m \in Names : variants[m] # NoImage } }

TweetLinks == { [variant |-> n, webp |-> FALSE] : n \in {"thumb", "feed", "orig"} }
BylineAvatar == [variant |-> "orig", webp |-> FALSE]
ProfileAvatar == variantKey("feed")
MediaLinks == { variantKey(n) : n \in {"thumb", "feed", "orig"} }

Shown(u) == use[u] = "shown"
Rendered ==
  (IF status = "ready" THEN MediaLinks ELSE {})
  \cup (IF Shown("tweet") THEN TweetLinks ELSE {})
  \cup (IF Shown("avatar") THEN {BylineAvatar, ProfileAvatar} ELSE {})

-----------------------------------------------------------------------------
\* ready and failed are final (the state machine of migrations/000009) through
\* re-completing, redelivery, crashes and storage errors, unless two Completes both
\* saw a pending row or two handlers both an uploaded one: the UPDATEs are unguarded.
FinalStatus ==
  [][(status \in {"ready", "failed"} /\ status' # status) => raced]_mediaVars

\* What a tweet or a profile shows is there: every variant, although the status was
\* read before the write that uses it and may have gone back since.
ShownHaveVariants ==
  status = "ready" \/ (\E u \in Uses : Shown(u)) => \A n \in Names : variants[n] # NoImage

\* The variants of a ready row were made from one upload, even if the client replaced
\* the object and an attempt died between two variants.
VariantsMatch ==
  status = "ready" /\ ~raced => \A m, n \in Names : variants[m] = variants[n]

\* An uploaded row ends ready or failed, unless a handler failed: its record is
\* skipped, Complete emits no second event, and the row stays uploaded.
UploadedSettles == <>[](status = "uploaded" => skipped > 0)

\* Every link the API renders names a stored variant: "https://media.{domain}/{variant}/
\* {media_id}.webp" is "a permanent contract" (internal/media/url.go:7-8).
LinksNameVariants == Rendered \subseteq StoredVariants

=============================================================================
