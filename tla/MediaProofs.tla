---------------------------- MODULE MediaProofs -----------------------------
(***************************************************************************)
(* What is shown has its variants, for any number of requests, workers,    *)
(* moves and failures.  The row's status says too little for an induction, as    *)
(* any Complete or handler may overwrite it; that a variant, once put,     *)
(* stays is what carries the argument.                                     *)
(***************************************************************************)
EXTENDS Media, TLAPS

AllPut == \A n \in Names : variants[n] # NoImage

\* What a handler has ticked off is in the store.
PutByHandlers ==
  \A w \in Workers :
    /\ work[w] = "put" => \A n \in Names \ left[w] : variants[n] # NoImage
    /\ work[w] = "mark" => AllPut

Claimed == status = "ready" \/ \E u \in Uses : use[u] # "no"
ReadyMeansPut == Claimed => AllPut

IInv == MediaTypeOK /\ PutByHandlers /\ ReadyMeansPut

-----------------------------------------------------------------------------
LEMMA TypeInit == MediaInit => MediaTypeOK
<1> SUFFICES ASSUME MediaInit PROVE MediaTypeOK
  OBVIOUS
<1>1. taken \in 0..uploadEvents /\ moves \in 0..MaxMoves /\ skipped \in 0..MaxSkips
  BY MediaBounds DEF MediaInit
<1>2. raced \in BOOLEAN
  BY DEF MediaInit
<1> QED BY <1>1, <1>2 DEF MediaInit, MediaTypeOK

LEMMA TypeStep == MediaTypeOK /\ [MediaNext]_mediaVars => MediaTypeOK'
<1> SUFFICES ASSUME MediaTypeOK, [MediaNext]_mediaVars PROVE MediaTypeOK'
  OBVIOUS
<1> USE UploadAssumption, MediaBounds
    DEF MediaTypeOK, row, delivery, handlers, GoesTo, Step
<1>1. CASE Create BY <1>1 DEF Create
<1>2. ASSUME NEW u \in Uses, CheckReady(u) PROVE MediaTypeOK'
  BY <1>2 DEF CheckReady
<1>3. ASSUME NEW u \in Uses, Show(u) PROVE MediaTypeOK'
  BY <1>3 DEF Show
<1>4. ASSUME NEW u \in Uploads, Upload(u) PROVE MediaTypeOK'
  BY <1>4 DEF Upload
<1>5. ASSUME NEW r \in Requests, Complete(r) PROVE MediaTypeOK'
  <2>1. CASE ReadRow(r) BY <2>1 DEF ReadRow, Completable, UnderWay
  <2>2. CASE HeadObject(r) BY <2>2 DEF HeadObject
  <2>3. CASE WriteUploaded(r) BY <2>3 DEF WriteUploaded
  <2> QED BY <1>5, <2>1, <2>2, <2>3 DEF Complete
<1>6. ASSUME NEW w \in Workers, Handle(w) PROVE MediaTypeOK'
  <2>1. CASE Deliver(w) BY <2>1 DEF Deliver
  <2>2. CASE ReadStatus(w) BY <2>2 DEF ReadStatus, Processable, Unfinished
  <2>3. CASE Download(w) BY <2>3 DEF Download
  <2>4. CASE Decode(w) BY <2>4 DEF Decode, Decodes, NamesToPut, AfterDecode
  <2>5. CASE Park(w) BY <2>5 DEF Park
  <2>6. ASSUME NEW n \in Names, PutVariant(w, n) PROVE MediaTypeOK'
    BY <2>6 DEF PutVariant
  <2>7. CASE LastPut(w) BY <2>7 DEF LastPut
  <2>8. CASE MarkReady(w) BY <2>8 DEF MarkReady
  <2> QED BY <1>6, <2>1, <2>2, <2>3, <2>4, <2>5, <2>6, <2>7, <2>8 DEF Handle
<1>7. ASSUME NEW w \in Workers, HandlerFails(w) PROVE MediaTypeOK'
  BY <1>7 DEF HandlerFails
<1>8. Move => taken' \in 0..uploadEvents /\ moves' \in 0..MaxMoves
  BY DEF Move, Committed
<1>9. ASSUME NEW w \in Workers, PartitionMoves(w) PROVE MediaTypeOK'
  BY <1>8, <1>9 DEF PartitionMoves
<1>10. CASE WorkerDies
  BY <1>8, <1>10 DEF WorkerDies
<1>11. CASE UNCHANGED mediaVars
  BY <1>11 DEF mediaVars
<1> QED BY <1>1, <1>2, <1>3, <1>4, <1>5, <1>6, <1>7, <1>9, <1>10, <1>11
  DEF MediaNext, Uses, CheckTweetMedia, PostTweet, CheckAvatar, UpdateProfile

\* The media row, requests and handlers are well typed; who has decoded holds an image.
THEOREM Typing == MediaSpec => []MediaTypeOK
BY TypeInit, TypeStep, PTL DEF MediaSpec

-----------------------------------------------------------------------------
\* Most steps put nothing and bring no handler closer to the end.
LEMMA PutFrame ==
  ASSUME IInv, UNCHANGED <<variants, left>>,
         Claimed' => Claimed,
         \A w \in Workers : work'[w] \in {"put", "mark"} => work'[w] = work[w]
  PROVE  PutByHandlers' /\ ReadyMeansPut'
BY DEF IInv, PutByHandlers, ReadyMeansPut, AllPut

\* Putting one more variant takes none away.
LEMMA PutOne ==
  ASSUME IInv, NEW w \in Workers, NEW n \in Names, PutVariant(w, n)
  PROVE  PutByHandlers' /\ ReadyMeansPut'
<1>1. /\ variants' = [variants EXCEPT ![n] = image[w]]
      /\ left' = [left EXCEPT ![w] = @ \ {n}]
      /\ work[w] = "put" /\ UNCHANGED <<status, use, work>>
  BY DEF PutVariant
<1>2. image[w] # NoImage
  BY <1>1, UploadAssumption DEF IInv, MediaTypeOK
<1>3. variants'[n] # NoImage /\ \A m \in Names : variants[m] # NoImage => variants'[m] # NoImage
  BY <1>1, <1>2 DEF IInv, MediaTypeOK
<1>4. \A v \in Workers : left'[v] = IF v = w THEN left[v] \ {n} ELSE left[v]
  BY <1>1 DEF IInv, MediaTypeOK
<1>5. PutByHandlers'
  BY <1>1, <1>3, <1>4 DEF IInv, PutByHandlers, AllPut
<1> QED BY <1>1, <1>3, <1>5 DEF IInv, ReadyMeansPut, Claimed, AllPut

LEMMA PutStep == IInv /\ [MediaNext]_mediaVars => PutByHandlers' /\ ReadyMeansPut'
<1> SUFFICES ASSUME IInv, [MediaNext]_mediaVars PROVE PutByHandlers' /\ ReadyMeansPut'
  OBVIOUS
<1> USE DEF row, delivery, handlers, Step, Claimed
<1>t. MediaTypeOK
  BY DEF IInv
<1>1. CASE Create BY <1>1, PutFrame DEF Create
<1>2. ASSUME NEW u \in Uses, CheckReady(u) PROVE PutByHandlers' /\ ReadyMeansPut'
  BY <1>2, PutFrame DEF CheckReady, Claimed
<1>3. ASSUME NEW u \in Uses, Show(u) PROVE PutByHandlers' /\ ReadyMeansPut'
  <2>1. Claimed
    BY <1>3 DEF Show, Claimed
  <2> QED BY <1>3, <2>1, PutFrame DEF Show
<1>4. ASSUME NEW u \in Uploads, Upload(u) PROVE PutByHandlers' /\ ReadyMeansPut'
  BY <1>4, PutFrame DEF Upload
<1>5. ASSUME NEW r \in Requests, Complete(r) PROVE PutByHandlers' /\ ReadyMeansPut'
  BY <1>5, PutFrame DEF Complete, ReadRow, HeadObject, WriteUploaded
<1>6. ASSUME NEW w \in Workers, Handle(w) PROVE PutByHandlers' /\ ReadyMeansPut'
  <2>1. CASE Deliver(w) BY <1>t, <2>1, PutFrame DEF Deliver, MediaTypeOK
  <2>2. CASE ReadStatus(w) BY <1>t, <2>2, PutFrame DEF ReadStatus, MediaTypeOK
  <2>3. CASE Download(w) BY <1>t, <2>3, PutFrame DEF Download, MediaTypeOK
  <2>4. CASE Decode(w)
    <3>1. /\ left'[w] = Names /\ work'[w] = "put" /\ UNCHANGED <<variants, status, use>>
          /\ \A v \in Workers \ {w} : left'[v] = left[v] /\ work'[v] = work[v]
      BY <1>t, <2>4 DEF Decode, NamesToPut, AfterDecode, MediaTypeOK
    <3> QED BY <3>1 DEF IInv, PutByHandlers, ReadyMeansPut, AllPut
  <2>5. CASE Park(w) BY <1>t, <2>5, PutFrame DEF Park, MediaTypeOK
  <2>6. ASSUME NEW n \in Names, PutVariant(w, n) PROVE PutByHandlers' /\ ReadyMeansPut'
    BY <2>6, PutOne
  <2>7. CASE LastPut(w)
    <3>1. /\ work[w] = "put" /\ left[w] = {} /\ UNCHANGED <<variants, status, use, left>>
          /\ \A v \in Workers \ {w} : work'[v] = work[v]
          /\ work'[w] = "mark"
      BY <1>t, <2>7 DEF LastPut, MediaTypeOK
    <3> QED BY <3>1 DEF IInv, PutByHandlers, ReadyMeansPut, AllPut
  <2>8. CASE MarkReady(w)
    <3>1. /\ work[w] = "mark" /\ UNCHANGED <<variants, left>>
          /\ \A v \in Workers \ {w} : work'[v] = work[v]
          /\ work'[w] = "poll"
      BY <1>t, <2>8 DEF MarkReady, MediaTypeOK
    <3> QED BY <3>1 DEF IInv, PutByHandlers, ReadyMeansPut, AllPut
  <2> QED BY <1>6, <2>1, <2>2, <2>3, <2>4, <2>5, <2>6, <2>7, <2>8 DEF Handle
<1>7. ASSUME NEW w \in Workers, HandlerFails(w) PROVE PutByHandlers' /\ ReadyMeansPut'
  BY <1>t, <1>7, PutFrame DEF HandlerFails, MediaTypeOK
<1>8. ASSUME NEW w \in Workers, PartitionMoves(w) PROVE PutByHandlers' /\ ReadyMeansPut'
  BY <1>8, PutFrame DEF PartitionMoves
<1>9. CASE WorkerDies
  BY <1>t, <1>9, PutFrame DEF WorkerDies, MediaTypeOK
<1>10. CASE UNCHANGED mediaVars
  BY <1>10, PutFrame DEF mediaVars
<1> QED BY <1>1, <1>2, <1>3, <1>4, <1>5, <1>6, <1>7, <1>8, <1>9, <1>10
  DEF MediaNext, Uses, CheckTweetMedia, PostTweet, CheckAvatar, UpdateProfile

\* The variants of what a tweet, an avatar or a ready row shows are all in the store:
\* ready was set after the last of them was put, and neither a second Complete nor a
\* second handler removes one.
THEOREM VariantsThere == MediaSpec => []ShownHaveVariants
<1>1. MediaInit => IInv
  BY TypeInit DEF MediaInit, IInv, PutByHandlers, ReadyMeansPut, Claimed
<1>2. IInv /\ [MediaNext]_mediaVars => IInv'
  BY TypeStep, PutStep DEF IInv
<1>3. IInv => ShownHaveVariants
  BY DEF IInv, ReadyMeansPut, Claimed, Shown, AllPut, ShownHaveVariants
<1> QED BY <1>1, <1>2, <1>3, PTL DEF MediaSpec

-----------------------------------------------------------------------------
(***************************************************************************)
(* FinalStatus and VariantsMatch.  Until two Completes or two handlers     *)
(* overlap, the status tells who is at work: a Complete only while the row *)
(* is pending, a handler only while it is uploaded, and one of them at a   *)
(* time.  So nobody is left to overwrite a status that is ready or failed. *)
(***************************************************************************)
Alone ==
  /\ \A q, r \in Requests : UnderWay(q) /\ UnderWay(r) => q = r
  /\ \A r \in Requests : UnderWay(r) => status = "pending"
  /\ \A v, w \in Workers : work[v] \in Unfinished /\ work[w] \in Unfinished => v = w
  /\ \A w \in Workers : work[w] \in Unfinished => status = "uploaded"

SameUpload == \A m, n \in Names : variants[m] = variants[n]
OneUpload ==
  /\ \A w \in Workers :
       /\ work[w] = "put" => \A n \in Names \ left[w] : variants[n] = image[w]
       /\ work[w] = "mark" => \A n \in Names : variants[n] = image[w]
  /\ status = "ready" => SameUpload

Calm == ~raced => Alone /\ OneUpload

LEMMA CalmInit == MediaInit => Calm
BY DEF MediaInit, Calm, Alone, OneUpload, UnderWay, Unfinished

\* Steps that neither begin nor end anything but by giving up.
LEMMA CalmFrame ==
  ASSUME MediaTypeOK, Calm, UNCHANGED <<status, variants, left, image, raced>>,
         \A r \in Requests : UnderWay(r)' => UnderWay(r),
         \A w \in Workers : work'[w] = work[w] \/ work'[w] \notin Unfinished
  PROVE  Calm'
<1> SUFFICES ASSUME ~raced, Alone, OneUpload PROVE Alone' /\ OneUpload'
  BY DEF Calm
<1>1. Alone'
  BY DEF Alone, Unfinished
<1>2. OneUpload'
  BY DEF OneUpload, SameUpload, Unfinished
<1> QED BY <1>1, <1>2

LEMMA CalmComplete ==
  ASSUME MediaTypeOK, Calm, NEW r \in Requests, Complete(r)
  PROVE  Calm'
<1> USE DEF row, delivery, handlers, GoesTo, MediaTypeOK
<1> SUFFICES ASSUME ~raced' PROVE Alone' /\ OneUpload'
  BY DEF Calm
<1>1. ~raced /\ Alone /\ OneUpload
  BY DEF Complete, ReadRow, HeadObject, WriteUploaded, Calm
<1>2. \A q \in Requests : q # r => (UnderWay(q)' <=> UnderWay(q))
  BY DEF Complete, ReadRow, HeadObject, WriteUploaded, UnderWay
<1>3. CASE ReadRow(r)
  <2>1. CASE Completable
    <3>1. \A q \in Requests : q # r => ~UnderWay(q)
      BY <1>3, <2>1 DEF ReadRow
    <3>2. status = "pending" /\ UNCHANGED <<status, variants, left, image, work>>
      BY <1>3, <2>1 DEF ReadRow, Completable
    <3>3. Alone'
      BY <1>1, <1>2, <3>1, <3>2 DEF Alone, Unfinished
    <3>4. OneUpload'
      BY <1>1, <3>2 DEF OneUpload, SameUpload
    <3> QED BY <3>3, <3>4
  <2>2. CASE ~Completable
    <3>1. \A q \in Requests : UnderWay(q)' => UnderWay(q)
      BY <1>3, <2>2 DEF ReadRow, UnderWay
    <3>2. UNCHANGED <<status, variants, left, image, work, raced>>
      BY <1>3, <2>2, <1>1 DEF ReadRow
    <3>3. Calm'
      BY <3>1, <3>2, CalmFrame
    <3> QED BY <3>3 DEF Calm
  <2> QED BY <2>1, <2>2
<1>4. CASE HeadObject(r)
  <2>1. \A q \in Requests : UnderWay(q)' => UnderWay(q)
    BY <1>4 DEF HeadObject, UnderWay
  <2>2. Calm'
    BY <1>4, <2>1, CalmFrame DEF HeadObject
  <2> QED BY <2>2 DEF Calm
<1>5. CASE WriteUploaded(r)
  <2>1. UnderWay(r) /\ ~UnderWay(r)' /\ status' = "uploaded"
        /\ UNCHANGED <<variants, left, image, work>>
    BY <1>5 DEF WriteUploaded, UnderWay
  <2>2. \A q \in Requests : ~UnderWay(q)'
    BY <1>1, <1>2, <2>1 DEF Alone
  <2>3. \A w \in Workers : work[w] \notin Unfinished
    BY <1>1, <2>1 DEF Alone
  <2>4. Alone'
    BY <2>1, <2>2, <2>3 DEF Alone, Unfinished
  <2>5. OneUpload'
    BY <2>1, <2>3 DEF OneUpload, Unfinished
  <2> QED BY <2>4, <2>5
<1> QED BY <1>3, <1>4, <1>5 DEF Complete

LEMMA CalmHandle ==
  ASSUME MediaTypeOK, Calm, NEW w \in Workers, Handle(w)
  PROVE  Calm'
<1> USE DEF row, delivery, handlers, Step, MediaTypeOK
<1> SUFFICES ASSUME ~raced' PROVE Alone' /\ OneUpload'
  BY DEF Calm
<1>1. ~raced /\ Alone /\ OneUpload /\ UNCHANGED request
  BY DEF Handle, Deliver, ReadStatus, Download, Decode, Park, PutVariant, LastPut, MarkReady, Calm
<1>2. \A r \in Requests : UnderWay(r)' <=> UnderWay(r)
  BY <1>1 DEF UnderWay
<1>3. CASE Deliver(w)
  <2>1. Calm'
    BY <1>2, <1>3, CalmFrame DEF Deliver, Unfinished
  <2> QED BY <2>1 DEF Calm
<1>4. CASE ReadStatus(w)
  <2>1. CASE Processable
    <3>1. \A v \in Workers : v # w => work[v] \notin Unfinished /\ work'[v] = work[v]
      BY <1>4, <2>1 DEF ReadStatus
    <3>2. status = "uploaded" /\ UNCHANGED <<status, variants, left, image>> /\ work'[w] = "get"
      BY <1>4, <2>1 DEF ReadStatus, Processable
    <3>3. Alone'
      BY <1>1, <1>2, <3>1, <3>2 DEF Alone, Unfinished
    <3>4. OneUpload'
      BY <1>1, <3>1, <3>2 DEF OneUpload, SameUpload
    <3> QED BY <3>3, <3>4
  <2>2. CASE ~Processable
    <3>1. Calm'
      BY <1>1, <1>2, <1>4, <2>2, CalmFrame DEF ReadStatus, Unfinished
    <3> QED BY <3>1 DEF Calm
  <2> QED BY <2>1, <2>2
<1>5. ASSUME work[w] \in Unfinished
      PROVE  /\ status = "uploaded" /\ \A r \in Requests : ~UnderWay(r)
             /\ \A v \in Workers : v # w => work[v] \notin Unfinished
  BY <1>1, <1>5 DEF Alone
<1>6. ASSUME work[w] \in Unfinished, work'[w] \in Unfinished, status' = status,
             \A v \in Workers : v # w => work'[v] = work[v]
      PROVE  Alone'
  BY <1>2, <1>5, <1>6 DEF Alone, Unfinished
<1>7. CASE Download(w)
  <2>1. /\ work[w] = "get" /\ work'[w] = "decode" /\ UNCHANGED <<status, variants, left>>
        /\ \A v \in Workers : v # w => work'[v] = work[v] /\ image'[v] = image[v]
    BY <1>7 DEF Download
  <2>2. Alone'
    BY <1>6, <2>1 DEF Unfinished
  <2>3. OneUpload'
    BY <1>1, <2>1 DEF OneUpload, SameUpload
  <2> QED BY <2>2, <2>3
<1>8. CASE Decode(w)
  <2>1. /\ work[w] = "decode" /\ work'[w] = "put" /\ left'[w] = Names
        /\ UNCHANGED <<status, variants, image>>
        /\ \A v \in Workers : v # w => work'[v] = work[v] /\ left'[v] = left[v]
    BY <1>8 DEF Decode, NamesToPut, AfterDecode
  <2>2. Alone'
    BY <1>6, <2>1 DEF Unfinished
  <2>3. OneUpload'
    BY <1>1, <2>1 DEF OneUpload, SameUpload
  <2> QED BY <2>2, <2>3
<1>9. ASSUME NEW n \in Names, PutVariant(w, n) PROVE Alone' /\ OneUpload'
  <2>1. /\ work[w] = "put" /\ UNCHANGED <<status, work, image>>
        /\ variants' = [variants EXCEPT ![n] = image[w]]
        /\ left' = [left EXCEPT ![w] = @ \ {n}]
    BY <1>9 DEF PutVariant
  <2>2. Alone'
    BY <1>6, <2>1 DEF Unfinished
  <2>3. \A v \in Workers : v # w => work'[v] \notin {"put", "mark"}
    BY <1>5, <2>1 DEF Unfinished
  <2>4. \A m \in Names \ left'[w] : variants'[m] = image[w]
    BY <1>1, <2>1 DEF OneUpload
  <2>5. OneUpload'
    BY <1>5, <2>1, <2>3, <2>4 DEF OneUpload, Unfinished
  <2> QED BY <2>2, <2>5
<1>10. CASE LastPut(w)
  <2>1. /\ work[w] = "put" /\ work'[w] = "mark" /\ left[w] = {}
        /\ UNCHANGED <<status, variants, image, left>>
        /\ \A v \in Workers : v # w => work'[v] = work[v]
    BY <1>10 DEF LastPut
  <2>2. Alone'
    BY <1>6, <2>1 DEF Unfinished
  <2>3. OneUpload'
    BY <1>1, <2>1 DEF OneUpload, SameUpload
  <2> QED BY <2>2, <2>3
<1>11. CASE Park(w) \/ MarkReady(w)
  <2>1. /\ work[w] \in {"decode", "mark"} /\ work'[w] = "poll"
        /\ UNCHANGED <<variants, image, left>>
        /\ status' \in {"failed", "ready"} /\ (status' = "ready" => work[w] = "mark")
        /\ \A v \in Workers : v # w => work'[v] = work[v]
    BY <1>11 DEF Park, MarkReady
  <2>2. \A v \in Workers : work'[v] \notin Unfinished
    BY <1>5, <2>1 DEF Unfinished
  <2>3. \A r \in Requests : ~UnderWay(r)'
    BY <1>2, <1>5, <2>1 DEF Unfinished
  <2>4. Alone'
    BY <2>2, <2>3 DEF Alone, Unfinished
  <2>5. OneUpload'
    BY <1>1, <2>1, <2>2 DEF OneUpload, SameUpload, Unfinished
  <2> QED BY <2>4, <2>5
<1> QED BY <1>3, <1>4, <1>7, <1>8, <1>9, <1>10, <1>11 DEF Handle

LEMMA CalmStep == MediaTypeOK /\ Calm /\ [MediaNext]_mediaVars => Calm'
<1> SUFFICES ASSUME MediaTypeOK, Calm, [MediaNext]_mediaVars PROVE Calm'
  OBVIOUS
<1> USE DEF row, delivery, handlers, Step, UnderWay
<1>1. CASE Create
  <2>1. status = "none" /\ status' = "pending"
        /\ UNCHANGED <<variants, left, image, raced, work, request>>
    BY <1>1 DEF Create
  <2>2. ~raced => Alone' /\ OneUpload'
    BY <2>1 DEF Calm, Alone, OneUpload, Unfinished
  <2> QED BY <2>1, <2>2 DEF Calm
<1>2. ASSUME NEW u \in Uses, CheckReady(u) \/ Show(u) PROVE Calm'
  BY <1>2, CalmFrame DEF CheckReady, Show
<1>3. ASSUME NEW u \in Uploads, Upload(u) PROVE Calm'
  BY <1>3, CalmFrame DEF Upload
<1>4. ASSUME NEW w \in Workers, HandlerFails(w) PROVE Calm'
  BY <1>4, CalmFrame DEF HandlerFails, MediaTypeOK, Unfinished
<1>5. ASSUME NEW w \in Workers, PartitionMoves(w) PROVE Calm'
  BY <1>5, CalmFrame DEF PartitionMoves
<1>6. CASE WorkerDies
  BY <1>6, CalmFrame DEF WorkerDies, MediaTypeOK, Unfinished
<1>7. CASE UNCHANGED mediaVars
  BY <1>7, CalmFrame DEF mediaVars
<1> QED BY <1>1, <1>2, <1>3, <1>4, <1>5, <1>6, <1>7, CalmComplete, CalmHandle
  DEF MediaNext, Uses, CheckTweetMedia, PostTweet, CheckAvatar, UpdateProfile

LEMMA CalmInv == MediaSpec => []Calm
BY CalmInit, CalmStep, Typing, PTL DEF MediaSpec

\* As long as no two handlers overlapped, the variants of a ready row are of one upload,
\* whatever the client put at the link in between and however often a worker died.
THEOREM VariantsOfOneUpload == MediaSpec => []VariantsMatch
<1>1. Calm => VariantsMatch
  BY DEF Calm, OneUpload, SameUpload, VariantsMatch
<1> QED BY <1>1, CalmInv, PTL

\* ready and failed are final unless two Completes or two handlers overlapped: redelivery,
\* crashes and a second Complete one after the other change neither.
THEOREM StatusFinal == MediaSpec => FinalStatus
<1>1. MediaTypeOK /\ Calm /\ [MediaNext]_mediaVars
        => [(status \in {"ready", "failed"} /\ status' # status) => raced]_mediaVars
  <2> SUFFICES ASSUME MediaTypeOK, Calm, MediaNext, status \in {"ready", "failed"}, ~raced
               PROVE  status' = status
    BY DEF mediaVars, row
  <2> USE DEF row, delivery, handlers
  <2>1. \A r \in Requests : ~UnderWay(r)
    BY DEF Calm, Alone
  <2>2. \A w \in Workers : work[w] \notin Unfinished
    BY DEF Calm, Alone
  <2>3. ASSUME NEW r \in Requests, Complete(r) PROVE status' = status
    BY <2>1, <2>3 DEF Complete, ReadRow, HeadObject, WriteUploaded, UnderWay
  <2>4. ASSUME NEW w \in Workers, Handle(w) PROVE status' = status
    BY <2>2, <2>4 DEF Handle, Deliver, ReadStatus, Download, Decode, Park, PutVariant, LastPut,
                      MarkReady, Unfinished
  <2>5. ~Create
    BY DEF Create
  <2> QED BY <2>3, <2>4, <2>5
    DEF MediaNext, CheckTweetMedia, PostTweet, CheckAvatar, UpdateProfile, CheckReady, Show,
        Upload, WorkerDies, HandlerFails, PartitionMoves
<1> QED BY <1>1, CalmInv, Typing, PTL DEF MediaSpec, FinalStatus
=============================================================================
