-------------------------------- MODULE Api --------------------------------
(***************************************************************************)
(* One call of the HTTP API from the generated Go client (pkg/apiclient)   *)
(* through the middleware stack NewHandler assembles (internal/httpapi),   *)
(* the generated wrapper and the handler, back to the client's decoder.    *)
(* The client tries the request again at any time, after an answer, after  *)
(* a timeout or while the first try runs: the tries have one               *)
(* Idempotency-Key, and each the token it found when it was sent.          *)
(*                                                                         *)
(* Both generated sides come from api/openapi.yaml, so the statuses the    *)
(* client decodes are those the contract lists.  What overlapping tries do *)
(* to the database is in Idempotency; here it is what they are answered.   *)
(***************************************************************************)
EXTENDS Naturals, FiniteSets

CONSTANT Tries   \* of the one request

Key == "Idempotency-Key"

\* The tables below come in parts, an operation is in one of them.
Merge(parts) ==
  [o \in UNION { DOMAIN t : t \in parts } |-> (CHOOSE t \in parts : o \in DOMAIN t)[o]]

-----------------------------------------------------------------------------
(* The routes, and what each wrapper requires of a request.                *)

Method == [
  Login |-> "POST", Logout |-> "POST", OauthCallback |-> "GET", OauthUnlink |-> "DELETE",
  OauthLink |-> "POST", OauthStart |-> "GET", ListAuthProviders |-> "GET",
  RefreshToken |-> "POST", Register |-> "POST",
  CreateMedia |-> "POST", GetMedia |-> "GET", CompleteMedia |-> "POST",
  ListNotifications |-> "GET", MarkNotificationsRead |-> "POST", GetUnreadCount |-> "GET",
  GetHomeTimeline |-> "GET",
  CreateTweet |-> "POST", DeleteTweet |-> "DELETE", GetTweet |-> "GET",
  UnlikeTweet |-> "DELETE", LikeTweet |-> "POST",
  GetMe |-> "GET", UpdateMe |-> "PATCH", GetUser |-> "GET", UnfollowUser |-> "DELETE",
  FollowUser |-> "POST", ListFollowers |-> "GET", ListFollowing |-> "GET",
  GetUserTweets |-> "GET"]

Operations == DOMAIN Method

Open(required) == [secured |-> FALSE, required |-> required]
Secured(required) == [secured |-> TRUE, required |-> required]

SessionWrappers == [
  Login |-> Open({}), Logout |-> Secured({}),
  OauthCallback |-> Open({"provider", "code", "state"}), OauthUnlink |-> Secured({"provider"})]
SignInWrappers == [
  OauthLink |-> Secured({"provider"}), OauthStart |-> Open({"provider"}),
  ListAuthProviders |-> Open({}), RefreshToken |-> Open({}), Register |-> Open({Key})]
MediaWrappers == [
  CreateMedia |-> Secured({Key}), GetMedia |-> Secured({"id"}), CompleteMedia |-> Secured({"id"})]
NotificationWrappers == [
  ListNotifications |-> Secured({}), MarkNotificationsRead |-> Secured({Key}),
  GetUnreadCount |-> Secured({})]
TweetWrappers == [
  GetHomeTimeline |-> Secured({}), CreateTweet |-> Secured({Key}), DeleteTweet |-> Secured({"id"})]
LikeWrappers == [
  GetTweet |-> Open({"id"}), UnlikeTweet |-> Secured({"id", Key}), LikeTweet |-> Secured({"id", Key})]
UserWrappers == [
  GetMe |-> Secured({}), UpdateMe |-> Secured({Key}), GetUser |-> Open({"username"}),
  UnfollowUser |-> Secured({"username", Key})]
FollowWrappers == [
  FollowUser |-> Secured({"username", Key}), ListFollowers |-> Open({"username"}),
  ListFollowing |-> Open({"username"}), GetUserTweets |-> Open({"username"})]

Wrapper ==
  Merge({SessionWrappers, SignInWrappers, MediaWrappers, NotificationWrappers,
         TweetWrappers, LikeWrappers, UserWrappers, FollowWrappers})

-----------------------------------------------------------------------------
(* What the client puts into each request (optional parameters left out).  *)

SessionRequests == [Login |-> {"body"}, Logout |-> {}, OauthCallback |-> {"provider", "code", "state"}]
OauthRequests == [OauthUnlink |-> {"provider"}, OauthLink |-> {"provider"}, OauthStart |-> {"provider"},
                  ListAuthProviders |-> {}]
RegisterRequests == [RefreshToken |-> {"body"}, Register |-> {Key, "body"}, CreateMedia |-> {Key, "body"}]
MediaRequests == [GetMedia |-> {"id"}, CompleteMedia |-> {"id"}, ListNotifications |-> {}]
ReaderRequests == [MarkNotificationsRead |-> {Key, "body"}, GetUnreadCount |-> {},
                   GetHomeTimeline |-> {}]
TweetRequests == [CreateTweet |-> {Key, "body"}, DeleteTweet |-> {"id"}, GetTweet |-> {"id"}]
LikeRequests == [UnlikeTweet |-> {"id", Key}, LikeTweet |-> {"id", Key}, GetMe |-> {}]
UserRequests == [UpdateMe |-> {Key, "body"}, GetUser |-> {"username"},
                 UnfollowUser |-> {"username", Key}]
FollowRequests == [FollowUser |-> {"username", Key}, ListFollowers |-> {"username"}]
ListRequests == [ListFollowing |-> {"username"}, GetUserTweets |-> {"username"}]

Sent ==
  Merge({SessionRequests, OauthRequests, RegisterRequests, MediaRequests, ReaderRequests,
         TweetRequests, LikeRequests, UserRequests, FollowRequests, ListRequests})

-----------------------------------------------------------------------------
(* The JSON statuses the client decodes: those the contract lists.         *)

SessionAnswers == [Login |-> {200, 401, 429}, Logout |-> {401}, OauthCallback |-> {200, 400, 404, 429}]
OauthAnswers == [OauthUnlink |-> {401, 404, 409}, OauthLink |-> {200, 401, 404, 409},
                 OauthStart |-> {404, 429}, ListAuthProviders |-> {200}]
RegisterAnswers == [RefreshToken |-> {200, 401}, Register |-> {201, 400, 409, 429},
                    CreateMedia |-> {201, 400, 401, 429}]
MediaAnswers == [GetMedia |-> {200, 401, 404}, CompleteMedia |-> {200, 401, 404, 409},
                 ListNotifications |-> {200, 401}]
ReaderAnswers == [MarkNotificationsRead |-> {401}, GetUnreadCount |-> {200, 401},
                  GetHomeTimeline |-> {200, 401}]
TweetAnswers == [CreateTweet |-> {201, 400, 401, 404, 429}, DeleteTweet |-> {401, 403, 404},
                 GetTweet |-> {200, 404}]
LikeAnswers == [UnlikeTweet |-> {401, 404}, LikeTweet |-> {401, 404, 429}, GetMe |-> {200, 401}]
UserAnswers == [UpdateMe |-> {200, 400, 401}, GetUser |-> {200, 404}, UnfollowUser |-> {401, 404}]
FollowAnswers == [FollowUser |-> {400, 401, 404, 429}, ListFollowers |-> {200, 404}]
ListAnswers == [ListFollowing |-> {200, 404}, GetUserTweets |-> {200, 404}]

Decoded ==
  Merge({SessionAnswers, OauthAnswers, RegisterAnswers, MediaAnswers, ReaderAnswers,
         TweetAnswers, LikeAnswers, UserAnswers, FollowAnswers, ListAnswers})

-----------------------------------------------------------------------------
(* The handlers: whether they want a user, and what they may answer then.  *)

Anyone(statuses) == [user |-> FALSE, says |-> statuses]
User(statuses) == [user |-> TRUE, says |-> statuses]

AuthHandlers == [
  Register |-> Anyone({400, 409, 500, 201}), Login |-> Anyone({400, 401, 200}),
  RefreshToken |-> Anyone({401, 200}), Logout |-> Anyone({204})]
OAuthHandlers == [
  ListAuthProviders |-> Anyone({200}), OauthStart |-> Anyone({404, 500, 302}),
  OauthCallback |-> Anyone({404, 400, 500, 200}),
  OauthLink |-> User({404, 500, 200}), OauthUnlink |-> User({409, 404, 204})]
UsersHandlers == [
  GetMe |-> User({404, 500, 200}), UpdateMe |-> User({400, 422, 500, 200}),
  GetUser |-> Anyone({404, 500, 200}), FollowUser |-> User({422, 404, 500, 204}),
  UnfollowUser |-> User({404, 500, 204})]
EdgeHandlers == [
  ListFollowers |-> Anyone({400, 404, 500, 200}), ListFollowing |-> Anyone({400, 404, 500, 200})]
TweetsHandlers == [
  CreateTweet |-> User({400, 404, 422, 500, 201}), GetTweet |-> Anyone({400, 404, 500, 200}),
  DeleteTweet |-> User({400, 404, 403, 500, 204})]
LikesAsTweets == [   \* mutant: the id is refused as GetTweet and DeleteTweet do
  UnlikeTweet |-> User({400, 404, 500, 204}), LikeTweet |-> User({400, 404, 500, 204})]
LikesHandlers == [
  UnlikeTweet |-> User({404, 500, 204}), LikeTweet |-> User({404, 500, 204})]
MediaHandlers == [
  CreateMedia |-> User({400, 500, 201}), GetMedia |-> User({404, 500, 200}),
  CompleteMedia |-> User({404, 409, 500, 200})]
NotificationsHandlers == [
  ListNotifications |-> User({500, 200}), GetUnreadCount |-> User({500, 200}),
  MarkNotificationsRead |-> User({400, 500, 204})]
TimelineHandlers == [
  GetHomeTimeline |-> User({500, 200}), GetUserTweets |-> Anyone({404, 500, 200})]

Handler ==
  Merge({AuthHandlers, OAuthHandlers, UsersHandlers, EdgeHandlers, TweetsHandlers,
         LikesHandlers, MediaHandlers, NotificationsHandlers, TimelineHandlers})

-----------------------------------------------------------------------------
VARIABLES
  operation,
  token,    \* of each try when BearerAuth verifies it: "none", "good" or "expired"
  where,    \* how far each try has come
  status,   \* of its answer, 0 before there is one
  kept,     \* the status idem:{key} holds, 0 for none
  locked    \* whether idem:{key}:lock exists

apiVars == <<operation, token, where, status, kept, locked>>

NoStatus == 0
Tokens == {"none", "good", "expired"}

ApiInit ==
  /\ operation \in Operations /\ token \in [Tries -> Tokens]
  /\ where = [t \in Tries |-> "limit"] /\ status = [t \in Tries |-> NoStatus]
  /\ kept = NoStatus /\ locked = FALSE

InAuth == operation \in DOMAIN AuthHandlers \cup DOMAIN OAuthHandlers   \* under /v1/auth/

idemSkip ==   \* login, refresh, logout and /v1/auth/oauth/
  {"Login", "RefreshToken", "Logout", "OauthStart", "OauthCallback", "OauthLink", "OauthUnlink"}

\* Whether idem.Wrap lets the request through untouched.
Bypasses == Method[operation] = "GET" \/ operation \in idemSkip

Onward(t, place) == where' = [where EXCEPT ![t] = place] /\ status' = status

\* A middleware outside idem.Wrap answers, or idem.Wrap itself.
Answered(t, answer) ==
  /\ where' = [where EXCEPT ![t] = "answered"]
  /\ status' = [status EXCEPT ![t] = answer]

\* A middleware inside it or the handler does; idem.Wrap records it while it goes out.
Give(t, answer) ==
  /\ where' = [where EXCEPT ![t] = IF Bypasses THEN "answered" ELSE "record"]
  /\ status' = [status EXCEPT ![t] = answer]

AuthRateLimit(t) ==
  /\ where[t] = "limit"
  /\ \/ Onward(t, "idem")
     \/ InAuth /\ Answered(t, 429)
  /\ UNCHANGED <<operation, token, kept, locked>>

\* idem.Wrap: no key, a recorded answer, or on; an error of the GET is taken for a miss.
Lookup(t) ==
  /\ where[t] = "idem"
  /\ \/ Bypasses /\ Onward(t, "bearer")
     \/ ~Bypasses /\ Key \notin Sent[operation] /\ Answered(t, 400)
     \/ /\ ~Bypasses /\ Key \in Sent[operation]
        /\ \/ kept # NoStatus /\ Answered(t, kept)
           \/ Onward(t, "lock")
  /\ UNCHANGED <<operation, token, kept, locked>>

\* SETNX idem:{key}:lock: taken, request_in_flight, or idempotency_unavailable, where the
\* lock may have been taken all the same.
TakeLock(t) ==
  /\ where[t] = "lock"
  /\ \/ ~locked /\ locked' = TRUE /\ Onward(t, "bearer")
     \/ locked /\ locked' = locked /\ Answered(t, 409)
     \/ locked' \in {locked, TRUE} /\ Answered(t, 500)
  /\ UNCHANGED <<operation, token, kept>>

\* No token passes as nobody; a bad one is a 401 on every route.
BearerAuth(t) ==
  /\ where[t] = "bearer"
  /\ IF token[t] = "expired" THEN Give(t, 401) ELSE Onward(t, "bind")
  /\ UNCHANGED <<operation, token, kept, locked>>

Bind(t) ==
  /\ where[t] = "bind"
  /\ IF Wrapper[operation].required \subseteq Sent[operation] THEN Onward(t, "serve") ELSE Give(t, 400)
  /\ UNCHANGED <<operation, token, kept, locked>>

Serve(t) ==
  /\ where[t] = "serve"
  /\ IF Handler[operation].user /\ token[t] # "good" THEN Give(t, 401)
     ELSE \E answer \in Handler[operation].says : Give(t, answer)
  /\ UNCHANGED <<operation, token, kept, locked>>

\* SET idem:{key}, then DEL of the lock; both fail, unseen, when the client has left.
Record(t) ==
  /\ where[t] = "record" /\ Onward(t, "answered")
  /\ kept' \in {kept, status[t]} /\ locked' \in {locked, FALSE}
  /\ UNCHANGED <<operation, token>>

\* lockTTL runs out.
LockRunsOut ==
  /\ locked /\ locked' = FALSE
  /\ UNCHANGED <<operation, token, where, status, kept>>

ApiNext ==
  \/ \E t \in Tries : \/ AuthRateLimit(t) \/ Lookup(t) \/ TakeLock(t) \/ BearerAuth(t)
                      \/ Bind(t) \/ Serve(t) \/ Record(t)
  \/ LockRunsOut

ApiSpec == ApiInit /\ [][ApiNext]_apiVars

-----------------------------------------------------------------------------
\* The answers of handlers, and of idem.Wrap to a try while another runs, that the
\* contract does not list.
HandlerGaps ==
  { <<"Login", 400>>, <<"MarkNotificationsRead", 400>>, <<"CreateTweet", 422>>,
    <<"GetTweet", 400>>, <<"GetMe", 404>>, <<"UpdateMe", 422>>, <<"FollowUser", 422>>,
    <<"ListFollowers", 400>>, <<"ListFollowing", 400>> }
InFlightGaps ==
  { <<o, 409>> : o \in {"CreateMedia", "MarkNotificationsRead", "CreateTweet", "UnlikeTweet",
                        "LikeTweet", "UpdateMe", "UnfollowUser", "FollowUser"} }
Gaps == HandlerGaps \cup InFlightGaps

\* What the client may be answered: what the contract lists or has no body for, a server
\* error, one of the gaps, or what a middleware says to more routes than the contract
\* does: a 429 on an auth route, a 401 for a token an open route does not want, a 400
\* for a write to which the contract gives no key.
Expected(answer) ==
  \/ answer \in {NoStatus, 204, 302, 500} \cup Decoded[operation]
  \/ <<operation, answer>> \in Gaps
  \/ answer = 429 /\ InAuth
  \/ answer = 401 /\ ~Wrapper[operation].secured
  \/ answer = 400 /\ ~Bypasses /\ Key \notin Sent[operation]

\* However tries overlap, replay each other's answers and lose locks and records, the
\* seventeen gaps are the only handlers' and locks' answers the contract leaves out.
GapsKnown == \A t \in Tries : Expected(status[t])

=============================================================================
