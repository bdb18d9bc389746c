---------------------------- MODULE GatewayProofs -----------------------------
(***************************************************************************)
(* The parts that stand between clients and the domain, for any values of  *)
(* their constants: the rate limiter, the loader cache, accounts, the      *)
(* shard map, and one call of the API.  They share no state, so each has   *)
(* its own inductive invariant.                                            *)
(***************************************************************************)
EXTENDS RateLimiter, Loader, Accounts, Sharding, Api, FiniteSetTheorems, TLAPS

-----------------------------------------------------------------------------
(* The rate limiter.                                                       *)

\* The bound on the calls alone is not inductive: the script counts what is left of the
\* key, so the invariant also says that every recent call is there.

\* The window that survives clocks that differ by twice the skew.
Short == Window - 2 * Skew

\* Scores are near the truth, no req is from the future, the key outlives its calls'
\* window, and a req within the short window is still in it.
RecentHeld ==
  /\ LimiterTypeOK
  /\ \A e \in allowed :
       /\ e.at <= now /\ e.at + Window <= expires
       /\ e.at - Skew <= e.score /\ e.score <= e.at + Skew
       /\ e.at > now - Short => e \in entries

LimiterInv == RecentHeld /\ WindowBound

-----------------------------------------------------------------------------
\* What is left of the key after a pod has cut it contains every recent req.
LEMMA RecentRemain ==
  ASSUME RecentHeld, NEW p \in Pods
  PROVE  Since(now - Short) \subseteq Remaining(p)
<1> SUFFICES ASSUME NEW e \in Since(now - Short) PROVE e \in Remaining(p)
  OBVIOUS
<1>1. e \in allowed /\ e.at > now - Short
  BY DEF Since
<1>2. /\ e \in CallRecords /\ now \in Nat /\ expires \in Nat /\ offset[p] \in -Skew .. Skew
      /\ Window \in Nat /\ Skew \in Nat
  BY <1>1, LimiterAssumption DEF RecentHeld, LimiterTypeOK
<1>3. e \in entries /\ e.at + Window <= expires /\ e.at - Skew <= e.score
  BY <1>1 DEF RecentHeld
<1>4. e.at \in Nat /\ e.score \in Int /\ offset[p] \in Int /\ offset[p] <= Skew
  BY <1>2 DEF CallRecords
<1>5. now < expires
  BY <1>1, <1>2, <1>3, <1>4 DEF Short
<1>6. PodTime(p) \in Int /\ PodTime(p) <= now + Skew
  BY <1>2, <1>4 DEF PodTime
<1>7. Held = entries
  BY <1>5 DEF Held
<1>8. e.score > PodTime(p) - Window
  BY <1>1, <1>2, <1>3, <1>4, <1>6 DEF Short
<1> QED
  BY <1>3, <1>7, <1>8 DEF Remaining

LEMMA RemainingFinite ==
  ASSUME LimiterTypeOK, NEW p \in Pods
  PROVE  Remaining(p) \subseteq entries /\ IsFiniteSet(Remaining(p))
<1>1. Remaining(p) \subseteq entries
  BY DEF Remaining, Held
<1> QED
  BY <1>1, FS_Subset DEF LimiterTypeOK

-----------------------------------------------------------------------------
LEMMA LimiterInitInv == LimiterInit => LimiterInv
<1> SUFFICES ASSUME LimiterInit PROVE LimiterInv
  OBVIOUS
<1>1. LimiterTypeOK /\ RecentHeld
  BY FS_EmptySet DEF LimiterInit, LimiterTypeOK, RecentHeld
<1>2. Since(now - Short) = {}
  BY DEF LimiterInit, Since
<1> QED
  BY <1>1, <1>2, FS_EmptySet, LimiterAssumption DEF LimiterInv, WindowBound, Short

LEMMA PassKeeps == ASSUME LimiterInv, NEW p \in Pods, Pass(p) PROVE LimiterInv'
<1> DEFINE req == [n |-> Cardinality(allowed), score |-> PodTime(p), at |-> now]
           rest == Remaining(p)
<1>1. /\ Cardinality(rest) < Limit /\ entries' = rest \cup {req} /\ allowed' = allowed \cup {req}
      /\ expires' = now + Window /\ now' = now /\ offset' = offset
  BY DEF Pass
<1>2. /\ LimiterTypeOK /\ RecentHeld /\ Window \in Nat /\ Skew \in Nat /\ Limit \in Nat
      /\ now \in Nat /\ offset[p] \in -Skew .. Skew /\ IsFiniteSet(allowed)
  BY LimiterAssumption DEF LimiterInv, RecentHeld, LimiterTypeOK
<1>3. rest \subseteq entries /\ IsFiniteSet(rest) /\ Cardinality(rest) \in Nat
  BY <1>2, RemainingFinite, FS_CardinalityType
<1>4. PodTime(p) \in Int /\ now - Skew <= PodTime(p) /\ PodTime(p) <= now + Skew
  BY <1>2 DEF PodTime
<1>5. req \in CallRecords /\ req.at = now /\ req.score = PodTime(p)
  BY <1>2, <1>4, FS_CardinalityType DEF CallRecords
<1>6. LimiterTypeOK'
  <2>1. IsFiniteSet(allowed')
    BY <1>1, <1>2, FS_AddElement
  <2> HIDE DEF req, rest
  <2>2. allowed' \subseteq CallRecords /\ entries' \subseteq allowed'
    BY <1>1, <1>2, <1>3, <1>5 DEF LimiterTypeOK
  <2> QED
    BY <1>1, <1>2, <2>1, <2>2 DEF LimiterTypeOK
<1>7. Since(now - Short) \subseteq rest
  BY <1>2, RecentRemain
<1>8. RecentHeld'
  <2> SUFFICES ASSUME NEW e \in allowed'
               PROVE /\ e.at <= now /\ e.at + Window <= now + Window
                     /\ e.at - Skew <= e.score /\ e.score <= e.at + Skew
                     /\ e.at > now - Short => e \in entries'
    BY <1>1, <1>6 DEF RecentHeld, Short
  <2>1. CASE e = req
    BY <2>1, <1>1, <1>2, <1>4, <1>5
  <2>2. CASE e \in allowed
    <3>1. e \in CallRecords /\ e.at \in Nat
      BY <2>2, <1>2 DEF LimiterTypeOK, CallRecords
    <3>2. e.at <= now /\ e.at - Skew <= e.score /\ e.score <= e.at + Skew
      BY <2>2, <1>2 DEF RecentHeld
    <3>3. e.at > now - Short => e \in rest
      BY <2>2, <1>7 DEF Since
    <3> HIDE DEF rest, req
    <3> QED
      BY <3>1, <3>2, <3>3, <1>1, <1>2
  <2> QED
    BY <2>1, <2>2, <1>1
<1>9. WindowBound'
  <2> HIDE DEF req, rest
  <2>1. Since(now - Short)' \subseteq rest \cup {req}
    BY <1>1, <1>7 DEF Since, Short
  <2>2. IsFiniteSet(rest \cup {req}) /\ Cardinality(rest \cup {req}) <= Cardinality(rest) + 1
    BY <1>3, FS_AddElement
  <2>3. Cardinality(Since(now - Short)') <= Cardinality(rest \cup {req})
    BY <2>1, <2>2, FS_Subset
  <2>4. Cardinality(Since(now - Short)') \in Nat /\ Cardinality(rest \cup {req}) \in Nat
    BY <2>1, <2>2, FS_Subset, FS_CardinalityType
  <2>5. Cardinality(Since(now - Short)') <= Limit
    BY <2>2, <2>3, <2>4, <1>1, <1>2, <1>3
  <2> QED
    BY <2>5 DEF WindowBound, Short
<1> QED
  BY <1>8, <1>9 DEF LimiterInv

LEMMA DenyKeeps == ASSUME LimiterInv, NEW p \in Pods, Deny(p) PROVE LimiterInv'
<1>1. entries' = Remaining(p) /\ UNCHANGED <<now, offset, expires, allowed>>
  BY DEF Deny
<1>2. LimiterTypeOK /\ RecentHeld
  BY DEF LimiterInv, RecentHeld
<1>3. Remaining(p) \subseteq entries /\ Since(now - Short) \subseteq Remaining(p)
  BY <1>2, RemainingFinite, RecentRemain
<1>4. LimiterTypeOK'
  BY <1>1, <1>2, <1>3 DEF LimiterTypeOK
<1>5. \A e \in allowed : e.at > now - Short => e \in Remaining(p)
  BY <1>3 DEF Since
<1>6. RecentHeld'
  BY <1>1, <1>2, <1>4, <1>5 DEF RecentHeld, Short
<1> QED
  BY <1>1, <1>6 DEF LimiterInv, WindowBound, Since

LEMMA TickKeeps == ASSUME LimiterInv, Tick PROVE LimiterInv'
<1>1. now' = now + 1 /\ UNCHANGED <<offset, entries, expires, allowed>>
  BY DEF Tick
<1>2. LimiterTypeOK /\ RecentHeld /\ now \in Nat /\ Window \in Nat /\ Skew \in Nat /\ Limit \in Nat
  BY LimiterAssumption DEF LimiterInv, RecentHeld, LimiterTypeOK
<1>3. LimiterTypeOK'
  BY <1>1, <1>2 DEF LimiterTypeOK
<1>4. \A e \in allowed : e.at \in Nat
  BY <1>2 DEF LimiterTypeOK, CallRecords
<1>5. RecentHeld'
  BY <1>1, <1>2, <1>3, <1>4 DEF RecentHeld, Short
<1>6. Since(now - Short)' \subseteq Since(now - Short)
  BY <1>1, <1>2, <1>4 DEF Since, Short
<1>7. IsFiniteSet(Since(now - Short))
  BY <1>2, FS_Subset DEF LimiterTypeOK, Since
<1>8. Cardinality(Since(now - Short)') <= Cardinality(Since(now - Short))
  BY <1>6, <1>7, FS_Subset
<1>9. Cardinality(Since(now - Short)') \in Nat /\ Cardinality(Since(now - Short)) \in Nat
  BY <1>6, <1>7, FS_Subset, FS_CardinalityType
<1>10. Cardinality(Since(now - Short)) <= Limit
  BY DEF LimiterInv, WindowBound, Short
<1>11. Cardinality(Since(now - Short)') <= Limit
  BY <1>8, <1>9, <1>10, <1>2
<1> QED
  BY <1>5, <1>11 DEF LimiterInv, WindowBound, Short

\* Whatever pods a client's calls reach, and however their clocks differ within the skew,
\* no more than Limit calls pass within the window less twice the skew.
THEOREM Bounded == LimiterSpec => []WindowBound
<1>1. LimiterInv /\ [LimiterNext]_limiterVars => LimiterInv'
  <2> SUFFICES ASSUME LimiterInv, [LimiterNext]_limiterVars PROVE LimiterInv'
    OBVIOUS
  <2>1. CASE Tick
    BY <2>1, TickKeeps
  <2>2. ASSUME NEW p \in Pods, Pass(p) PROVE LimiterInv'
    BY <2>2, PassKeeps
  <2>3. ASSUME NEW p \in Pods, Deny(p) PROVE LimiterInv'
    BY <2>3, DenyKeeps
  <2>4. CASE UNCHANGED limiterVars
    BY <2>4 DEF LimiterInv, RecentHeld, LimiterTypeOK, WindowBound, Since, limiterVars, Short
  <2> QED
    BY <2>1, <2>2, <2>3, <2>4 DEF LimiterNext
<1> QED
  BY <1>1, LimiterInitInv, PTL DEF LimiterSpec, LimiterInv

-----------------------------------------------------------------------------
(* The loader cache.                                                       *)

\* One flight at a time: what its leader is about to fetch was not cached when it looked
\* the second time, and only it can fill the cache since.
OneFlight ==
  /\ LoaderTypeOK
  /\ ~evicted => expiry >= loaded + MinTTL
  /\ \A c \in Callers : /\ call[c] \in {"recheck", "fetch", "end"} => leader = c
                        /\ call[c] = "fetch" => evicted \/ clock >= expiry

-----------------------------------------------------------------------------
LEMMA FlightInit == LoaderInit => OneFlight
  BY LoaderAssumption DEF LoaderInit, OneFlight, LoaderTypeOK

LEMMA FlightStep == OneFlight /\ [LoaderNext]_loaderVars => OneFlight'
<1> SUFFICES ASSUME OneFlight, [LoaderNext]_loaderVars PROVE OneFlight'
  OBVIOUS
<1> USE LoaderAssumption
<1>1. ASSUME NEW c \in Callers, Get(c) \/ Join(c) \/ Lead(c) \/ Recheck(c) PROVE OneFlight'
  <2>1. PICK st \in {"ok", "missed", "joined", "recheck", "end", "fetch"} :
          /\ To(c, st)
          /\ st = "fetch" => call[c] = "recheck" /\ ~Cached
          /\ st = "end" => call[c] = "recheck"
          /\ st = "recheck" => leader = NoCaller /\ leader' = c
          /\ st # "recheck" => leader' = leader
    BY <1>1 DEF Get, Join, Lead, Recheck
  <2>2. UNCHANGED <<clock, expiry, loaded, evicted>>
    BY <1>1 DEF Get, Join, Lead, Recheck
  <2>3. LoaderTypeOK'
    BY <2>1, <2>2 DEF OneFlight, LoaderTypeOK, To
  <2>4. clock \in Nat /\ expiry \in Nat
    BY DEF OneFlight, LoaderTypeOK
  <2>5. \A d \in Callers : /\ call'[d] \in {"recheck", "fetch", "end"} => leader' = d
                           /\ call'[d] = "fetch" => evicted \/ clock >= expiry
    BY <2>1, <2>4 DEF OneFlight, LoaderTypeOK, To, Cached
  <2> QED
    BY <2>2, <2>3, <2>5 DEF OneFlight
<1>2. ASSUME NEW c \in Callers, Fill(c) PROVE OneFlight'
  <2>1. /\ call[c] = "fetch" /\ call' = [call EXCEPT ![c] = "end"] /\ leader' = leader
        /\ expiry' \in (clock + MinTTL) .. (clock + MaxTTL)
        /\ loaded' = clock /\ evicted' = FALSE /\ clock' = clock
    BY <1>2 DEF Fill, To
  <2>2. clock \in 0 .. MaxClock /\ expiry' >= loaded' + MinTTL /\ expiry' \in 0 .. (MaxClock + MaxTTL)
    BY <2>1 DEF OneFlight, LoaderTypeOK
  <2>3. LoaderTypeOK'
    <3>1. call' \in [Callers -> {"idle", "missed", "joined", "recheck", "fetch", "end", "ok", "error"}]
      BY <2>1 DEF OneFlight, LoaderTypeOK
    <3>2. loaded' \in 0 .. clock'
      BY <2>1, <2>2
    <3> QED
      BY <2>1, <2>2, <3>1, <3>2 DEF OneFlight, LoaderTypeOK
  <2>4. \A d \in Callers : /\ call'[d] \in {"recheck", "fetch", "end"} => leader' = d
                           /\ call'[d] # "fetch"
    BY <2>1 DEF OneFlight, LoaderTypeOK
  <2> QED
    BY <2>2, <2>3, <2>4 DEF OneFlight
<1>3. ASSUME NEW outcome \in {"ok", "error"}, Finish(outcome) PROVE OneFlight'
  <2>1. LoaderTypeOK'
    BY <1>3 DEF OneFlight, LoaderTypeOK, Finish
  <2>2. \A d \in Callers : call'[d] \notin {"recheck", "fetch", "end"}
    BY <1>3 DEF OneFlight, Finish
  <2> QED
    BY <1>3, <2>1, <2>2 DEF OneFlight, Finish
<1>4. CASE Evict
  BY <1>4 DEF Evict, OneFlight, LoaderTypeOK
<1>5. CASE Second
  BY <1>5 DEF Second, OneFlight, LoaderTypeOK
<1>6. CASE UNCHANGED loaderVars
  BY <1>6 DEF OneFlight, LoaderTypeOK, loaderVars
<1> QED
  BY <1>1, <1>2, <1>3, <1>4, <1>5, <1>6 DEF LoaderNext, Fail, Land

\* However a pod's callers interleave, and whichever flights fail, a key is fetched at
\* most once per shortest TTL, unless the LRU dropped the entry.
THEOREM FetchesSpaced == LoaderSpec => LoadsSpaced
<1>1. ASSUME OneFlight, NEW c \in Callers, Fill(c) PROVE evicted \/ clock >= loaded + MinTTL
  <2>1. call[c] = "fetch" /\ clock \in Nat /\ expiry \in Nat /\ loaded \in Nat /\ MinTTL \in Nat
    BY <1>1, LoaderAssumption DEF Fill, OneFlight, LoaderTypeOK
  <2> QED
    BY <1>1, <2>1 DEF OneFlight
<1>2. OneFlight => [\A c \in Callers : Fill(c) => evicted \/ clock >= loaded + MinTTL]_loaderVars
  BY <1>1
<1> QED
  BY <1>2, FlightInit, FlightStep, PTL DEF LoaderSpec, LoadsSpaced

-----------------------------------------------------------------------------
(* Who may log in to an account.                                           *)

\* link's INSERT trusts what an earlier step of the flow decided, so the invariant carries
\* that decision along: the account a flow is about to link is one its subject may have, and
\* accounts keep their addresses.

Stages == {"none", "state", "known", "email", "link", "insert", "create", "end"}

\* The subject may log in as the account.
Owned(a, s) == <<a, s>> \in asked \cup born \/ (s.verified /\ s.email = email[a])

AccountsTyped ==
  /\ \E n \in 0 .. MaxAccounts : email \in [1 .. n -> Emails]
  /\ flow \in [Flows -> [at : Stages, provider : Providers, account : Ids \cup {Nobody}]]
  /\ subject \in [Flows -> Subjects]

Sound(f) ==
  /\ flow[f].account \in Accounts \cup {Nobody}
  /\ flow[f].at \in {"link", "insert"} =>
       flow[f].account \in Accounts /\ Owned(flow[f].account, subject[f])

OwnedInv ==
  /\ AccountsTyped
  /\ \A p \in identities : p \in Accounts \X Subjects /\ Owned(p[1], p[2])
  /\ \A f \in Flows : Sound(f)

-----------------------------------------------------------------------------
LEMMA OwnedInitInv == AccountsInit => OwnedInv
<1> SUFFICES ASSUME AccountsInit PROVE OwnedInv
  OBVIOUS
<1>1. email = << >> /\ email \in [1 .. 0 -> Emails] /\ 0 \in 0 .. MaxAccounts
  BY AccountsAssumption DEF AccountsInit
<1>2. (CHOOSE s \in Subjects : TRUE) \in Subjects /\ (CHOOSE p \in Providers : TRUE) \in Providers
  BY SubjectsAssumption DEF Providers
<1>3. /\ subject \in [Flows -> Subjects]
      /\ flow = [f \in Flows |-> [at |-> "none", provider |-> CHOOSE p \in Providers : TRUE,
                                  account |-> Nobody]]
      /\ identities = {}
  BY <1>2 DEF AccountsInit
<1>4. AccountsTyped
  BY <1>1, <1>2, <1>3 DEF AccountsTyped, Stages
<1>5. \A f \in Flows : Sound(f)
  BY <1>3 DEF Sound
<1> QED
  BY <1>3, <1>4, <1>5 DEF OwnedInv

\* The accounts are numbered as they are created, and a new one leaves the others alone.
LEMMA AccountIds ==
  ASSUME AccountsTyped
  PROVE  /\ NewAccount \notin Accounts /\ Accounts \subseteq Ids /\ Nobody \notin Accounts
         /\ \A e \in Emails : NewAccount \in Ids /\ Insert(e) =>
              /\ \E n \in 0 .. MaxAccounts : email' \in [1 .. n -> Emails]
              /\ Accounts' = Accounts \cup {NewAccount}
              /\ email'[NewAccount] = e /\ \A a \in Accounts : email'[a] = email[a]
<1>1. PICK n \in 0 .. MaxAccounts : email \in [1 .. n -> Emails]
  BY DEF AccountsTyped
<1>2. Accounts = 1 .. n /\ Cardinality(1 .. n) = n /\ n \in Nat /\ MaxAccounts \in Nat
  BY <1>1, FS_Interval, AccountsAssumption DEF Accounts
<1>3. NewAccount = n + 1
  BY <1>2 DEF NewAccount
<1>4. NewAccount \notin Accounts /\ Accounts \subseteq Ids /\ Nobody \notin Accounts
  BY <1>2, <1>3 DEF Ids, Nobody
<1>5. ASSUME NEW e \in Emails, NewAccount \in Ids, Insert(e)
      PROVE  /\ \E m \in 0 .. MaxAccounts : email' \in [1 .. m -> Emails]
             /\ Accounts' = Accounts \cup {NewAccount}
             /\ email'[NewAccount] = e /\ \A a \in Accounts : email'[a] = email[a]
  <2>1. email' = [a \in 1 .. (n + 1) |-> IF a \in 1 .. n THEN email[a] ELSE e]
    BY <1>2, <1>5 DEF Insert
  <2>2. n + 1 \in 0 .. MaxAccounts
    BY <1>2, <1>3, <1>5 DEF Ids
  <2>3. email' \in [1 .. (n + 1) -> Emails]
    BY <1>1, <1>2, <2>1
  <2>4. Accounts' = 1 .. (n + 1) /\ 1 .. (n + 1) = (1 .. n) \cup {n + 1}
    BY <1>2, <2>1 DEF Accounts
  <2> QED
    BY <1>2, <1>3, <2>1, <2>2, <2>3, <2>4
<1> QED
  BY <1>4, <1>5

\* What a step has to show: new identities are owned, and so is what the flows that it
\* moves are about to link.
LEMMA OwnershipKeeps ==
  ASSUME OwnedInv, AccountsTyped',
         Accounts \subseteq Accounts', \A a \in Accounts : email'[a] = email[a],
         asked \subseteq asked', born \subseteq born',
         \A p \in identities' \ identities : p \in Accounts' \X Subjects /\ Owned(p[1], p[2])',
         \A f \in Flows : Sound(f)' \/ (flow'[f] = flow[f] /\ subject'[f] = subject[f])
  PROVE  OwnedInv'
<1>1. \A a \in Accounts : \A s : Owned(a, s) => Owned(a, s)'
  BY DEF Owned
<1>2. \A p \in identities' : p \in Accounts' \X Subjects /\ Owned(p[1], p[2])'
  <2> SUFFICES ASSUME NEW p \in identities, p \in identities'
               PROVE p \in Accounts' \X Subjects /\ Owned(p[1], p[2])'
    OBVIOUS
  <2>1. p \in Accounts \X Subjects /\ Owned(p[1], p[2])
    BY DEF OwnedInv
  <2>2. p[1] \in Accounts /\ p \in Accounts' \X Subjects
    BY <2>1
  <2> QED
    BY <1>1, <2>1, <2>2
<1>3. \A f \in Flows : Sound(f)'
  <2> SUFFICES ASSUME NEW f \in Flows, flow'[f] = flow[f], subject'[f] = subject[f]
               PROVE Sound(f)'
    OBVIOUS
  <2>1. Sound(f)
    BY DEF OwnedInv
  <2> QED
    BY <1>1, <2>1 DEF Sound
<1> QED
  BY <1>2, <1>3 DEF OwnedInv

-----------------------------------------------------------------------------
(* Steps that add no identity and move one flow.                            *)

LEMMA FlowKeeps ==
  ASSUME OwnedInv, NEW f \in Flows, NEW s \in Subjects, NEW st \in Stages,
         NEW a \in Accounts \cup {Nobody}, UNCHANGED dbVars, asked \subseteq asked',
         \/ flow' = [flow EXCEPT ![f].at = st] /\ flow[f].account = a
         \/ flow' = [flow EXCEPT ![f].at = st, ![f].account = a]
         \/ \E p \in Providers : flow' = [flow EXCEPT ![f] = [at |-> st, provider |-> p, account |-> a]],
         subject' = [subject EXCEPT ![f] = s],
         st \in {"link", "insert"} => a \in Accounts /\ Owned(a, s)'
  PROVE  OwnedInv'
<1>1. AccountsTyped /\ Accounts \subseteq Ids
  BY AccountIds DEF OwnedInv
<1>2. /\ flow' \in [Flows -> [at : Stages, provider : Providers, account : Ids \cup {Nobody}]]
      /\ flow'[f].at = st /\ flow'[f].account = a
      /\ \A g \in Flows : g # f => flow'[g] = flow[g]
  BY <1>1 DEF AccountsTyped
<1>3. AccountsTyped'
  BY <1>1, <1>2 DEF AccountsTyped, dbVars
<1>4. Sound(f)'
  BY <1>1, <1>2 DEF Sound, dbVars, Accounts, AccountsTyped
<1>5. \A g \in Flows : Sound(g)' \/ (flow'[g] = flow[g] /\ subject'[g] = subject[g])
  BY <1>1, <1>2, <1>4 DEF AccountsTyped
<1> QED
  BY <1>3, <1>5, OwnershipKeeps DEF dbVars, Accounts

LEMMA StartKeeps ==
  ASSUME OwnedInv, NEW f \in Flows, NEW a \in Accounts \cup {Nobody}, NEW p \in Providers, Start(f, a, p)
  PROVE  OwnedInv'
<1>1. /\ flow' = [flow EXCEPT ![f] = [at |-> "state", provider |-> p, account |-> a]]
      /\ subject' = [subject EXCEPT ![f] = subject[f]] /\ subject[f] \in Subjects
      /\ UNCHANGED dbVars /\ asked' = asked
  BY DEF Start, OwnedInv, AccountsTyped
<1> QED
  BY <1>1, FlowKeeps DEF Stages

LEMMA CallbackKeeps ==
  ASSUME OwnedInv, NEW f \in Flows, NEW s \in Subjects, Callback(f, s) PROVE OwnedInv'
<1>1. PICK a \in Accounts \cup {Nobody} : a = flow[f].account
  BY DEF OwnedInv, Sound
<1>2. PICK st \in Stages : st = IF a = Nobody THEN "known" ELSE "link"
  BY DEF Stages
<1>3. /\ flow' = [flow EXCEPT ![f].at = st] /\ subject' = [subject EXCEPT ![f] = s]
      /\ UNCHANGED dbVars /\ asked' = IF a = Nobody THEN asked ELSE asked \cup {<<a, s>>}
  BY <1>1, <1>2 DEF Callback, Proceed
<1>4. st \in {"link", "insert"} => a \in Accounts /\ Owned(a, s)'
  BY <1>1, <1>2, <1>3 DEF Owned
<1>5. asked \subseteq asked'
  BY <1>3
<1> QED
  BY <1>1, <1>3, <1>4, <1>5, FlowKeeps

LEMMA LookKeeps ==
  ASSUME OwnedInv, NEW f \in Flows, Known(f) \/ LinkLookup(f) PROVE OwnedInv'
<1>1. AccountsTyped /\ Sound(f)
  BY DEF OwnedInv
<1>2. PICK a \in Accounts \cup {Nobody}, s \in Subjects : a = flow[f].account /\ s = subject[f]
  BY <1>1 DEF Sound, AccountsTyped
<1>3. subject' = [subject EXCEPT ![f] = s] /\ UNCHANGED dbVars /\ asked' = asked
  BY <1>1, <1>2 DEF Known, LinkLookup, AccountsTyped
<1>4. PICK st \in Stages : /\ flow' = [flow EXCEPT ![f].at = st]
                              /\ st # "link" /\ (st = "insert" => flow[f].at = "link")
  BY DEF Known, LinkLookup, Proceed, Stages
<1>5. st \in {"link", "insert"} => a \in Accounts /\ Owned(a, s)'
  BY <1>1, <1>2, <1>3, <1>4 DEF Sound, Owned, dbVars
<1> QED
  BY <1>2, <1>3, <1>4, <1>5, FlowKeeps

LEMMA ByEmailKeeps == ASSUME OwnedInv, NEW f \in Flows, ByEmail(f) PROVE OwnedInv'
<1>1. PICK s \in Subjects : s = subject[f]
  BY DEF OwnedInv, AccountsTyped
<1>2. /\ subject' = [subject EXCEPT ![f] = s]
      /\ UNCHANGED dbVars /\ asked' = asked /\ flow[f].account \in Accounts \cup {Nobody}
  BY <1>1 DEF ByEmail, OwnedInv, AccountsTyped, Sound
<1>3. CASE WithEmail(s.email) = {}
  <2>1. flow' = [flow EXCEPT ![f].at = "create"]
    BY <1>1, <1>3 DEF ByEmail, Proceed
  <2> QED
    BY <1>2, <2>1, FlowKeeps DEF Stages
<1>4. CASE WithEmail(s.email) # {}
  <2>1. PICK a \in WithEmail(s.email) :
          flow' = [flow EXCEPT ![f].at = IF Trusted(s) THEN "link" ELSE "end", ![f].account = a]
    BY <1>1, <1>4 DEF ByEmail, Toward
  <2>2. a \in Accounts /\ email[a] = s.email
    BY <2>1 DEF WithEmail
  <2>3. Trusted(s) => Owned(a, s)'
    BY <1>2, <2>2 DEF Trusted, Owned, dbVars
  <2>4. CASE Trusted(s)
    <3>1. flow' = [flow EXCEPT ![f].at = "link", ![f].account = a]
      BY <2>1, <2>4
    <3> QED
      BY <1>2, <2>2, <2>3, <2>4, <3>1, FlowKeeps DEF Stages
  <2>5. CASE ~Trusted(s)
    <3>1. flow' = [flow EXCEPT ![f].at = "end", ![f].account = a]
      BY <2>1, <2>5
    <3> QED
      BY <1>2, <2>2, <3>1, FlowKeeps DEF Stages
  <2> QED
    BY <2>4, <2>5
<1> QED
  BY <1>3, <1>4

-----------------------------------------------------------------------------
(* Steps that change accounts and identities.                               *)

LEMMA RegisterKeeps == ASSUME OwnedInv, NEW e \in Emails, Register(e) PROVE OwnedInv'
<1>1. NewAccount \in Ids /\ Insert(e) /\ UNCHANGED <<identities, born, flow, subject, asked>>
  BY DEF Register, flowVars
<1>2. AccountsTyped /\ AccountsTyped'
  BY <1>1, AccountIds DEF OwnedInv, AccountsTyped
<1> QED
  BY <1>1, <1>2, AccountIds, OwnershipKeeps

LEMMA LinkInsertKeeps == ASSUME OwnedInv, NEW f \in Flows, LinkInsert(f) PROVE OwnedInv'
<1> DEFINE a == flow[f].account
           s == subject[f]
<1>1. /\ flow[f].at = "insert" /\ flow' = [flow EXCEPT ![f].at = "end"]
      /\ UNCHANGED <<email, born, subject, asked>>
      /\ identities' = IF MayInsert(a, s) THEN identities \cup {<<a, s>>} ELSE identities
  BY DEF LinkInsert, Proceed
<1>2. AccountsTyped /\ Sound(f) /\ s \in Subjects
  BY DEF OwnedInv, AccountsTyped
<1>3. a \in Accounts /\ Owned(a, s)
  BY <1>1, <1>2 DEF Sound
<1>4. AccountsTyped'
  BY <1>1, <1>2 DEF AccountsTyped, Stages
<1>5. Sound(f)'
  BY <1>1, <1>2 DEF Sound, AccountsTyped, Accounts
<1>6. \A g \in Flows : Sound(g)' \/ (flow'[g] = flow[g] /\ subject'[g] = subject[g])
  BY <1>1, <1>2, <1>5 DEF AccountsTyped
<1>7. \A p \in identities' \ identities : p \in Accounts' \X Subjects /\ Owned(p[1], p[2])'
  BY <1>1, <1>2, <1>3 DEF Owned, Accounts
<1> QED
  BY <1>1, <1>4, <1>6, <1>7, OwnershipKeeps DEF Accounts

LEMMA CreateUserKeeps ==
  ASSUME OwnedInv, NEW f \in Flows, subject[f].email \in Emails, CreateUser(f) PROVE OwnedInv'
<1> DEFINE s == subject[f]
<1>1. /\ NewAccount \in Ids /\ flow[f].at = "create" /\ flow' = [flow EXCEPT ![f].at = "end"]
      /\ UNCHANGED <<subject, asked>>
  BY DEF CreateUser, Proceed
<1>2. AccountsTyped /\ Sound(f) /\ s \in Subjects
  BY DEF OwnedInv, AccountsTyped
<1>3. \A g \in Flows : g # f => flow'[g] = flow[g] /\ subject'[g] = subject[g]
  BY <1>1, <1>2 DEF AccountsTyped
<1>4. flow' \in [Flows -> [at : Stages, provider : Providers, account : Ids \cup {Nobody}]]
  BY <1>1, <1>2 DEF AccountsTyped, Stages
<1>5. flow'[f].at = "end" /\ flow'[f].account = flow[f].account
  BY <1>1, <1>2 DEF AccountsTyped
<1>6. CASE WithEmail(s.email) = {} /\ Who(s) = {}
  <2>1. /\ Insert(s.email) /\ identities' = identities \cup {<<NewAccount, s>>}
        /\ born' = born \cup {<<NewAccount, s>>}
    BY <1>6 DEF CreateUser
  <2>2. AccountsTyped'
    BY <1>1, <1>2, <1>4, <2>1, AccountIds DEF AccountsTyped
  <2>3. Accounts' = Accounts \cup {NewAccount} /\ \A a \in Accounts : email'[a] = email[a]
    BY <1>1, <1>2, <2>1, AccountIds
  <2>4. Sound(f)'
    BY <1>2, <1>5, <2>3 DEF Sound
  <2>5. \A p \in born' : Owned(p[1], p[2])' \/ p \notin Accounts' \X Subjects
    BY DEF Owned
  <2>6. \A p \in identities' \ identities : p \in Accounts' \X Subjects /\ Owned(p[1], p[2])'
    BY <1>2, <2>1, <2>3, <2>5
  <2> QED
    BY <1>1, <1>3, <2>1, <2>2, <2>3, <2>4, <2>6, OwnershipKeeps
<1>7. CASE ~(WithEmail(s.email) = {} /\ Who(s) = {})
  <2>1. UNCHANGED <<email, identities, born>>
    BY <1>7 DEF CreateUser
  <2>2. AccountsTyped' /\ Sound(f)'
    BY <1>1, <1>2, <1>4, <1>5, <2>1 DEF AccountsTyped, Sound, Accounts
  <2> QED
    BY <1>1, <1>3, <2>1, <2>2, OwnershipKeeps DEF Accounts
<1> QED
  BY <1>6, <1>7

LEMMA RestKeeps ==
  ASSUME OwnedInv, UNCHANGED <<email, born, flow, subject, asked>>, identities' \subseteq identities
  PROVE  OwnedInv'
<1>1. AccountsTyped'
  BY DEF OwnedInv, AccountsTyped
<1> QED
  BY <1>1, OwnershipKeeps DEF Accounts

LEMMA OwnedStep == OwnedInv /\ [AccountsNext]_accountVars => OwnedInv'
<1> SUFFICES ASSUME OwnedInv, [AccountsNext]_accountVars PROVE OwnedInv'
  OBVIOUS
<1>1. ASSUME NEW e \in Emails, Register(e) PROVE OwnedInv'
  BY <1>1, RegisterKeeps
<1>2. ASSUME NEW f \in Flows, NEW a \in Accounts \cup {Nobody}, NEW p \in Providers, Start(f, a, p)
      PROVE OwnedInv'
  BY <1>2, StartKeeps
<1>3. ASSUME NEW f \in Flows, NEW s \in Subjects, Callback(f, s) PROVE OwnedInv'
  BY <1>3, CallbackKeeps
<1>4. ASSUME NEW f \in Flows, Known(f) \/ LinkLookup(f) PROVE OwnedInv'
  BY <1>4, LookKeeps
<1>5. ASSUME NEW f \in Flows, ByEmail(f) PROVE OwnedInv'
  BY <1>5, ByEmailKeeps
<1>6. ASSUME NEW f \in Flows, LinkInsert(f) PROVE OwnedInv'
  BY <1>6, LinkInsertKeeps
<1>7. ASSUME NEW f \in Flows, CreateUser(f) PROVE OwnedInv'
  <2>1. subject[f].email \in Emails
    BY SubjectsAssumption DEF OwnedInv, AccountsTyped
  <2> QED
    BY <1>7, <2>1, CreateUserKeeps
<1>8. ASSUME NEW u \in Unlinkers, NEW a \in Accounts, NEW p \in Providers, UnlinkRead(u, a, p)
      PROVE OwnedInv'
  BY <1>8, RestKeeps DEF UnlinkRead, dbVars, flowVars
<1>9. ASSUME NEW u \in Unlinkers, UnlinkDelete(u) PROVE OwnedInv'
  BY <1>9, RestKeeps DEF UnlinkDelete, flowVars
<1>10. CASE UNCHANGED accountVars
  BY <1>10, RestKeeps DEF accountVars
<1> QED
  BY <1>1, <1>2, <1>3, <1>4, <1>5, <1>6, <1>7, <1>8, <1>9, <1>10 DEF AccountsNext

\* However logins, links, registrations and unlinks overlap, an identity opens only an
\* account whose user asked for it, whose address its provider vouches for, or that was
\* made from it.
THEOREM OwnersOnly == AccountsSpec => []LinkedByOwner
<1>1. OwnedInv => LinkedByOwner
  <2> SUFFICES ASSUME OwnedInv, NEW a \in Accounts, NEW s \in Subjects, <<a, s>> \in identities
               PROVE  <<a, s>> \in asked \cup born \/ (s.verified /\ s.email = email[a])
    BY DEF LinkedByOwner
  <2>1. Owned(a, s)
    BY DEF OwnedInv
  <2> QED
    BY <2>1 DEF Owned
<1> QED
  BY <1>1, OwnedInitInv, OwnedStep, PTL DEF AccountsSpec

-----------------------------------------------------------------------------
(* Who can still log in to an account.                                     *)

Deleting(u, a) == unlink[u].at = "delete" /\ unlink[u].account = a

Unlinks ==
  /\ unlink \in [Unlinkers -> [at : {"none", "delete", "end"},
                               account : Ids \cup {Nobody}, provider : Providers]]
  /\ \A u \in Unlinkers : unlink[u].at = "delete" => unlink[u].account \in Accounts

\* PRIMARY KEY (user_id, provider).
OnePerProvider ==
  \A a \in Accounts, s, t \in Subjects :
    <<a, s>> \in identities /\ <<a, t>> \in identities /\ s.at = t.at => s = t

\* An account without a password has an identity, and one that the unlink on its way
\* does not delete.
Opens(a) ==
  a \notin passwords \cup raced =>
    /\ \E s \in Subjects : <<a, s>> \in identities
    /\ \A u \in Unlinkers : Deleting(u, a) =>
         /\ \A v \in Unlinkers : Deleting(v, a) => v = u
         /\ \E s \in Subjects : <<a, s>> \in identities /\ s.at # unlink[u].provider

AlwaysOpen == OwnedInv /\ Unlinks /\ OnePerProvider /\ \A a \in Accounts : Opens(a)

-----------------------------------------------------------------------------
LEMMA OpenInit == AccountsInit => AlwaysOpen
<1> SUFFICES ASSUME AccountsInit PROVE AlwaysOpen
  OBVIOUS
<1>1. Accounts = {} /\ identities = {}
  BY DEF AccountsInit, Accounts
<1>2. (CHOOSE p \in Providers : TRUE) \in Providers
  BY SubjectsAssumption DEF Providers
<1>3. unlink = [u \in Unlinkers |-> [at |-> "none", account |-> Nobody,
                                     provider |-> CHOOSE p \in Providers : TRUE]]
  BY DEF AccountsInit
<1>4. Unlinks
  BY <1>2, <1>3 DEF Unlinks
<1> QED
  BY <1>1, <1>4, OwnedInitInv DEF AlwaysOpen, OnePerProvider

\* Steps that delete nothing: a new account brings a password or an identity, and no
\* unlink is of an account that is yet to be.
LEMMA GrowOpen ==
  ASSUME AlwaysOpen, OwnedInv', UNCHANGED unlinkVars, Accounts \subseteq Accounts',
         identities \subseteq identities', passwords \subseteq passwords', OnePerProvider',
         \A a \in Accounts' \ Accounts :
           a \in passwords' \/ \E s \in Subjects : <<a, s>> \in identities'
  PROVE  AlwaysOpen'
<1>1. Unlinks' /\ UNCHANGED <<unlink, raced>>
  BY DEF AlwaysOpen, Unlinks, unlinkVars
<1>2. ASSUME NEW a \in Accounts' PROVE Opens(a)'
  <2>1. CASE a \in Accounts
    <3>1. Opens(a)
      BY <2>1 DEF AlwaysOpen
    <3> QED
      BY <3>1, <1>1 DEF Opens, Deleting
  <2>2. CASE a \notin Accounts
    <3>1. \A u \in Unlinkers : ~Deleting(u, a)
      BY <2>2 DEF AlwaysOpen, Unlinks, Deleting
    <3> QED
      BY <2>2, <3>1, <1>1 DEF Opens, Deleting
  <2> QED
    BY <2>1, <2>2
<1> QED
  BY <1>1, <1>2 DEF AlwaysOpen

LEMMA SameOpen ==
  ASSUME AlwaysOpen, OwnedInv', UNCHANGED <<dbVars, unlinkVars>>
  PROVE  AlwaysOpen'
<1>1. OnePerProvider'
  BY DEF AlwaysOpen, OnePerProvider, dbVars, Accounts
<1> QED
  BY <1>1, GrowOpen DEF dbVars, Accounts

LEMMA RegisterOpen == ASSUME AlwaysOpen, OwnedInv', NEW e \in Emails, Register(e) PROVE AlwaysOpen'
<1>1. /\ NewAccount \in Ids /\ Insert(e) /\ passwords' = passwords \cup {NewAccount}
      /\ UNCHANGED <<identities, unlinkVars>>
  BY DEF Register
<1>2. Accounts' = Accounts \cup {NewAccount} /\ AccountsTyped
  BY <1>1, AccountIds DEF AlwaysOpen, OwnedInv
<1>3. \A p \in identities : p[1] \in Accounts
  BY DEF AlwaysOpen, OwnedInv
<1>4. OnePerProvider'
  BY <1>1, <1>2, <1>3 DEF AlwaysOpen, OnePerProvider
<1> QED
  BY <1>1, <1>2, <1>4, GrowOpen

LEMMA LinkOpen == ASSUME AlwaysOpen, OwnedInv', NEW f \in Flows, LinkInsert(f) PROVE AlwaysOpen'
<1> DEFINE a == flow[f].account   s == subject[f]
<1>1. /\ identities' = IF MayInsert(a, s) THEN identities \cup {<<a, s>>} ELSE identities
      /\ UNCHANGED <<email, passwords, unlinkVars>> /\ s \in Subjects
  BY DEF LinkInsert, AlwaysOpen, OwnedInv, AccountsTyped
<1>2. Accounts' = Accounts
  BY <1>1 DEF Accounts
<1>3. OnePerProvider'
  BY <1>1, <1>2 DEF AlwaysOpen, OnePerProvider, MayInsert
<1> QED
  BY <1>1, <1>2, <1>3, GrowOpen

LEMMA CreateOpen ==
  ASSUME AlwaysOpen, OwnedInv', NEW f \in Flows, CreateUser(f) PROVE AlwaysOpen'
<1> DEFINE s == subject[f]
<1>1. AccountsTyped /\ s \in Subjects /\ s.email \in Emails
  BY SubjectsAssumption DEF AlwaysOpen, OwnedInv, AccountsTyped
<1>2. CASE WithEmail(s.email) = {} /\ Who(s) = {}
  <2>1. /\ NewAccount \in Ids /\ Insert(s.email) /\ identities' = identities \cup {<<NewAccount, s>>}
        /\ UNCHANGED <<passwords, unlinkVars>>
    BY <1>2 DEF CreateUser
  <2>2. Accounts' = Accounts \cup {NewAccount} /\ NewAccount \notin Accounts
    BY <1>1, <2>1, AccountIds
  <2>3. \A p \in identities : p[1] \in Accounts
    BY DEF AlwaysOpen, OwnedInv
  <2>4. OnePerProvider'
    BY <2>1, <2>2, <2>3 DEF AlwaysOpen, OnePerProvider
  <2> QED
    BY <1>1, <2>1, <2>2, <2>4, GrowOpen
<1>3. CASE ~(WithEmail(s.email) = {} /\ Who(s) = {})
  BY <1>3, SameOpen DEF CreateUser, dbVars
<1> QED
  BY <1>2, <1>3

-----------------------------------------------------------------------------
\* More than one identity, no two of one provider: one stays whichever is unlinked.
LEMMA OneStays ==
  ASSUME OnePerProvider, NEW a \in Accounts, a \notin passwords, ~LastCredential(a), NEW p \in Providers
  PROVE  \E s \in Subjects : <<a, s>> \in identities /\ s.at # p
<1> SUFFICES ASSUME \A s \in Subjects : <<a, s>> \in identities => s.at = p PROVE FALSE
  OBVIOUS
<1>1. ~(Cardinality(IdentitiesOf(a)) <= 1)
  BY DEF LastCredential
<1>2. \A s, t \in IdentitiesOf(a) : s = t
  BY DEF IdentitiesOf, OnePerProvider
<1>3. CASE IdentitiesOf(a) = {}
  BY <1>1, <1>3, FS_EmptySet
<1>4. ASSUME NEW s \in IdentitiesOf(a) PROVE FALSE
  <2>1. IdentitiesOf(a) = {s}
    BY <1>2
  <2>2. Cardinality(IdentitiesOf(a)) = 1
    BY <2>1, FS_Singleton
  <2> QED
    BY <1>1, <2>2
<1> QED
  BY <1>3, <1>4

LEMMA ReadOpen ==
  ASSUME AlwaysOpen, OwnedInv', NEW u \in Unlinkers, NEW a \in Accounts, NEW p \in Providers,
         UnlinkRead(u, a, p)
  PROVE  AlwaysOpen'
<1> DEFINE goesOn == ~LastCredential(a)
<1>1. /\ unlink[u].at = "none"
      /\ unlink' = [unlink EXCEPT ![u] =
           [at |-> IF goesOn THEN "delete" ELSE "end", account |-> a, provider |-> p]]
      /\ raced' = IF goesOn /\ \E v \in Unlinkers : Deleting(v, a) THEN raced \cup {a} ELSE raced
      /\ UNCHANGED <<email, passwords, identities>>
  BY DEF UnlinkRead, dbVars, Deleting
<1>2. Accounts' = Accounts /\ Accounts \subseteq Ids /\ Unlinks /\ OnePerProvider
  BY <1>1, AccountIds DEF Accounts, AlwaysOpen, OwnedInv
<1>3. Unlinks' /\ OnePerProvider'
  BY <1>1, <1>2 DEF Unlinks, OnePerProvider
<1>4. \A v \in Unlinkers : v # u => unlink'[v] = unlink[v]
  BY <1>1, <1>2 DEF Unlinks
<1>5. unlink'[u] = [at |-> IF goesOn THEN "delete" ELSE "end", account |-> a, provider |-> p]
  BY <1>1, <1>2 DEF Unlinks
<1>6. \A b : /\ ~Deleting(u, b)
             /\ Deleting(u, b)' <=> goesOn /\ b = a
             /\ \A v \in Unlinkers : v # u => (Deleting(v, b)' <=> Deleting(v, b))
  BY <1>1, <1>4, <1>5 DEF Deleting
<1>7. ASSUME NEW b \in Accounts PROVE Opens(b)'
  <2>1. Opens(b)
    BY DEF AlwaysOpen
  <2>2. CASE b = a /\ goesOn
    <3> SUFFICES ASSUME a \notin passwords, a \notin raced'
                 PROVE  /\ \E s \in Subjects : <<a, s>> \in identities
                        /\ \A v \in Unlinkers : Deleting(v, a)' =>
                             /\ \A w \in Unlinkers : Deleting(w, a)' => w = v
                             /\ \E s \in Subjects : <<a, s>> \in identities /\ s.at # unlink'[v].provider
      BY <1>1, <2>2 DEF Opens
    <3>1. \A v \in Unlinkers : ~Deleting(v, a)
      BY <1>1, <2>2
    <3>2. \A v \in Unlinkers : Deleting(v, a)' => v = u
      BY <1>6, <3>1
    <3>3. \E s \in Subjects : <<a, s>> \in identities /\ s.at # p
      BY <1>2, <2>2, OneStays
    <3>4. unlink'[u].provider = p
      BY <1>5
    <3>5. \E s \in Subjects : <<a, s>> \in identities /\ s.at # unlink'[u].provider
      BY <3>3, <3>4
    <3> QED
      BY <3>2, <3>5
  <2>3. CASE ~(b = a /\ goesOn)
    <3>1. \A v \in Unlinkers : Deleting(v, b)' <=> Deleting(v, b)
      BY <1>6, <2>3
    <3>2. \A v \in Unlinkers : Deleting(v, b) => unlink'[v] = unlink[v]
      BY <1>4, <1>6
    <3>3. b \in raced' => b \in raced
      BY <1>1, <2>3
    <3>4. raced \subseteq raced'
      BY <1>1
    <3> HIDE DEF goesOn
    <3> QED
      BY <1>1, <2>1, <3>1, <3>2, <3>4 DEF Opens
  <2> QED
    BY <2>2, <2>3
<1> QED
  BY <1>2, <1>3, <1>7 DEF AlwaysOpen

\* The only unlink of an account leaves the identities of other providers.
LEMMA DeleteOpen ==
  ASSUME AlwaysOpen, OwnedInv', NEW u \in Unlinkers, UnlinkDelete(u) PROVE AlwaysOpen'
<1>1. /\ unlink[u].at = "delete" /\ unlink' = [unlink EXCEPT ![u].at = "end"]
      /\ identities' = { i \in identities :
           ~(i[1] = unlink[u].account /\ i[2].at = unlink[u].provider) }
      /\ UNCHANGED <<email, passwords, raced>>
  BY DEF UnlinkDelete
<1>2. Accounts' = Accounts /\ Unlinks /\ OnePerProvider
  BY <1>1 DEF Accounts, AlwaysOpen
<1>3. Unlinks' /\ OnePerProvider'
  BY <1>1, <1>2 DEF Unlinks, OnePerProvider
<1>4. /\ unlink'[u].at = "end"
      /\ \A v \in Unlinkers : v # u => unlink'[v] = unlink[v]
  BY <1>1, <1>2 DEF Unlinks
<1>5. \A b, s : <<b, s>> \in identities' <=>
        <<b, s>> \in identities /\ ~(b = unlink[u].account /\ s.at = unlink[u].provider)
  BY <1>1
<1>6. \A b : /\ \A v \in Unlinkers : Deleting(v, b)' => v # u /\ Deleting(v, b) /\ unlink'[v] = unlink[v]
             /\ Deleting(u, b) <=> b = unlink[u].account
  BY <1>1, <1>4 DEF Deleting
<1>7. ASSUME NEW b \in Accounts PROVE Opens(b)'
  <2> SUFFICES ASSUME b \notin passwords \cup raced
               PROVE  /\ \E s \in Subjects : <<b, s>> \in identities'
                      /\ \A v \in Unlinkers : Deleting(v, b)' =>
                           /\ \A w \in Unlinkers : Deleting(w, b)' => w = v
                           /\ \E s \in Subjects : <<b, s>> \in identities' /\ s.at # unlink'[v].provider
    BY <1>1 DEF Opens
  <2>1. Opens(b)
    BY DEF AlwaysOpen
  <2>2. CASE b = unlink[u].account
    <3>1. Deleting(u, b)
      BY <1>6, <2>2
    <3>2. \A v \in Unlinkers : ~Deleting(v, b)'
      BY <1>6, <2>1, <3>1 DEF Opens
    <3>3. \E s \in Subjects : <<b, s>> \in identities'
      BY <1>5, <2>1, <3>1 DEF Opens
    <3> QED
      BY <3>2, <3>3
  <2>3. CASE b # unlink[u].account
    <3>1. \A v \in Unlinkers : Deleting(v, b)' => Deleting(v, b) /\ unlink'[v] = unlink[v]
      BY <1>6
    <3>2. \A s : <<b, s>> \in identities => <<b, s>> \in identities'
      BY <1>5, <2>3
    <3>3. /\ \E s \in Subjects : <<b, s>> \in identities
          /\ \A v \in Unlinkers : Deleting(v, b) =>
               /\ \A w \in Unlinkers : Deleting(w, b) => w = v
               /\ \E s \in Subjects : <<b, s>> \in identities /\ s.at # unlink[v].provider
      BY <2>1 DEF Opens
    <3> QED
      BY <3>1, <3>2, <3>3
  <2> QED
    BY <2>2, <2>3
<1> QED
  BY <1>2, <1>3, <1>7 DEF AlwaysOpen

\* However logins, links and unlinks overlap, an account is left with nothing to log in
\* with only where two unlinks of it were under way at once.
THEOREM NeverStranded == AccountsSpec => []StrandedNeedsRace
<1>1. AlwaysOpen /\ [AccountsNext]_accountVars => AlwaysOpen'
  <2> SUFFICES ASSUME AlwaysOpen, [AccountsNext]_accountVars PROVE AlwaysOpen'
    OBVIOUS
  <2>1. OwnedInv'
    BY OwnedStep DEF AlwaysOpen
  <2>2. ASSUME NEW e \in Emails, Register(e) PROVE AlwaysOpen'
    BY <2>1, <2>2, RegisterOpen
  <2>3. ASSUME NEW f \in Flows,
               \/ \E a \in Accounts \cup {Nobody}, p \in Providers : Start(f, a, p)
               \/ \E s \in Subjects : Callback(f, s)
               \/ Known(f) \/ ByEmail(f) \/ LinkLookup(f)
        PROVE AlwaysOpen'
    BY <2>1, <2>3, SameOpen DEF Start, Callback, Known, ByEmail, LinkLookup
  <2>4. ASSUME NEW f \in Flows, LinkInsert(f) PROVE AlwaysOpen'
    BY <2>1, <2>4, LinkOpen
  <2>5. ASSUME NEW f \in Flows, CreateUser(f) PROVE AlwaysOpen'
    BY <2>1, <2>5, CreateOpen
  <2>6. ASSUME NEW u \in Unlinkers, NEW a \in Accounts, NEW p \in Providers, UnlinkRead(u, a, p)
        PROVE AlwaysOpen'
    BY <2>1, <2>6, ReadOpen
  <2>7. ASSUME NEW u \in Unlinkers, UnlinkDelete(u) PROVE AlwaysOpen'
    BY <2>1, <2>7, DeleteOpen
  <2>8. CASE UNCHANGED accountVars
    BY <2>1, <2>8, SameOpen DEF accountVars, dbVars, unlinkVars
  <2> QED
    BY <2>2, <2>3, <2>4, <2>5, <2>6, <2>7, <2>8 DEF AccountsNext
<1>2. AlwaysOpen => StrandedNeedsRace
  BY DEF AlwaysOpen, Opens, StrandedNeedsRace, Stranded, IdentitiesOf
<1> QED
  BY <1>1, <1>2, OpenInit, PTL DEF AccountsSpec

-----------------------------------------------------------------------------
(* The shard map.                                                          *)

Span == Int \X Int
Cluster == [name : STRING, ranges : Seq(Span)]

\* The ranges the loop over the clusters has been through.
Seen(i, k) == i < at.cluster \/ (i = at.cluster /\ k < at.range)
SeenRange(i, k, l) ==
  i \in DOMAIN config /\ k \in DOMAIN Ranges(i) /\ Seen(i, k) /\ l \in Covered(Ranges(i)[k])

\* The shards that are taken are those of the ranges seen, each of one range.
RangesApart ==
  /\ \A i, k, l : SeenRange(i, k, l) => l \in Shards /\ byLogical[l] = i
  /\ \A i, k, j, m, l : SeenRange(i, k, l) /\ SeenRange(j, m, l) => k = m
  /\ \A l \in Shards : byLogical[l] # Nowhere => \E k : SeenRange(byLogical[l], k, l)

\* Clusters with names of their own keep the pools that were dialled for them.
Dialled ==
  /\ \A i \in open : i \in DOMAIN config /\ pools[config[i].name] = i
  /\ \A i \in DOMAIN config : i < at.cluster => i \in open

ShardsInv ==
  /\ config \in Seq(Cluster) /\ ShardingTypeOK
  /\ stage = "map" => RangesApart /\ open = {}
  /\ stage \in {"dial", "ready"} => Partition
  /\ stage \in {"dial", "ready"} /\ DistinctNames => Dialled
  /\ stage = "ready" => at.cluster > Len(config)
  /\ stage = "refused" /\ DistinctNames => open = {}

-----------------------------------------------------------------------------
LEMMA MapTyped ==
  ASSUME config \in Seq(Cluster)
  PROVE  /\ \A i \in DOMAIN config : i \in Nat /\ i <= Len(config) /\ Ranges(i) \in Seq(Span)
         /\ \A i \in DOMAIN config : \A k \in DOMAIN Ranges(i) :
              k \in Nat /\ 0 < k /\ k <= Len(Ranges(i)) /\ Ranges(i)[k] \in Span
<1>1. ASSUME NEW i \in DOMAIN config
      PROVE  i \in Nat /\ i <= Len(config) /\ Ranges(i) \in Seq(Span)
  <2>1. i \in Nat /\ i <= Len(config) /\ config[i] \in Cluster
    OBVIOUS
  <2> QED
    BY <2>1 DEF Ranges, Cluster
<1>2. ASSUME NEW i \in DOMAIN config, NEW k \in DOMAIN Ranges(i)
      PROVE  k \in Nat /\ 0 < k /\ k <= Len(Ranges(i)) /\ Ranges(i)[k] \in Span
  BY <1>1
<1> QED
  BY <1>1, <1>2

LEMMA ShardsInit == ShardingInit => ShardsInv
<1> SUFFICES ASSUME ShardingInit PROVE ShardsInv
  OBVIOUS
<1>1. /\ config \in Seq(Cluster)
      /\ stage = "map" /\ at = [cluster |-> 1, range |-> 1] /\ open = {}
      /\ byLogical = [l \in Shards |-> Nowhere] /\ pools = [n \in Names |-> Nowhere]
  BY ShardingAssumption DEF ShardingInit, Cluster, Span
<1>2. Len(config) \in Nat
  BY <1>1
<1>3. ShardingTypeOK
  BY <1>1, <1>2 DEF ShardingTypeOK
<1>4. \A i, k : i \in DOMAIN config /\ k \in DOMAIN Ranges(i) => ~Seen(i, k)
  <2> SUFFICES ASSUME NEW i \in DOMAIN config, NEW k \in DOMAIN Ranges(i) PROVE ~Seen(i, k)
    OBVIOUS
  <2>1. i \in 1 .. Len(config) /\ k \in Nat /\ 0 < k
    BY <1>1, <1>2, MapTyped
  <2> QED
    BY <1>1, <2>1 DEF Seen
<1>5. RangesApart
  BY <1>1, <1>4 DEF RangesApart, SeenRange
<1> QED
  BY <1>1, <1>3, <1>5 DEF ShardsInv

\* A range that is taken has not been seen, and comes next.
LEMMA TakeKeeps == ASSUME ShardsInv, TakeRange PROVE ShardsInv'
<1> DEFINE c == at.cluster   r == Ranges(at.cluster)[at.range]
<1>1. /\ stage = "map" /\ c \in DOMAIN config /\ at.range \in DOMAIN Ranges(c)
      /\ c \in Nat /\ at.range \in Nat /\ UNCHANGED <<config, pools, open>>
      /\ config \in Seq(Cluster)
  <2>1. /\ stage = "map" /\ c <= Len(config) /\ at.range <= Len(Ranges(c))
        /\ UNCHANGED <<config, pools, open>>
    BY DEF TakeRange
  <2>2. /\ config \in Seq(Cluster)
        /\ at \in [cluster : 1 .. (Len(config) + 1), range : Nat \ {0}]
    BY DEF ShardsInv, ShardingTypeOK
  <2>3. c \in DOMAIN config /\ c \in Nat
    BY <2>1, <2>2
  <2>4. Ranges(c) \in Seq(Span)
    BY <2>2, <2>3, MapTyped
  <2> QED
    BY <2>1, <2>2, <2>3, <2>4
<1>2. CASE ~(Proper(r) /\ Free(r))
  <2>1. stage' = "refused" /\ UNCHANGED <<byLogical, at>>
    BY <1>2 DEF TakeRange
  <2> QED
    BY <1>1, <2>1 DEF ShardsInv, ShardingTypeOK, Names
<1>3. CASE Proper(r) /\ Free(r)
  <2>1. /\ byLogical' = [l \in Shards |-> IF l \in Covered(r) THEN c ELSE byLogical[l]]
        /\ at' = [at EXCEPT !.range = @ + 1] /\ stage' = "map"
    BY <1>1, <1>3 DEF TakeRange
  <2>2. /\ at' \in [cluster : 1 .. (Len(config) + 1), range : Nat \ {0}]
        /\ at'.cluster = c /\ at'.range = at.range + 1
        /\ byLogical \in [Shards -> DOMAIN config \cup {Nowhere}]
    <3>1. /\ at \in [cluster : 1 .. (Len(config) + 1), range : Nat \ {0}]
          /\ byLogical \in [Shards -> DOMAIN config \cup {Nowhere}]
      BY DEF ShardsInv, ShardingTypeOK
    <3> QED
      BY <2>1, <3>1
  <2>3. byLogical' \in [Shards -> DOMAIN config \cup {Nowhere}]
    BY <1>1, <2>1, <2>2
  <2>4. ShardingTypeOK'
    BY <1>1, <2>1, <2>2, <2>3 DEF ShardsInv, ShardingTypeOK, Names
  <2>5. r \in Int \X Int /\ NumLogicalShards \in Nat
    BY <1>1, MapTyped, ShardingAssumption DEF Span
  <2>6. \A l \in Covered(r) : l \in Shards /\ byLogical[l] = Nowhere
    <3> SUFFICES ASSUME NEW l \in Covered(r) PROVE l \in Shards
      BY <1>3 DEF Free
    <3>1. r[1] \in Int /\ r[2] \in Int /\ l \in Int /\ r[1] <= l /\ l <= r[2]
      BY <2>5 DEF Covered
    <3> QED
      BY <1>3, <2>5, <3>1 DEF Proper, Shards
  <2>7. \A i, k, l : SeenRange(i, k, l)' <=>
          SeenRange(i, k, l) \/ (i = c /\ k = at.range /\ l \in Covered(r))
    <3>1. \A i \in DOMAIN config : i \in Nat /\ \A k \in DOMAIN Ranges(i) : k \in Nat
      BY <1>1, MapTyped
    <3>2. \A i \in DOMAIN config : \A k \in DOMAIN Ranges(i) :
            Seen(i, k)' <=> Seen(i, k) \/ (i = c /\ k = at.range)
      BY <1>1, <2>2, <3>1 DEF Seen
    <3> QED
      BY <1>1, <3>2 DEF SeenRange, Ranges
  <2> DEFINE Was(i, k, l) == SeenRange(i, k, l)
             Is(i, k, l) == SeenRange(i, k, l)'
             b == byLogical   b2 == byLogical'
  <2>8. /\ \A i, k, l : Was(i, k, l) => l \in Shards /\ b[l] = i
        /\ \A i, k, j, m, l : Was(i, k, l) /\ Was(j, m, l) => k = m
        /\ \A l \in Shards : b[l] # Nowhere => \E k : Was(b[l], k, l)
    BY <1>1 DEF ShardsInv, RangesApart
  <2>9. \A i, k, l : Was(i, k, l) => i # Nowhere
    BY <1>1 DEF SeenRange, Nowhere
  <2>10. \A l : /\ l \in Covered(r) => l \in Shards /\ b[l] = Nowhere /\ b2[l] = c
                /\ l \in Shards \ Covered(r) => b2[l] = b[l]
    BY <2>1, <2>6
  <2>11. \A i, k, l : Is(i, k, l) <=> Was(i, k, l) \/ (i = c /\ k = at.range /\ l \in Covered(r))
    BY <2>7
  <2> HIDE DEF Was, Is, b, b2, c, r
  <2>12. /\ \A i, k, l : Is(i, k, l) => l \in Shards /\ b2[l] = i
         /\ \A i, k, j, m, l : Is(i, k, l) /\ Is(j, m, l) => k = m
    BY <2>8, <2>9, <2>10, <2>11
  <2>13. ASSUME NEW l \in Shards, NEW i, b2[l] = i, i # Nowhere PROVE \E k : Is(i, k, l)
    <3>1. CASE l \in Covered(r)
      BY <3>1, <2>10, <2>11, <2>13
    <3>2. CASE l \notin Covered(r)
      <4>1. b[l] = i
        BY <3>2, <2>10, <2>13
      <4>2. \E k : Was(i, k, l)
        BY <4>1, <2>8, <2>13
      <4> QED
        BY <4>2, <2>11
    <3> QED
      BY <3>1, <3>2
  <2>14. RangesApart'
    BY <2>12, <2>13 DEF RangesApart, Is, b2, Shards
  <2> QED
    BY <1>1, <2>1, <2>4, <2>14 DEF ShardsInv
<1> QED
  BY <1>2, <1>3

LEMMA NextKeeps == ASSUME ShardsInv, NextCluster PROVE ShardsInv'
<1>1. /\ stage = "map" /\ at.cluster <= Len(config) /\ at.range > Len(Ranges(at.cluster))
      /\ at' = [cluster |-> at.cluster + 1, range |-> 1]
      /\ UNCHANGED <<config, stage, byLogical, pools, open>>
      /\ config \in Seq(Cluster)
      /\ at \in [cluster : 1 .. (Len(config) + 1), range : Nat \ {0}]
  BY DEF NextCluster, ShardsInv, ShardingTypeOK
<1>2. ShardingTypeOK'
  <2>1. at' \in [cluster : 1 .. (Len(config) + 1), range : Nat \ {0}]
    BY <1>1
  <2> QED
    BY <1>1, <2>1 DEF ShardsInv, ShardingTypeOK, Names
<1>3. \A i \in DOMAIN config : \A k \in DOMAIN Ranges(i) : Seen(i, k)' <=> Seen(i, k)
  <2> SUFFICES ASSUME NEW i \in DOMAIN config, NEW k \in DOMAIN Ranges(i)
               PROVE Seen(i, k)' <=> Seen(i, k)
    OBVIOUS
  <2>1. i \in Nat /\ Ranges(i) \in Seq(Span)
    BY <1>1, MapTyped
  <2>2. k \in Nat /\ k <= Len(Ranges(i)) /\ Len(Ranges(i)) \in Nat
    BY <1>1, <2>1, MapTyped
  <2>3. i = at.cluster => k < at.range
    BY <1>1, <2>2
  <2>4. at.cluster \in Nat /\ at'.cluster = at.cluster + 1 /\ at'.range = 1 /\ at.range \in Nat
    BY <1>1
  <2> QED
    BY <2>1, <2>2, <2>3, <2>4 DEF Seen
<1>4. \A i, k, l : SeenRange(i, k, l)' <=> SeenRange(i, k, l)
  BY <1>1, <1>3 DEF SeenRange, Ranges
<1>5. RangesApart'
  BY <1>1, <1>4 DEF ShardsInv, RangesApart
<1> QED
  BY <1>1, <1>2, <1>5 DEF ShardsInv

\* Once every range is seen and no shard is free, the ranges are a partition.
LEMMA CheckKeeps == ASSUME ShardsInv, Check PROVE ShardsInv'
<1>1. /\ stage = "map" /\ at.cluster > Len(config) /\ at' = [cluster |-> 1, range |-> 1]
      /\ stage' = IF \E l \in Shards : byLogical[l] = Nowhere THEN "refused" ELSE "dial"
      /\ UNCHANGED <<config, byLogical, pools, open>> /\ open = {} /\ RangesApart
      /\ config \in Seq(Cluster)
      /\ byLogical \in [Shards -> DOMAIN config \cup {Nowhere}]
  BY DEF Check, ShardsInv, ShardingTypeOK
<1>2. Len(config) \in Nat /\ stage' \in {"refused", "dial"} /\ at'.cluster = 1
  BY <1>1
<1>3. ShardingTypeOK'
  <2>1. at' \in [cluster : 1 .. (Len(config) + 1), range : Nat \ {0}]
    BY <1>1, <1>2
  <2> QED
    BY <1>1, <1>2, <2>1 DEF ShardsInv, ShardingTypeOK, Names
<1>4. ASSUME stage' = "dial" PROVE Partition
  <2>1. \A i \in DOMAIN config : \A k : Seen(i, k)
    <3>1. at.cluster \in Nat /\ \A i \in DOMAIN config : i \in Nat /\ i <= Len(config)
      BY <1>1 DEF ShardsInv, ShardingTypeOK
    <3> QED
      BY <1>1, <1>2, <3>1 DEF Seen
  <2> SUFFICES ASSUME NEW l \in Shards
               PROVE \E i \in DOMAIN config : \E k \in DOMAIN Ranges(i) :
                       /\ l \in Covered(Ranges(i)[k]) /\ byLogical[l] = i
                       /\ \A j \in DOMAIN config : \A m \in DOMAIN Ranges(j) :
                            l \in Covered(Ranges(j)[m]) => j = i /\ m = k
    BY DEF Partition
  <2>2. byLogical[l] # Nowhere
    BY <1>1, <1>4
  <2>3. PICK k : SeenRange(byLogical[l], k, l)
    BY <1>1, <2>2 DEF RangesApart
  <2>4. \A j \in DOMAIN config : \A m \in DOMAIN Ranges(j) :
          l \in Covered(Ranges(j)[m]) => SeenRange(j, m, l)
    BY <2>1 DEF SeenRange
  <2>5. \A j, m : SeenRange(j, m, l) => j = byLogical[l] /\ m = k
    BY <1>1, <2>3 DEF RangesApart
  <2>6. /\ byLogical[l] \in DOMAIN config /\ k \in DOMAIN Ranges(byLogical[l])
        /\ l \in Covered(Ranges(byLogical[l])[k])
    BY <2>3 DEF SeenRange
  <2> QED
    BY <2>4, <2>5, <2>6
<1>5. Partition' <=> Partition
  BY <1>1 DEF Partition, Ranges
<1>6. Dialled'
  <2>1. \A i \in DOMAIN config : ~(i < 1)
    BY <1>1
  <2> QED
    BY <1>1, <1>2, <2>1 DEF Dialled
<1> QED
  BY <1>1, <1>2, <1>3, <1>4, <1>5, <1>6 DEF ShardsInv

LEMMA DialKeeps == ASSUME ShardsInv, Dial PROVE ShardsInv'
<1> DEFINE c == at.cluster
<1>1. /\ stage = "dial" /\ c <= Len(config)
      /\ pools' = [pools EXCEPT ![config[c].name] = c]
      /\ open' = open \cup {c} /\ at' = [at EXCEPT !.cluster = @ + 1]
      /\ UNCHANGED <<config, stage, byLogical>>
      /\ config \in Seq(Cluster)
      /\ at \in [cluster : 1 .. (Len(config) + 1), range : Nat \ {0}]
      /\ pools \in [Names -> DOMAIN config \cup {Nowhere}] /\ open \subseteq DOMAIN config
  BY DEF Dial, ShardsInv, ShardingTypeOK
<1>2. c \in DOMAIN config /\ config[c].name \in Names /\ c \in Nat /\ at'.cluster = c + 1
  <2>1. c \in DOMAIN config /\ c \in Nat /\ at'.cluster = c + 1
    BY <1>1
  <2> QED
    BY <2>1 DEF Names
<1>3. ShardingTypeOK'
  <2>1. at' \in [cluster : 1 .. (Len(config) + 1), range : Nat \ {0}]
    <3>1. c + 1 \in 1 .. (Len(config) + 1)
      BY <1>1, <1>2
    <3> QED
      BY <1>1, <3>1
  <2>2. pools' \in [Names -> DOMAIN config \cup {Nowhere}] /\ open' \subseteq DOMAIN config
    BY <1>1, <1>2
  <2> QED
    BY <1>1, <2>1, <2>2 DEF ShardsInv, ShardingTypeOK, Names
<1>4. Partition'
  <2>1. Partition
    BY <1>1 DEF ShardsInv
  <2> QED
    BY <1>1, <2>1 DEF Partition, Ranges
<1>5. ASSUME DistinctNames PROVE Dialled'
  <2>1. Dialled /\ \A i \in DOMAIN config : i \in Nat
    BY <1>1, <1>5 DEF ShardsInv
  <2>2. \A i \in DOMAIN config : i # c => config[i].name # config[c].name
    BY <1>2, <1>5 DEF DistinctNames
  <2>3. \A i \in DOMAIN config : config[i].name \in Names
    BY DEF Names
  <2>4. \A i \in open' : i \in DOMAIN config /\ pools'[config[i].name] = i
    BY <1>1, <1>2, <2>1, <2>2, <2>3 DEF Dialled
  <2>5. \A i \in DOMAIN config : i < c + 1 => i \in open'
    BY <1>1, <1>2, <2>1 DEF Dialled
  <2> QED
    BY <1>1, <1>2, <2>4, <2>5 DEF Dialled
<1>6. DistinctNames' <=> DistinctNames
  BY <1>1 DEF DistinctNames
<1> QED
  BY <1>1, <1>3, <1>4, <1>5, <1>6 DEF ShardsInv

LEMMA StopKeeps == ASSUME ShardsInv, DialFails \/ Ready \/ UNCHANGED shardVars PROVE ShardsInv'
<1>1. UNCHANGED <<config, at, byLogical, pools>>
  BY DEF DialFails, Ready, shardVars
<1>2. /\ Partition' <=> Partition
      /\ DistinctNames' <=> DistinctNames
      /\ open' = open => (Dialled' <=> Dialled)
      /\ open' = open /\ stage' = stage => (RangesApart' <=> RangesApart)
  BY <1>1 DEF Partition, Ranges, DistinctNames, Dialled, RangesApart, SeenRange, Seen
<1>3. CASE DialFails
  <2>1. stage = "dial" /\ stage' = "refused" /\ open' = open \ { pools[n] : n \in Names }
    BY <1>3 DEF DialFails
  <2>2. ASSUME DistinctNames PROVE open' = {}
    <3>1. Dialled /\ \A i \in DOMAIN config : config[i].name \in Names
      BY <2>1, <2>2 DEF ShardsInv, Names
    <3> QED
      BY <2>1, <3>1 DEF Dialled
  <2> QED
    BY <1>1, <1>2, <2>1, <2>2 DEF ShardsInv, ShardingTypeOK, Names
<1>4. CASE Ready
  BY <1>1, <1>2, <1>4 DEF Ready, ShardsInv, ShardingTypeOK, Names
<1>5. CASE UNCHANGED shardVars
  BY <1>1, <1>2, <1>5 DEF shardVars, ShardsInv, ShardingTypeOK, Names
<1> QED
  BY <1>3, <1>4, <1>5

\* Whatever ranges a shard map lists, in whatever order, and whichever dial fails: the
\* accepted ones are partitions, served by the pools dialled for them.
THEOREM RouterSound == ShardingSpec => []ShardsServed
<1>1. ShardsInv /\ [ShardingNext]_shardVars => ShardsInv'
  BY TakeKeeps, NextKeeps, CheckKeeps, DialKeeps, StopKeeps DEF ShardingNext
<1>2. ShardsInv => ShardsServed
  <2> SUFFICES ASSUME ShardsInv, DistinctNames, stage = "ready", NEW l \in Shards
               PROVE PoolOf(l) = byLogical[l]
    BY DEF ShardsInv, ShardsServed
  <2>1. /\ Partition /\ Dialled /\ at.cluster > Len(config) /\ at.cluster \in Nat
        /\ config \in Seq(Cluster)
    BY DEF ShardsInv, ShardingTypeOK
  <2>2. byLogical[l] \in DOMAIN config
    BY <2>1 DEF Partition
  <2>3. byLogical[l] < at.cluster
    BY <2>1, <2>2
  <2> QED
    BY <2>1, <2>2, <2>3 DEF Dialled, PoolOf
<1> QED
  BY <1>1, <1>2, ShardsInit, PTL DEF ShardingSpec

-----------------------------------------------------------------------------
(* One call of the API: what its client cannot decode.                     *)

Apart(parts) == \A t, u \in parts : \A o : o \in DOMAIN t /\ o \in DOMAIN u => t = u

LEMMA PartOf ==
  ASSUME NEW parts, Apart(parts), NEW t \in parts, NEW o \in DOMAIN t
  PROVE  Merge(parts)[o] = t[o]
<1> DEFINE u == CHOOSE v \in parts : o \in DOMAIN v
<1>1. u \in parts /\ o \in DOMAIN u
  OBVIOUS
<1>2. Merge(parts)[o] = u[o]
  BY DEF Merge
<1> HIDE DEF u
<1> QED
  BY <1>1, <1>2 DEF Apart

\* The parts of each table have no operation in common.
DecodedTables ==
  {SessionAnswers, OauthAnswers, RegisterAnswers, MediaAnswers, ReaderAnswers,
   TweetAnswers, LikeAnswers, UserAnswers, FollowAnswers, ListAnswers}
SentTables ==
  {SessionRequests, OauthRequests, RegisterRequests, MediaRequests, ReaderRequests,
   TweetRequests, LikeRequests, UserRequests, FollowRequests, ListRequests}

LEMMA DecodedAre == \A t \in DecodedTables : \A o \in DOMAIN t : Decoded[o] = t[o]
<1>1. /\ DOMAIN SessionAnswers = {"Login", "Logout", "OauthCallback"}
      /\ DOMAIN OauthAnswers = {"OauthUnlink", "OauthLink", "OauthStart", "ListAuthProviders"}
      /\ DOMAIN RegisterAnswers = {"RefreshToken", "Register", "CreateMedia"}
      /\ DOMAIN MediaAnswers = {"GetMedia", "CompleteMedia", "ListNotifications"}
      /\ DOMAIN ReaderAnswers = {"MarkNotificationsRead", "GetUnreadCount", "GetHomeTimeline"}
      /\ DOMAIN TweetAnswers = {"CreateTweet", "DeleteTweet", "GetTweet"}
      /\ DOMAIN LikeAnswers = {"UnlikeTweet", "LikeTweet", "GetMe"}
      /\ DOMAIN UserAnswers = {"UpdateMe", "GetUser", "UnfollowUser"}
      /\ DOMAIN FollowAnswers = {"FollowUser", "ListFollowers"}
      /\ DOMAIN ListAnswers = {"ListFollowing", "GetUserTweets"}
  BY DEF SessionAnswers, OauthAnswers, RegisterAnswers, MediaAnswers, ReaderAnswers,
     TweetAnswers, LikeAnswers, UserAnswers, FollowAnswers, ListAnswers
<1>2. Apart(DecodedTables)
  BY <1>1 DEF Apart, DecodedTables
<1>3. Decoded = Merge(DecodedTables)
  BY DEF Decoded, DecodedTables
<1> QED
  BY <1>2, <1>3, PartOf

LEMMA SentAre == \A t \in SentTables : \A o \in DOMAIN t : Sent[o] = t[o]
<1>1. /\ DOMAIN SessionRequests = {"Login", "Logout", "OauthCallback"}
      /\ DOMAIN OauthRequests = {"OauthUnlink", "OauthLink", "OauthStart", "ListAuthProviders"}
      /\ DOMAIN RegisterRequests = {"RefreshToken", "Register", "CreateMedia"}
      /\ DOMAIN MediaRequests = {"GetMedia", "CompleteMedia", "ListNotifications"}
      /\ DOMAIN ReaderRequests = {"MarkNotificationsRead", "GetUnreadCount", "GetHomeTimeline"}
      /\ DOMAIN TweetRequests = {"CreateTweet", "DeleteTweet", "GetTweet"}
      /\ DOMAIN LikeRequests = {"UnlikeTweet", "LikeTweet", "GetMe"}
      /\ DOMAIN UserRequests = {"UpdateMe", "GetUser", "UnfollowUser"}
      /\ DOMAIN FollowRequests = {"FollowUser", "ListFollowers"}
      /\ DOMAIN ListRequests = {"ListFollowing", "GetUserTweets"}
  BY DEF SessionRequests, OauthRequests, RegisterRequests, MediaRequests, ReaderRequests,
     TweetRequests, LikeRequests, UserRequests, FollowRequests, ListRequests
<1>2. Apart(SentTables)
  BY <1>1 DEF Apart, SentTables
<1>3. Sent = Merge(SentTables)
  BY DEF Sent, SentTables
<1> QED
  BY <1>2, <1>3, PartOf

\* An entry of a table is an entry of one of its parts.
LEMMA EveryPart ==
  ASSUME NEW parts, NEW o \in DOMAIN Merge(parts)
  PROVE  \E t \in parts : o \in DOMAIN t /\ Merge(parts)[o] = t[o]
<1>1. \E t \in parts : o \in DOMAIN t
  BY DEF Merge
<1> QED
  BY <1>1 DEF Merge

Decodes401(o, w) == w.secured => 401 \in Decoded[o]
AsksForSent(o, w) == w.required \subseteq Sent[o]
Keyless(o) == Method[o] # "GET" /\ o \notin idemSkip /\ Key \notin Sent[o]
Listed(o, h) ==
  \A s \in h.says :
    s \in {204, 302, 500} \cup Decoded[o] \/ <<o, s>> \in Gaps \/ (s = 400 /\ Keyless(o))

LEMMA Secured401 == \A o \in Operations : Decodes401(o, Wrapper[o])
<1>1. \A o \in DOMAIN SessionWrappers : Decodes401(o, SessionWrappers[o])
  <2>1. /\ \A o \in DOMAIN SessionAnswers : Decoded[o] = SessionAnswers[o]
        /\ \A o \in DOMAIN OauthAnswers : Decoded[o] = OauthAnswers[o]
    BY DecodedAre DEF DecodedTables
  <2> QED
    BY <2>1 DEF Decodes401, Open, Secured, SessionWrappers, SessionAnswers, OauthAnswers
<1>2. \A o \in DOMAIN SignInWrappers : Decodes401(o, SignInWrappers[o])
  <2>1. /\ \A o \in DOMAIN OauthAnswers : Decoded[o] = OauthAnswers[o]
        /\ \A o \in DOMAIN RegisterAnswers : Decoded[o] = RegisterAnswers[o]
    BY DecodedAre DEF DecodedTables
  <2> QED
    BY <2>1 DEF Decodes401, Open, Secured, SignInWrappers, OauthAnswers, RegisterAnswers
<1>3. \A o \in DOMAIN MediaWrappers : Decodes401(o, MediaWrappers[o])
  <2>1. /\ \A o \in DOMAIN RegisterAnswers : Decoded[o] = RegisterAnswers[o]
        /\ \A o \in DOMAIN MediaAnswers : Decoded[o] = MediaAnswers[o]
    BY DecodedAre DEF DecodedTables
  <2> QED
    BY <2>1 DEF Decodes401, Open, Secured, MediaWrappers, RegisterAnswers, MediaAnswers
<1>4. \A o \in DOMAIN NotificationWrappers : Decodes401(o, NotificationWrappers[o])
  <2>1. /\ \A o \in DOMAIN MediaAnswers : Decoded[o] = MediaAnswers[o]
        /\ \A o \in DOMAIN ReaderAnswers : Decoded[o] = ReaderAnswers[o]
    BY DecodedAre DEF DecodedTables
  <2> QED
    BY <2>1 DEF Decodes401, Open, Secured, NotificationWrappers, MediaAnswers, ReaderAnswers
<1>5. \A o \in DOMAIN TweetWrappers : Decodes401(o, TweetWrappers[o])
  <2>1. /\ \A o \in DOMAIN ReaderAnswers : Decoded[o] = ReaderAnswers[o]
        /\ \A o \in DOMAIN TweetAnswers : Decoded[o] = TweetAnswers[o]
    BY DecodedAre DEF DecodedTables
  <2> QED
    BY <2>1 DEF Decodes401, Open, Secured, TweetWrappers, ReaderAnswers, TweetAnswers
<1>6. \A o \in DOMAIN LikeWrappers : Decodes401(o, LikeWrappers[o])
  <2>1. /\ \A o \in DOMAIN TweetAnswers : Decoded[o] = TweetAnswers[o]
        /\ \A o \in DOMAIN LikeAnswers : Decoded[o] = LikeAnswers[o]
    BY DecodedAre DEF DecodedTables
  <2> QED
    BY <2>1 DEF Decodes401, Open, Secured, LikeWrappers, TweetAnswers, LikeAnswers
<1>7. \A o \in DOMAIN UserWrappers : Decodes401(o, UserWrappers[o])
  <2>1. /\ \A o \in DOMAIN LikeAnswers : Decoded[o] = LikeAnswers[o]
        /\ \A o \in DOMAIN UserAnswers : Decoded[o] = UserAnswers[o]
    BY DecodedAre DEF DecodedTables
  <2> QED
    BY <2>1 DEF Decodes401, Open, Secured, UserWrappers, LikeAnswers, UserAnswers
<1>8. \A o \in DOMAIN FollowWrappers : Decodes401(o, FollowWrappers[o])
  <2>1. /\ \A o \in DOMAIN FollowAnswers : Decoded[o] = FollowAnswers[o]
        /\ \A o \in DOMAIN ListAnswers : Decoded[o] = ListAnswers[o]
    BY DecodedAre DEF DecodedTables
  <2> QED
    BY <2>1 DEF Decodes401, Open, Secured, FollowWrappers, FollowAnswers, ListAnswers
<1>9. Wrapper = Merge({SessionWrappers, SignInWrappers, MediaWrappers, NotificationWrappers,
         TweetWrappers, LikeWrappers, UserWrappers, FollowWrappers})
  BY DEF Wrapper
<1>10. Operations \subseteq DOMAIN Wrapper
  BY <1>9 DEF Merge, Operations, Method, SessionWrappers, SignInWrappers, MediaWrappers,
     NotificationWrappers,
     TweetWrappers, LikeWrappers, UserWrappers, FollowWrappers
<1> QED
  BY <1>1, <1>2, <1>3, <1>4, <1>5, <1>6, <1>7, <1>8, <1>9, <1>10, EveryPart DEF Merge

LEMMA SentSuffices == \A o \in Operations : AsksForSent(o, Wrapper[o])
<1>1. \A o \in DOMAIN SessionWrappers : AsksForSent(o, SessionWrappers[o])
  <2>1. /\ \A o \in DOMAIN SessionRequests : Sent[o] = SessionRequests[o]
        /\ \A o \in DOMAIN OauthRequests : Sent[o] = OauthRequests[o]
    BY SentAre DEF SentTables
  <2> QED
    BY <2>1 DEF AsksForSent, Open, Secured, Key, SessionWrappers, SessionRequests, OauthRequests
<1>2. \A o \in DOMAIN SignInWrappers : AsksForSent(o, SignInWrappers[o])
  <2>1. /\ \A o \in DOMAIN OauthRequests : Sent[o] = OauthRequests[o]
        /\ \A o \in DOMAIN RegisterRequests : Sent[o] = RegisterRequests[o]
    BY SentAre DEF SentTables
  <2> QED
    BY <2>1 DEF AsksForSent, Open, Secured, Key, SignInWrappers, OauthRequests, RegisterRequests
<1>3. \A o \in DOMAIN MediaWrappers : AsksForSent(o, MediaWrappers[o])
  <2>1. /\ \A o \in DOMAIN RegisterRequests : Sent[o] = RegisterRequests[o]
        /\ \A o \in DOMAIN MediaRequests : Sent[o] = MediaRequests[o]
    BY SentAre DEF SentTables
  <2> QED
    BY <2>1 DEF AsksForSent, Open, Secured, Key, MediaWrappers, RegisterRequests, MediaRequests
<1>4. \A o \in DOMAIN NotificationWrappers : AsksForSent(o, NotificationWrappers[o])
  <2>1. /\ \A o \in DOMAIN MediaRequests : Sent[o] = MediaRequests[o]
        /\ \A o \in DOMAIN ReaderRequests : Sent[o] = ReaderRequests[o]
    BY SentAre DEF SentTables
  <2> QED
    BY <2>1 DEF AsksForSent, Open, Secured, Key, NotificationWrappers, MediaRequests,
       ReaderRequests
<1>5. \A o \in DOMAIN TweetWrappers : AsksForSent(o, TweetWrappers[o])
  <2>1. /\ \A o \in DOMAIN ReaderRequests : Sent[o] = ReaderRequests[o]
        /\ \A o \in DOMAIN TweetRequests : Sent[o] = TweetRequests[o]
    BY SentAre DEF SentTables
  <2> QED
    BY <2>1 DEF AsksForSent, Open, Secured, Key, TweetWrappers, ReaderRequests, TweetRequests
<1>6. \A o \in DOMAIN LikeWrappers : AsksForSent(o, LikeWrappers[o])
  <2>1. /\ \A o \in DOMAIN TweetRequests : Sent[o] = TweetRequests[o]
        /\ \A o \in DOMAIN LikeRequests : Sent[o] = LikeRequests[o]
    BY SentAre DEF SentTables
  <2> QED
    BY <2>1 DEF AsksForSent, Open, Secured, Key, LikeWrappers, TweetRequests, LikeRequests
<1>7. \A o \in DOMAIN UserWrappers : AsksForSent(o, UserWrappers[o])
  <2>1. /\ \A o \in DOMAIN LikeRequests : Sent[o] = LikeRequests[o]
        /\ \A o \in DOMAIN UserRequests : Sent[o] = UserRequests[o]
    BY SentAre DEF SentTables
  <2> QED
    BY <2>1 DEF AsksForSent, Open, Secured, Key, UserWrappers, LikeRequests, UserRequests
<1>8. \A o \in DOMAIN FollowWrappers : AsksForSent(o, FollowWrappers[o])
  <2>1. /\ \A o \in DOMAIN FollowRequests : Sent[o] = FollowRequests[o]
        /\ \A o \in DOMAIN ListRequests : Sent[o] = ListRequests[o]
    BY SentAre DEF SentTables
  <2> QED
    BY <2>1 DEF AsksForSent, Open, Secured, Key, FollowWrappers, FollowRequests, ListRequests
<1>9. Wrapper = Merge({SessionWrappers, SignInWrappers, MediaWrappers, NotificationWrappers,
         TweetWrappers, LikeWrappers, UserWrappers, FollowWrappers})
  BY DEF Wrapper
<1>10. Operations \subseteq DOMAIN Wrapper
  BY <1>9 DEF Merge, Operations, Method, SessionWrappers, SignInWrappers, MediaWrappers,
     NotificationWrappers,
     TweetWrappers, LikeWrappers, UserWrappers, FollowWrappers
<1> QED
  BY <1>1, <1>2, <1>3, <1>4, <1>5, <1>6, <1>7, <1>8, <1>9, <1>10, EveryPart DEF Merge

LEMMA HandlersListed == \A o \in Operations : Listed(o, Handler[o])
<1>1. \A o \in DOMAIN AuthHandlers : Listed(o, AuthHandlers[o])
  <2>1. /\ \A o \in DOMAIN SessionAnswers : Decoded[o] = SessionAnswers[o]
        /\ \A o \in DOMAIN RegisterAnswers : Decoded[o] = RegisterAnswers[o]
    BY DecodedAre DEF DecodedTables
  <2> QED
    BY <2>1 DEF Listed, Gaps, HandlerGaps, Anyone, User, AuthHandlers, SessionAnswers, RegisterAnswers
<1>2. \A o \in DOMAIN OAuthHandlers : Listed(o, OAuthHandlers[o])
  <2>1. /\ \A o \in DOMAIN SessionAnswers : Decoded[o] = SessionAnswers[o]
        /\ \A o \in DOMAIN OauthAnswers : Decoded[o] = OauthAnswers[o]
    BY DecodedAre DEF DecodedTables
  <2> QED
    BY <2>1 DEF Listed, Gaps, HandlerGaps, Anyone, User, OAuthHandlers, SessionAnswers, OauthAnswers
<1>3. \A o \in DOMAIN UsersHandlers : Listed(o, UsersHandlers[o])
  <2>1. /\ \A o \in DOMAIN LikeAnswers : Decoded[o] = LikeAnswers[o]
        /\ \A o \in DOMAIN UserAnswers : Decoded[o] = UserAnswers[o]
        /\ \A o \in DOMAIN FollowAnswers : Decoded[o] = FollowAnswers[o]
    BY DecodedAre DEF DecodedTables
  <2> QED
    BY <2>1 DEF Listed, Gaps, HandlerGaps, Anyone, User, UsersHandlers, LikeAnswers, UserAnswers,
       FollowAnswers
<1>4. \A o \in DOMAIN EdgeHandlers : Listed(o, EdgeHandlers[o])
  <2>1. /\ \A o \in DOMAIN FollowAnswers : Decoded[o] = FollowAnswers[o]
        /\ \A o \in DOMAIN ListAnswers : Decoded[o] = ListAnswers[o]
    BY DecodedAre DEF DecodedTables
  <2> QED
    BY <2>1 DEF Listed, Gaps, HandlerGaps, Anyone, User, EdgeHandlers, FollowAnswers, ListAnswers
<1>5. \A o \in DOMAIN TweetsHandlers : Listed(o, TweetsHandlers[o])
  <2>1. \A o \in DOMAIN TweetAnswers : Decoded[o] = TweetAnswers[o]
    BY DecodedAre DEF DecodedTables
  <2>2. /\ Decoded["CreateTweet"] = {201, 400, 401, 404, 429}
        /\ Decoded["DeleteTweet"] = {401, 403, 404} /\ Decoded["GetTweet"] = {200, 404}
    BY <2>1 DEF TweetAnswers
  <2>3. /\ DOMAIN TweetsHandlers = {"CreateTweet", "DeleteTweet", "GetTweet"}
        /\ TweetsHandlers["CreateTweet"].says = {400, 404, 422, 500, 201}
        /\ TweetsHandlers["DeleteTweet"].says = {400, 404, 403, 500, 204}
        /\ TweetsHandlers["GetTweet"].says = {400, 404, 500, 200}
    BY DEF Anyone, User, TweetsHandlers
  <2>4. Listed("CreateTweet", TweetsHandlers["CreateTweet"])
    BY <2>2, <2>3 DEF Listed, Gaps, HandlerGaps
  <2>5. Listed("DeleteTweet", TweetsHandlers["DeleteTweet"])
    <3>1. Sent["DeleteTweet"] = {"id"}
      BY SentAre DEF SentTables, TweetRequests
    <3>2. Keyless("DeleteTweet")
      BY <3>1 DEF Keyless, Method, idemSkip, Key
    <3> QED
      BY <2>2, <2>3, <3>2 DEF Listed
  <2>6. Listed("GetTweet", TweetsHandlers["GetTweet"])
    BY <2>2, <2>3 DEF Listed, Gaps, HandlerGaps
  <2> QED
    BY <2>3, <2>4, <2>5, <2>6
<1>6. \A o \in DOMAIN LikesHandlers : Listed(o, LikesHandlers[o])
  <2>1. \A o \in DOMAIN LikeAnswers : Decoded[o] = LikeAnswers[o]
    BY DecodedAre DEF DecodedTables
  <2> QED
    BY <2>1 DEF Listed, Gaps, HandlerGaps, Anyone, User, LikesHandlers, LikeAnswers
<1>7. \A o \in DOMAIN MediaHandlers : Listed(o, MediaHandlers[o])
  <2>1. /\ \A o \in DOMAIN RegisterAnswers : Decoded[o] = RegisterAnswers[o]
        /\ \A o \in DOMAIN MediaAnswers : Decoded[o] = MediaAnswers[o]
    BY DecodedAre DEF DecodedTables
  <2> QED
    BY <2>1 DEF Listed, Gaps, HandlerGaps, Anyone, User, MediaHandlers, RegisterAnswers, MediaAnswers
<1>8. \A o \in DOMAIN NotificationsHandlers : Listed(o, NotificationsHandlers[o])
  <2>1. /\ \A o \in DOMAIN MediaAnswers : Decoded[o] = MediaAnswers[o]
        /\ \A o \in DOMAIN ReaderAnswers : Decoded[o] = ReaderAnswers[o]
    BY DecodedAre DEF DecodedTables
  <2> QED
    BY <2>1 DEF Listed, Gaps, HandlerGaps, Anyone, User, NotificationsHandlers, MediaAnswers, ReaderAnswers
<1>9. \A o \in DOMAIN TimelineHandlers : Listed(o, TimelineHandlers[o])
  <2>1. /\ \A o \in DOMAIN ReaderAnswers : Decoded[o] = ReaderAnswers[o]
        /\ \A o \in DOMAIN ListAnswers : Decoded[o] = ListAnswers[o]
    BY DecodedAre DEF DecodedTables
  <2> QED
    BY <2>1 DEF Listed, Gaps, HandlerGaps, Anyone, User, TimelineHandlers, ReaderAnswers, ListAnswers
<1>10. Handler = Merge({AuthHandlers, OAuthHandlers, UsersHandlers, EdgeHandlers, TweetsHandlers,
         LikesHandlers, MediaHandlers, NotificationsHandlers, TimelineHandlers})
  BY DEF Handler
<1>11. Operations \subseteq DOMAIN Handler
  BY <1>10 DEF Merge, Operations, Method, AuthHandlers, OAuthHandlers, UsersHandlers, EdgeHandlers,
     TweetsHandlers, LikesHandlers, MediaHandlers, NotificationsHandlers, TimelineHandlers
<1> QED
  BY <1>1, <1>2, <1>3, <1>4, <1>5, <1>6, <1>7, <1>8, <1>9, <1>10, <1>11, EveryPart DEF Merge

-----------------------------------------------------------------------------
\* The writes a key can lock out of the API: their contract knows the 409, or it is a gap.
InFlight(o) == Key \in Sent[o] => 409 \in Decoded[o] \/ <<o, 409>> \in Gaps

LEMMA InFlightListed == \A o \in Operations : InFlight(o)
<1>1. \A o \in DOMAIN SessionRequests \cup DOMAIN OauthRequests : InFlight(o)
  <2>1. /\ \A o \in DOMAIN SessionRequests : Sent[o] = SessionRequests[o]
        /\ \A o \in DOMAIN OauthRequests : Sent[o] = OauthRequests[o]
    BY SentAre DEF SentTables
  <2> QED
    BY <2>1 DEF InFlight, Key, SessionRequests, OauthRequests
<1>2. \A o \in DOMAIN RegisterRequests : InFlight(o)
  <2>1. /\ \A o \in DOMAIN RegisterRequests : Sent[o] = RegisterRequests[o]
        /\ \A o \in DOMAIN RegisterAnswers : Decoded[o] = RegisterAnswers[o]
    BY SentAre, DecodedAre DEF SentTables, DecodedTables
  <2> QED
    BY <2>1 DEF InFlight, Key, Gaps, InFlightGaps, RegisterRequests, RegisterAnswers
<1>3. \A o \in DOMAIN MediaRequests \cup DOMAIN ReaderRequests : InFlight(o)
  <2>1. /\ \A o \in DOMAIN MediaRequests : Sent[o] = MediaRequests[o]
        /\ \A o \in DOMAIN ReaderRequests : Sent[o] = ReaderRequests[o]
    BY SentAre DEF SentTables
  <2> QED
    BY <2>1 DEF InFlight, Key, Gaps, InFlightGaps, MediaRequests, ReaderRequests
<1>4. \A o \in DOMAIN TweetRequests \cup DOMAIN LikeRequests : InFlight(o)
  <2>1. /\ \A o \in DOMAIN TweetRequests : Sent[o] = TweetRequests[o]
        /\ \A o \in DOMAIN LikeRequests : Sent[o] = LikeRequests[o]
    BY SentAre DEF SentTables
  <2> QED
    BY <2>1 DEF InFlight, Key, Gaps, InFlightGaps, TweetRequests, LikeRequests
<1>5. \A o \in DOMAIN UserRequests \cup DOMAIN FollowRequests \cup DOMAIN ListRequests : InFlight(o)
  <2>1. /\ \A o \in DOMAIN UserRequests : Sent[o] = UserRequests[o]
        /\ \A o \in DOMAIN FollowRequests : Sent[o] = FollowRequests[o]
        /\ \A o \in DOMAIN ListRequests : Sent[o] = ListRequests[o]
    BY SentAre DEF SentTables
  <2> QED
    BY <2>1 DEF InFlight, Key, Gaps, InFlightGaps, UserRequests, FollowRequests, ListRequests
<1>6. \A o \in Operations :
        \/ o \in DOMAIN SessionRequests \cup DOMAIN OauthRequests \cup DOMAIN RegisterRequests
        \/ o \in DOMAIN MediaRequests \cup DOMAIN ReaderRequests \cup DOMAIN TweetRequests
        \/ o \in DOMAIN LikeRequests \cup DOMAIN UserRequests \cup DOMAIN FollowRequests
        \/ o \in DOMAIN ListRequests
  BY DEF Operations, Method, SessionRequests, OauthRequests, RegisterRequests, MediaRequests,
     ReaderRequests, TweetRequests, LikeRequests, UserRequests, FollowRequests, ListRequests
<1> QED
  BY <1>1, <1>2, <1>3, <1>4, <1>5, <1>6

-----------------------------------------------------------------------------
\* A replay hands out what is kept, so that is as expected as the answers; a try waits for
\* the lock only if the request has a key, which is what makes its 409 a listed gap.
AnswersInv ==
  /\ operation \in Operations /\ DOMAIN where = Tries /\ status = [t \in Tries |-> status[t]]
  /\ \A t \in Tries : Expected(status[t])
  /\ Expected(kept)
  /\ \A t \in Tries : where[t] = "lock" => Key \in Sent[operation]

LEMMA AnswersStep == AnswersInv /\ [ApiNext]_apiVars => AnswersInv'
<1> SUFFICES ASSUME AnswersInv, [ApiNext]_apiVars PROVE AnswersInv'
  OBVIOUS
<1>1. operation' = operation
  BY DEF ApiNext, AuthRateLimit, Lookup, TakeLock, BearerAuth, Bind, Serve, Record, LockRunsOut, apiVars
<1>2. \A s : Expected(s)' <=> Expected(s)
  BY <1>1 DEF Expected, InAuth, Bypasses
<1>3. /\ operation \in Operations /\ DOMAIN where = Tries /\ status = [t \in Tries |-> status[t]]
      /\ \A t \in Tries : Expected(status[t])
      /\ Expected(kept)
      /\ \A t \in Tries : where[t] = "lock" => Key \in Sent[operation]
  BY DEF AnswersInv
<1>4. Expected(401) /\ Expected(NoStatus) /\ Expected(500)
  BY <1>3, Secured401 DEF Expected, Decodes401
<1>5. ASSUME NEW t \in Tries, NEW s, Expected(s), NEW w, w = "lock" => Key \in Sent[operation],
             where' = [where EXCEPT ![t] = w], status' = [status EXCEPT ![t] = s],
             kept' \in {kept, status[t]}
      PROVE  AnswersInv'
  <2>1. DOMAIN where' = Tries /\ status' = [u \in Tries |-> status'[u]]
    BY <1>3, <1>5
  <2>2. \A u \in Tries : Expected(status'[u]) /\ (where'[u] = "lock" => Key \in Sent[operation])
    BY <1>3, <1>5
  <2>3. Expected(kept')
    BY <1>3, <1>5
  <2> QED
    BY <1>1, <1>2, <1>3, <2>1, <2>2, <2>3 DEF AnswersInv
<1>6. ASSUME NEW t \in Tries, NEW w, w = "lock" => Key \in Sent[operation], Onward(t, w),
             kept' \in {kept, status[t]}
      PROVE  AnswersInv'
  <2>1. status' = [status EXCEPT ![t] = status[t]]
    BY <1>3, <1>6 DEF Onward
  <2> QED
    BY <1>3, <1>5, <1>6, <2>1 DEF Onward
<1>7. ASSUME NEW t \in Tries, NEW s, Expected(s), Answered(t, s) \/ Give(t, s), kept' = kept
      PROVE  AnswersInv'
  <2>1. CASE Answered(t, s)
    BY <1>5, <1>7, <2>1 DEF Answered
  <2>2. CASE Give(t, s)
    <3> DEFINE w == IF Bypasses THEN "answered" ELSE "record"
    <3>1. /\ w # "lock" /\ where' = [where EXCEPT ![t] = w]
          /\ status' = [status EXCEPT ![t] = s]
      BY <2>2 DEF Give
    <3> HIDE DEF w
    <3> QED
      BY <1>5, <1>7, <3>1
  <2> QED
    BY <1>7, <2>1, <2>2
<1>8. ASSUME NEW t \in Tries, AuthRateLimit(t) PROVE AnswersInv'
  <2>1. InAuth => Expected(429)
    BY DEF Expected
  <2> QED
    BY <1>6, <1>7, <1>8, <2>1 DEF AuthRateLimit
<1>9. ASSUME NEW t \in Tries, Lookup(t) PROVE AnswersInv'
  <2>1. ~Bypasses /\ Key \notin Sent[operation] => Expected(400)
    BY DEF Expected
  <2>2. \/ Onward(t, "bearer")
        \/ ~Bypasses /\ Key \notin Sent[operation] /\ Answered(t, 400)
        \/ Answered(t, kept)
        \/ Key \in Sent[operation] /\ Onward(t, "lock")
    BY <1>9 DEF Lookup
  <2>3. kept' = kept
    BY <1>9 DEF Lookup
  <2> QED
    BY <1>3, <1>6, <1>7, <2>1, <2>2, <2>3
<1>10. ASSUME NEW t \in Tries, TakeLock(t) PROVE AnswersInv'
  <2>1. Expected(409)
    BY <1>3, <1>10, InFlightListed DEF TakeLock, InFlight, Expected
  <2>2. Onward(t, "bearer") \/ Answered(t, 409) \/ Answered(t, 500)
    BY <1>10 DEF TakeLock
  <2>3. kept' = kept
    BY <1>10 DEF TakeLock
  <2> QED
    BY <1>4, <1>6, <1>7, <2>1, <2>2, <2>3
<1>11. ASSUME NEW t \in Tries, BearerAuth(t) PROVE AnswersInv'
  BY <1>4, <1>6, <1>7, <1>11 DEF BearerAuth
<1>12. ASSUME NEW t \in Tries, Bind(t) PROVE AnswersInv'
  <2>1. Onward(t, "serve")
    BY <1>3, <1>12, SentSuffices DEF Bind, AsksForSent
  <2> QED
    BY <1>6, <1>12, <2>1 DEF Bind
<1>13. ASSUME NEW t \in Tries, Serve(t) PROVE AnswersInv'
  <2>1. \A s \in Handler[operation].says : Expected(s)
    BY <1>3, HandlersListed DEF Listed, Keyless, Bypasses, Expected
  <2>2. \E s \in {401} \cup Handler[operation].says : Give(t, s)
    BY <1>13 DEF Serve
  <2>3. kept' = kept
    BY <1>13 DEF Serve
  <2> QED
    BY <1>4, <1>7, <2>1, <2>2, <2>3
<1>14. ASSUME NEW t \in Tries, Record(t) PROVE AnswersInv'
  BY <1>6, <1>14 DEF Record
<1>15. CASE LockRunsOut \/ UNCHANGED apiVars
  <2>1. UNCHANGED <<where, status, kept>>
    BY <1>15 DEF LockRunsOut, apiVars
  <2> QED
    BY <1>1, <1>2, <1>3, <2>1 DEF AnswersInv
<1> QED
  BY <1>8, <1>9, <1>10, <1>11, <1>12, <1>13, <1>14, <1>15 DEF ApiNext

\* However the tries of a request overlap, lose their lock or their record: an answer the
\* client cannot decode is one of the seventeen gaps of the contract, has no body, is a
\* server error, or comes from a middleware.
THEOREM GapsAreAll == ApiSpec => []GapsKnown
<1>1. ApiInit => AnswersInv
  BY DEF ApiInit, AnswersInv, Expected
<1>2. AnswersInv => GapsKnown
  BY DEF AnswersInv, GapsKnown
<1> QED
  BY <1>1, <1>2, AnswersStep, PTL DEF ApiSpec
=============================================================================
