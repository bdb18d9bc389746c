------------------------------ MODULE Accounts ------------------------------
(***************************************************************************)
(* Accounts and what opens them: passwords (Register, internal/auth) and   *)
(* identities at OAuth providers (internal/auth/oauth/flow.go: Start,      *)
(* Callback with its three rules, link, createUser, Unlink).  Every query  *)
(* is a step; identities and global_identities change in one transaction   *)
(* and hold the same pairs, so they are one set.  A call that stops where  *)
(* it is has failed.                                                       *)
(*                                                                         *)
(* Usernames are left out: createUser numbers them until one is free.      *)
(* Bounds: MaxAccounts, and each flow and each unlink happens once.        *)
(***************************************************************************)
EXTENDS Naturals, FiniteSets

CONSTANTS
  Emails,
  Subjects,     \* accounts at providers: [at : provider, email, verified]
  Flows,        \* values of the state parameter
  Unlinkers,    \* calls of Unlink
  MaxAccounts

ASSUME AccountsAssumption == MaxAccounts \in Nat
ASSUME SubjectsAssumption == Subjects # {} /\ \A s \in Subjects : s.email \in Emails

Ids == 1..MaxAccounts
Nobody == 0
Providers == { s.at : s \in Subjects }

VARIABLES
  email,       \* of each account, in the order of their creation
  passwords,   \* accounts with a pass_hash
  identities,  \* pairs <<account, subject>>
  flow,        \* from Start on: [at, provider, account], the account to link if known
  subject,     \* whom the provider says the user of a flow is
  unlink,      \* calls of Unlink: [at, account, provider]
  asked,       \* history: what logged-in users asked to link
  born,        \* history: <<account, subject>> of accounts made by createUser
  raced        \* history: accounts two unlinks worked on at once

accountVars == <<email, passwords, identities, flow, subject, unlink, asked, born, raced>>
dbVars == <<email, passwords, identities, born>>
flowVars == <<flow, subject, asked>>
unlinkVars == <<unlink, raced>>

Accounts == DOMAIN email
Pairs == Ids \X Subjects

AccountsTypeOK ==
  /\ email \in UNION { [1..n -> Emails] : n \in 0..MaxAccounts }
  /\ passwords \subseteq Accounts /\ raced \subseteq Accounts
  /\ identities \cup asked \cup born \subseteq Accounts \X Subjects
  /\ flow \in [Flows -> [at : {"none", "state", "known", "email", "link", "insert", "create", "end"},
                         provider : Providers, account : Ids \cup {Nobody}]]
  /\ subject \in [Flows -> Subjects]
  /\ unlink \in [Unlinkers -> [at : {"none", "delete", "end"},
                               account : Ids \cup {Nobody}, provider : Providers]]

AccountsInit ==
  /\ email = << >> /\ passwords = {} /\ identities = {}
  /\ LET p == CHOOSE p \in Providers : TRUE
     IN /\ flow = [f \in Flows |-> [at |-> "none", provider |-> p, account |-> Nobody]]
        /\ unlink = [u \in Unlinkers |-> [at |-> "none", account |-> Nobody, provider |-> p]]
  /\ subject = [f \in Flows |-> CHOOSE s \in Subjects : TRUE]
  /\ asked = {} /\ born = {} /\ raced = {}

-----------------------------------------------------------------------------
Proceed(f, stage) == flow' = [flow EXCEPT ![f].at = stage]
Toward(f, stage, a) == flow' = [flow EXCEPT ![f].at = stage, ![f].account = a]
Who(s) == { a \in Accounts : <<a, s>> \in identities }
WithEmail(e) == { a \in Accounts : email[a] = e }

\* PRIMARY KEY (user_id, provider), UNIQUE (provider, provider_user_id).
MayInsert(a, s) == Who(s) = {} /\ ~\E t \in Subjects : t.at = s.at /\ <<a, t>> \in identities

Insert(e) == email' = [a \in 1..(Cardinality(Accounts) + 1) |-> IF a \in Accounts THEN email[a] ELSE e]
NewAccount == Cardinality(Accounts) + 1

Register(e) ==
  /\ NewAccount \in Ids /\ WithEmail(e) = {}   \* otherwise ErrConflict
  /\ Insert(e) /\ passwords' = passwords \cup {NewAccount}
  /\ UNCHANGED <<identities, born, flowVars, unlinkVars>>

\* oas:{state}: who asks to link (the caller of the authenticated endpoint), or Nobody
\* to log in.
Start(f, a, p) ==
  /\ flow[f].at = "none"
  /\ flow' = [flow EXCEPT ![f] = [at |-> "state", provider |-> p, account |-> a]]
  /\ UNCHANGED <<subject, asked, dbVars, unlinkVars>>

\* GETDEL: the first callback of a state goes on, the code it brings is exchanged for
\* the identity.
Callback(f, s) ==
  /\ flow[f].at = "state" /\ s.at = flow[f].provider
  /\ subject' = [subject EXCEPT ![f] = s]
  /\ LET a == flow[f].account
     IN IF a = Nobody THEN Proceed(f, "known") /\ asked' = asked
                      ELSE Proceed(f, "link") /\ asked' = asked \cup {<<a, s>>}
  /\ UNCHANGED <<dbVars, unlinkVars>>

\* Rule 1: a known identity logs its account in.
Known(f) ==
  /\ flow[f].at = "known"
  /\ Proceed(f, IF Who(subject[f]) # {} THEN "end" ELSE "email")
  /\ UNCHANGED <<subject, asked, dbVars, unlinkVars>>

\* Rule 2: an account with that address, if the provider vouches for it.
TrustAny(s) == TRUE   \* mutant: EmailVerified not looked at
Trusted(s) == s.verified

ByEmail(f) ==
  /\ flow[f].at = "email"
  /\ LET s == subject[f]
     IN IF WithEmail(s.email) = {} THEN Proceed(f, "create")
        ELSE \E a \in WithEmail(s.email) :
               Toward(f, IF Trusted(s) THEN "link" ELSE "end", a)   \* or ErrLinkRequired
  /\ UNCHANGED <<subject, asked, dbVars, unlinkVars>>

\* link: nothing to do, or taken by another account, or not there yet.
LinkLookup(f) ==
  /\ flow[f].at = "link" /\ Proceed(f, IF Who(subject[f]) # {} THEN "end" ELSE "insert")
  /\ UNCHANGED <<subject, asked, dbVars, unlinkVars>>

LinkInsert(f) ==
  /\ flow[f].at = "insert" /\ Proceed(f, "end")
  /\ LET a == flow[f].account   s == subject[f]
     IN identities' = IF MayInsert(a, s) THEN identities \cup {<<a, s>>} ELSE identities
  /\ UNCHANGED <<email, passwords, born, subject, asked, unlinkVars>>

\* Rule 3: users and identities rows in one transaction; either may conflict by now.
CreateUser(f) ==
  /\ flow[f].at = "create" /\ NewAccount \in Ids /\ Proceed(f, "end")
  /\ LET s == subject[f]
     IN IF WithEmail(s.email) = {} /\ Who(s) = {}
        THEN /\ Insert(s.email)
             /\ identities' = identities \cup {<<NewAccount, s>>}
             /\ born' = born \cup {<<NewAccount, s>>}
        ELSE UNCHANGED <<email, identities, born>>
  /\ UNCHANGED <<passwords, subject, asked, unlinkVars>>

-----------------------------------------------------------------------------
IdentitiesOf(a) == { s \in Subjects : <<a, s>> \in identities }

LastButOne(a) == a \notin passwords /\ Cardinality(IdentitiesOf(a)) < 1   \* mutant: off by one
LastCredential(a) == a \notin passwords /\ Cardinality(IdentitiesOf(a)) <= 1

\* Unlink reads hasPassword and identityCount, and deletes in a later transaction.
UnlinkRead(u, a, p) ==
  /\ unlink[u].at = "none" /\ a \in Accounts
  /\ LET goesOn == ~LastCredential(a)
     IN /\ unlink' = [unlink EXCEPT ![u] =
             [at |-> IF goesOn THEN "delete" ELSE "end", account |-> a, provider |-> p]]
        /\ raced' = IF goesOn /\ \E v \in Unlinkers : unlink[v].at = "delete" /\ unlink[v].account = a
                    THEN raced \cup {a} ELSE raced
  /\ UNCHANGED <<dbVars, flowVars>>

UnlinkDelete(u) ==
  /\ unlink[u].at = "delete" /\ unlink' = [unlink EXCEPT ![u].at = "end"]
  /\ identities' = { i \in identities :
       ~(i[1] = unlink[u].account /\ i[2].at = unlink[u].provider) }
  /\ UNCHANGED <<email, passwords, born, raced, flowVars>>

AccountsNext ==
  \/ \E e \in Emails : Register(e)
  \/ \E f \in Flows :
       \/ \E a \in Accounts \cup {Nobody}, p \in Providers : Start(f, a, p)
       \/ \E s \in Subjects : Callback(f, s)
       \/ Known(f) \/ ByEmail(f) \/ LinkLookup(f) \/ LinkInsert(f) \/ CreateUser(f)
  \/ \E u \in Unlinkers :
       (\E a \in Accounts, p \in Providers : UnlinkRead(u, a, p)) \/ UnlinkDelete(u)

AccountsSpec == AccountsInit /\ [][AccountsNext]_accountVars

-----------------------------------------------------------------------------
Stranded(a) == a \notin passwords /\ IdentitiesOf(a) = {}

\* An account keeps something to log in with, unless two unlinks of it ran at once:
\* each counts two identities before either deletes its own.
StrandedNeedsRace == \A a \in Accounts : Stranded(a) => a \in raced

\* An identity belongs to an account because its user asked for it, because the
\* provider vouches for the account's address, or because the account was made from it.
LinkedByOwner ==
  \A a \in Accounts, s \in Subjects :
    <<a, s>> \in identities => \/ <<a, s>> \in asked \cup born
                               \/ s.verified /\ s.email = email[a]
=============================================================================
