--------------------------- MODULE AccountsProofs ---------------------------
(***************************************************************************)
(* Proofs for Accounts, for any number of requests, users, tokens and      *)
(* grants.                                                                 *)
(*                                                                         *)
(* Whoever is the user of a grant or of a token has an account, and an     *)
(* account that has set its password never goes back (Earned is stable).   *)
(* A request that is about to activate a grant remembers a user who has    *)
(* earned it, or is about to set that user's password (JobOK), whatever    *)
(* other requests do to the grant meanwhile.  What it has read is still    *)
(* true when it writes, unless the row is one of those that the history    *)
(* variable late names (FreshOK): the step that changes a row somebody has *)
(* read puts it there.                                                     *)
(***************************************************************************)
EXTENDS Accounts, FiniteSetTheorems, TLAPS

Earned(u) == Live(u) /\ ~account[u].must

TokenRow == [state: {"none", "live", "used", "deleted"}, user: Nullable(Users),
             purpose: Purposes, uses: Nat]

Typed ==
    /\ account \in [Users -> Account]
    /\ token \in [Tokens -> TokenRow]
    /\ invite \in [Tokens -> {"none", "SENT", "ACCEPTED", "FAILED"}]
    /\ owner \in [Owners -> Activity]
    /\ grant \in [Grants -> Grant]
    /\ provider \in [Providers -> Activity]
    /\ member \in [Providers -> [Users -> Member]]
    /\ pgrant \in [ProviderGrants -> ProviderGrant]
    /\ job \in [Handlers -> Job]
    /\ late \in Late

UsesOK == \A t \in Tokens : token[t].uses + Cardinality(Resetting(t)) <= Cardinality(Handlers)

TokensOK == \A t \in Tokens :
    /\ token[t].state \in {"live", "used"} => token[t].user \in Users /\ Live(token[t].user)
    /\ token[t].state = "live" => token[t].uses = 0

GrantsOK == \A g \in Grants :
    /\ grant[g].status # "none" => grant[g].user \in Users /\ Live(grant[g].user)
    /\ grant[g].status = "ACTIVE" => Earned(grant[g].user)

PGrantsOK == \A q \in ProviderGrants :
    /\ pgrant[q].status # "none" => pgrant[q].user \in Users /\ Live(pgrant[q].user)
    /\ pgrant[q].status = "ACTIVE" => Earned(pgrant[q].user)
    /\ pgrant[q].status = "none" => pgrant[q].provider = NoId

\* the unique indexes
Unique == \A g, k \in Grants :
    (g # k /\ grant[g].owner = grant[k].owner /\ Open(grant[g].status) /\ Open(grant[k].status))
    => /\ ~(grant[g].status = "ACTIVE" /\ grant[k].status = "ACTIVE")
       /\ grant[g].user # grant[k].user

MembersOK == \A p \in Providers, u \in Users : member[p][u].role # "none" => member[p][u].by # "none"

\* what the program points say about the fields they use
JobOK(j) ==
    /\ j.pc \notin {"idle", "disable", "disableProvider"} => j.user \in Users
    /\ j.pc \notin {"idle", "disable", "disableProvider", "invite", "staff"} => Live(j.user)
    /\ j.pc \in {"residentInvite", "reset", "resetWrite"} => j.token \in Tokens
    /\ j.pc \in {"pendingGrant", "activeGrant"} => j.owner \in Owners
    /\ j.pc \in {"activate", "disable"} => j.grant \in Grants /\ grant[j.grant].status # "none"
    /\ j.pc = "disableProvider" => j.grant \in ProviderGrants /\ pgrant[j.grant].status # "none"
    /\ j.pc \in {"invite", "membership", "providerGrant", "staff"} => j.provider \in Providers
    /\ j.pc \in {"membership", "staff"} => j.member.by # "none"
    /\ j.pc = "staff" => j.member.by = "admin"
    /\ j.pc \in {"activeGrant", "activate"} => Earned(j.user)
    /\ j.pc = "resetWrite" => \A g \in j.pending :
         grant[g].status # "none" /\ (grant[g].user = j.user \/ Earned(grant[g].user))

\* what a request has read and is still so, if the row is not late
FreshOK(j) ==
    /\ j.pc = "saveRefresh" => j.user \in late.sessions \/ j.epoch = account[j.user].epoch
    /\ j.pc \in {"reset", "resetWrite"} => j.token \in late.tokens \/ token[j.token].uses = 0
    /\ j.pc = "activate" => j.grant \in late.grants \/ grant[j.grant].status # "DISABLED"
    /\ j.pc = "resetWrite" =>
           \A g \in j.pending : g \in late.grants \/ grant[g].status # "DISABLED"

SessionsOK == \A u \in Users \ late.sessions : account[u].session \in {0, account[u].epoch}

Sessions == SessionsOK /\ \A t \in Tokens \ late.tokens : token[t].uses <= 1

Invited == \A p \in Providers, u \in Users :
    (member[p][u].by = "invite" /\ <<p, u>> \notin late.members) =>
        \/ \E q \in ProviderGrants : pgrant[q].provider = p /\ pgrant[q].user = u
        \/ \E h \in Handlers : job[h].pc = "providerGrant" /\ job[h].provider = p /\ job[h].user = u

Inv ==
    /\ Typed /\ UsesOK /\ TokensOK /\ GrantsOK /\ PGrantsOK /\ Unique /\ MembersOK
    /\ \A h \in Handlers : JobOK(job[h]) /\ FreshOK(job[h])
    /\ Sessions /\ Invited

------------------------------------------------------------------------------
(* Steps in general.                                                       *)

\* accounts stay, and those that have set a password too
AccountsKept == \A u \in Users : (Live(u) => Live(u)') /\ (Earned(u) => Earned(u)')

GrantsKept == \A g \in Grants : grant[g].status # "none" =>
    grant'[g].status # "none" /\ (grant'[g].user = grant[g].user \/ Earned(grant[g].user)')

PGrantsKept == \A q \in ProviderGrants : pgrant[q].status # "none" =>
    /\ pgrant'[q].status # "none"
    /\ pgrant'[q].user = pgrant[q].user /\ pgrant'[q].provider = pgrant[q].provider

\* only request h moved
Alone(h) == \A k \in Handlers \ {h} : job'[k] = job[k]

\* nobody is reset
EpochsKept == \A u \in Users : Live(u) => account'[u].epoch = account[u].epoch

LateGrows ==
    /\ late.sessions \subseteq late'.sessions /\ late.tokens \subseteq late'.tokens
    /\ late.grants \subseteq late'.grants /\ late.members \subseteq late'.members

\* a row that h changes and another request has read becomes late
Marked(h) ==
    /\ LateGrows
    /\ \A u \in Users : \/ Live(u) => account'[u].epoch = account[u].epoch
                        \/ u \in late'.sessions \/ Storing(u) \ {h} = {}
    /\ \A t \in Tokens : \/ token[t].uses = 0 => token'[t].uses = 0
                         \/ t \in late'.tokens \/ Resetting(t) \ {h} = {}
    /\ \A g \in Grants : \/ grant'[g].status = "DISABLED" => grant[g].status = "DISABLED"
                         \/ g \in late'.grants \/ Activating(g) \ {h} = {}

RowsOK == TokensOK /\ GrantsOK /\ PGrantsOK /\ Unique /\ MembersOK

USE DEF Live, Earned

\* What a request remembers stays true while other requests write.
LEMMA JobKept ==
    ASSUME Typed, Typed', GrantsOK', AccountsKept, GrantsKept, PGrantsKept,
           NEW j \in Job, JobOK(j)
    PROVE  JobOK(j)'
  <1>1. \A u \in Users : (Live(u) => Live(u)') /\ (Earned(u) => Earned(u)')
    BY DEF AccountsKept
  <1>2. j.pending \subseteq Grants
    BY DEF Job
  <1>3. j.pc = "resetWrite" => \A g \in j.pending :
          grant'[g].status # "none" /\ (grant'[g].user = j.user \/ Earned(grant[g].user)')
    <2> SUFFICES ASSUME j.pc = "resetWrite", NEW g \in j.pending
                 PROVE  grant'[g].status # "none" /\ (grant'[g].user = j.user \/ Earned(grant[g].user)')
      OBVIOUS
    <2>1. g \in Grants /\ grant[g].status # "none" /\ (grant[g].user = j.user \/ Earned(grant[g].user))
      BY <1>2 DEF JobOK
    <2>2. grant'[g].status # "none" /\ (grant'[g].user = grant[g].user \/ Earned(grant[g].user)')
      BY <2>1 DEF GrantsKept
    <2>3. grant'[g].user \in Users
      BY <2>1, <2>2 DEF GrantsOK
    <2> QED
      BY <1>1, <2>1, <2>2, <2>3 DEF Earned
  <1>4. j.pc \in {"activate", "disable"} => grant'[j.grant].status # "none"
    BY DEF JobOK, GrantsKept
  <1>5. j.pc = "disableProvider" => pgrant'[j.grant].status # "none"
    BY DEF JobOK, PGrantsKept
  <1> QED
    BY <1>1, <1>3, <1>4, <1>5 DEF JobOK

\* What a request has read is still so, or the row has become late.
LEMMA FreshKept ==
    ASSUME Typed, NEW h \in Handlers, Alone(h), Marked(h),
           NEW k \in Handlers \ {h}, JobOK(job[k]), FreshOK(job[k])
    PROVE  FreshOK(job[k])'
  <1>1. job'[k] = job[k] /\ job[k] \in Job /\ job[k].pending \subseteq Grants
    BY DEF Alone, Typed, Job
  <1>2. LateGrows
    BY DEF Marked
  <1>3. job[k].pc = "saveRefresh" =>
            job[k].user \in late'.sessions \/ job[k].epoch = account'[job[k].user].epoch
    <2> SUFFICES ASSUME job[k].pc = "saveRefresh"
                 PROVE  job[k].user \in late'.sessions \/ job[k].epoch = account'[job[k].user].epoch
      OBVIOUS
    <2>1. job[k].user \in Users /\ Live(job[k].user) /\ k \in Storing(job[k].user)
      BY DEF JobOK, Storing
    <2> QED
      BY <1>2, <2>1 DEF Marked, LateGrows, FreshOK
  <1>4. job[k].pc \in {"reset", "resetWrite"} =>
            job[k].token \in late'.tokens \/ token'[job[k].token].uses = 0
    <2> SUFFICES ASSUME job[k].pc \in {"reset", "resetWrite"}
                 PROVE  job[k].token \in late'.tokens \/ token'[job[k].token].uses = 0
      OBVIOUS
    <2>1. job[k].token \in Tokens /\ k \in Resetting(job[k].token)
      BY DEF JobOK, Resetting
    <2> QED
      BY <1>2, <2>1 DEF Marked, LateGrows, FreshOK
  <1>5. job[k].pc = "activate" =>
            job[k].grant \in late'.grants \/ grant'[job[k].grant].status # "DISABLED"
    <2> SUFFICES ASSUME job[k].pc = "activate"
                 PROVE  job[k].grant \in late'.grants \/ grant'[job[k].grant].status # "DISABLED"
      OBVIOUS
    <2>1. job[k].grant \in Grants /\ k \in Activating(job[k].grant)
      BY DEF JobOK, Activating
    <2> QED
      BY <1>2, <2>1 DEF Marked, LateGrows, FreshOK
  <1>6. job[k].pc = "resetWrite" =>
            \A g \in job[k].pending : g \in late'.grants \/ grant'[g].status # "DISABLED"
    <2> SUFFICES ASSUME job[k].pc = "resetWrite", NEW g \in job[k].pending
                 PROVE  g \in late'.grants \/ grant'[g].status # "DISABLED"
      OBVIOUS
    <2>1. g \in Grants /\ k \in Activating(g)
      BY <1>1 DEF Activating
    <2> QED
      BY <1>2, <2>1 DEF Marked, LateGrows, FreshOK
  <1> QED
    BY <1>1, <1>3, <1>4, <1>5, <1>6 DEF FreshOK

\* A step of one request keeps the invariant if the rows stay in order and the request
\* remembers what it should.
LEMMA StepInv ==
    ASSUME Inv, Typed', UsesOK', RowsOK', AccountsKept, GrantsKept, PGrantsKept,
           NEW h \in Handlers, Alone(h), Marked(h), JobOK(job[h])', FreshOK(job[h])',
           Sessions', Invited'
    PROVE  Inv'
  <1>1. \A k \in Handlers : JobOK(job[k])'
    <2> SUFFICES ASSUME NEW k \in Handlers, k # h PROVE JobOK(job[k])'
      OBVIOUS
    <2>1. job'[k] = job[k] /\ job[k] \in Job /\ JobOK(job[k])
      BY DEF Alone, Inv, Typed
    <2> DEFINE j == job[k]
    <2>2. PICK x \in Job : x = j
      BY <2>1
    <2>3. JobOK(x)'
      BY <2>1, <2>2, JobKept DEF Inv, RowsOK, JobOK
    <2> QED
      BY <2>1, <2>2, <2>3 DEF JobOK
  <1>2. \A k \in Handlers : FreshOK(job[k])'
    BY FreshKept DEF Inv
  <1> QED
    BY <1>1, <1>2 DEF Inv, RowsOK

\* A request starts, and goes on or ends.
LEMMA BeginStep ==
    ASSUME Inv, NEW h \in Handlers, NEW new \in Job, Begin(h, new)
    PROVE  /\ Alone(h) /\ job' \in [Handlers -> Job] /\ late' = late
           /\ job'[h] = new /\ job[h].pc = "idle"
  <1>1. job \in [Handlers -> Job]
    BY DEF Inv, Typed
  <1> QED
    BY <1>1 DEF Begin, Alone

LEMMA ContinueStep ==
    ASSUME Inv, NEW h \in Handlers, NEW new \in Job, Continue(h, new), job[h].pc # "idle"
    PROVE  /\ Alone(h) /\ job' \in [Handlers -> Job] /\ late' = late
           /\ job'[h] = new
  <1>1. job \in [Handlers -> Job]
    BY DEF Inv, Typed
  <1> QED
    BY <1>1 DEF Continue, Alone

LEMMA IdleTyped == Idle \in Job /\ Idle.pc = "idle"
  BY AccountsAssumption DEF Idle, Job, NoMember, Member, Roles, Nullable, Purposes

\* No request that could not reset a password with a token comes to be able to.
LEMMA UsesKept ==
    ASSUME Inv, Typed', NEW h \in Handlers, Alone(h),
           job'[h].pc \in {"reset", "resetWrite"} =>
               job[h].pc \in {"reset", "resetWrite"} /\ job'[h].token = job[h].token,
           \A t \in Tokens : token'[t].uses <= token[t].uses
    PROVE  UsesOK'
  <1> SUFFICES ASSUME NEW t \in Tokens
               PROVE  token'[t].uses + Cardinality(Resetting(t)') <= Cardinality(Handlers)
    BY DEF UsesOK
  <1>1. Resetting(t)' \subseteq Resetting(t)
    BY DEF Resetting, Alone
  <1>2. IsFiniteSet(Resetting(t)) /\ Cardinality(Handlers) \in Nat
    BY AccountsAssumption, FS_Subset, FS_CardinalityType DEF Resetting
  <1>3. /\ Cardinality(Resetting(t)') <= Cardinality(Resetting(t))
        /\ Cardinality(Resetting(t)') \in Nat /\ Cardinality(Resetting(t)) \in Nat
    BY <1>1, <1>2, FS_Subset, FS_CardinalityType
  <1>4. token[t].uses \in Nat /\ token'[t].uses \in Nat
    BY DEF Inv, Typed, TokenRow
  <1>5. token[t].uses + Cardinality(Resetting(t)) <= Cardinality(Handlers)
    BY DEF Inv, UsesOK
  <1>6. token'[t].uses <= token[t].uses
    OBVIOUS
  <1> QED
    BY <1>2, <1>3, <1>4, <1>5, <1>6

\* A request that resets no password.
LEMMA UsesSame ==
    ASSUME Inv, Typed', NEW h \in Handlers, Alone(h), UNCHANGED token,
           job'[h].pc \notin {"reset", "resetWrite"}
    PROVE  UsesOK'
  <1>1. \A t \in Tokens : token'[t].uses <= token[t].uses
    BY DEF Inv, Typed, TokenRow
  <1> QED
    BY <1>1, UsesKept

\* A step of one request that writes none of the rows that matter.
LEMMA QuietStep ==
    ASSUME Inv, NEW h \in Handlers, Alone(h), UNCHANGED <<account, token, grant, pgrant, member, late>>,
           Typed', UsesOK', job[h].pc # "providerGrant",
           JobOK(job[h])', FreshOK(job[h])'
    PROVE  Inv'
  <1>1. RowsOK'
    BY DEF Inv, RowsOK, TokensOK, GrantsOK, PGrantsOK, Unique, MembersOK
  <1>2. AccountsKept /\ GrantsKept /\ PGrantsKept
    BY DEF AccountsKept, GrantsKept, PGrantsKept
  <1> Marked(h)
    BY DEF Marked, LateGrows
  <1>3. Sessions' /\ Invited'
    <2>1. \A k \in Handlers \ {h} : job'[k] = job[k]
      BY DEF Alone
    <2>2. Sessions /\ Invited
      BY DEF Inv
    <2>3. Sessions'
      BY <2>2 DEF Sessions, SessionsOK
    <2>4. Invited'
      BY <2>1, <2>2 DEF Invited
    <2> QED
      BY <2>3, <2>4
  <1> QED
    BY <1>1, <1>2, <1>3, StepInv

\* A request that starts by reading.
LEMMA QuietBegin ==
    ASSUME Inv, NEW h \in Handlers, NEW new \in Job, Begin(h, new),
           UNCHANGED <<account, token, invite, owner, grant, provider, member, pgrant>>,
           new.pc \notin {"reset", "resetWrite"}, JobOK(new), FreshOK(new)
    PROVE  Inv'
  <1>1. /\ Alone(h) /\ job' \in [Handlers -> Job] /\ late' = late
        /\ job'[h] = new /\ job[h].pc = "idle"
    BY BeginStep
  <1>2. Typed'
    BY <1>1 DEF Inv, Typed
  <1>3. UsesOK'
    BY <1>1, <1>2, UsesKept DEF Inv, Typed, TokenRow
  <1>4. JobOK(job[h])'
    BY <1>1 DEF JobOK
  <1>5. FreshOK(job[h])'
    BY <1>1 DEF FreshOK
  <1> QED
    BY <1>1, <1>2, <1>3, <1>4, <1>5, QuietStep

\* A request that goes on by reading.
LEMMA QuietContinue ==
    ASSUME Inv, NEW h \in Handlers, NEW new \in Job, Continue(h, new), job[h].pc # "idle",
           UNCHANGED <<account, token, invite, owner, grant, provider, member, pgrant>>,
           job[h].pc # "providerGrant",
           new.pc \in {"reset", "resetWrite"} =>
               job[h].pc \in {"reset", "resetWrite"} /\ new.token = job[h].token,
           JobOK(new), FreshOK(new)
    PROVE  Inv'
  <1>1. Alone(h) /\ job' \in [Handlers -> Job] /\ late' = late /\ job'[h] = new
    BY ContinueStep
  <1>2. Typed'
    BY <1>1 DEF Inv, Typed
  <1>3. UsesOK'
    BY <1>1, <1>2, UsesKept DEF Inv, Typed, TokenRow
  <1>4. JobOK(job[h])'
    BY <1>1 DEF JobOK
  <1>5. FreshOK(job[h])'
    BY <1>1 DEF FreshOK
  <1> QED
    BY <1>1, <1>2, <1>3, <1>4, <1>5, QuietStep

------------------------------------------------------------------------------
(* Requests that read.                                                     *)

LEMMA LoginInv ==
    ASSUME Inv, NEW h \in Handlers, NEW u \in Users, Login(h, u)
    PROVE  Inv'
  <1> DEFINE new == [Idle EXCEPT !.pc = "saveRefresh", !.user = u, !.epoch = account[u].epoch]
  <1>1. account[u].epoch \in 0..MaxEpoch
    BY AccountsAssumption DEF Inv, Typed, Account
  <1>2. new \in Job /\ new.pc = "saveRefresh" /\ new.user = u /\ new.epoch = account[u].epoch
    BY <1>1, IdleTyped DEF Idle, Job, Nullable
  <1>3. JobOK(new) /\ FreshOK(new)
    BY <1>2 DEF Login, JobOK, FreshOK
  <1> QED
    BY <1>2, <1>3, QuietBegin DEF Login

LEMMA RefreshSessionInv ==
    ASSUME Inv, NEW h \in Handlers, NEW u \in Users, RefreshSession(h, u)
    PROVE  Inv'
  <1> DEFINE new == [Idle EXCEPT !.pc = "saveRefresh", !.user = u, !.epoch = account[u].session]
  <1>1. account[u] \in Account
    BY DEF Inv, Typed
  <1>2. new \in Job /\ new.pc = "saveRefresh" /\ new.user = u /\ new.epoch = account[u].session
    BY <1>1, IdleTyped DEF Idle, Job, Nullable, Account
  <1>3. JobOK(new)
    BY <1>2 DEF RefreshSession, JobOK
  <1>4. FreshOK(new)
    BY <1>2 DEF RefreshSession, Inv, Sessions, SessionsOK, FreshOK
  <1> QED
    BY <1>2, <1>3, <1>4, QuietBegin DEF RefreshSession

LEMMA ChangePasswordCheckInv ==
    ASSUME Inv, NEW h \in Handlers, NEW u \in Users, ChangePasswordCheck(h, u)
    PROVE  Inv'
  <1> DEFINE new == [Idle EXCEPT !.pc = "changePassword", !.user = u]
  <1>1. new \in Job /\ new.pc = "changePassword" /\ new.user = u
    BY IdleTyped DEF Idle, Job, Nullable
  <1>2. JobOK(new) /\ FreshOK(new)
    BY <1>1 DEF ChangePasswordCheck, JobOK, FreshOK
  <1> QED
    BY <1>1, <1>2, QuietBegin DEF ChangePasswordCheck

\* A request is about to issue a token for someone who has an account.
LEMMA IssueTokenOK ==
    ASSUME NEW u \in Users, Live(u), NEW purpose \in Purposes
    PROVE  /\ IssueToken(u, purpose) \in Job
           /\ IssueToken(u, purpose).pc = "token" /\ IssueToken(u, purpose).user = u
           /\ JobOK(IssueToken(u, purpose)) /\ FreshOK(IssueToken(u, purpose))
  <1> DEFINE new == IssueToken(u, purpose)
  <1>1. new \in Job /\ new.pc = "token" /\ new.user = u
    BY IdleTyped DEF IssueToken, Idle, Job, Nullable
  <1>2. JobOK(new) /\ FreshOK(new)
    <2> HIDE DEF new
    <2> QED
      BY <1>1 DEF JobOK, FreshOK
  <1> QED
    BY <1>1, <1>2

LEMMA ForgotPasswordInv ==
    ASSUME Inv, NEW h \in Handlers, NEW u \in Users, ForgotPassword(h, u)
    PROVE  Inv'
  <1> DEFINE new == IssueToken(u, "PASSWORD_RESET")
  <1>1. new \in Job /\ new.pc = "token" /\ JobOK(new) /\ FreshOK(new)
    BY IssueTokenOK DEF Purposes, ForgotPassword
  <1> QED
    BY <1>1, QuietBegin DEF ForgotPassword

LEMMA SendResidentInviteInv ==
    ASSUME Inv, NEW h \in Handlers, NEW u \in Users, SendResidentInvite(h, u)
    PROVE  Inv'
  <1> DEFINE new == IssueToken(u, "RESIDENT_INVITE")
  <1>1. new \in Job /\ new.pc = "token" /\ JobOK(new) /\ FreshOK(new)
    BY IssueTokenOK DEF Purposes, SendResidentInvite
  <1> QED
    BY <1>1, QuietBegin DEF SendResidentInvite

LEMMA DeleteTokensInv ==
    ASSUME Inv, NEW h \in Handlers, DeleteTokens(h)
    PROVE  Inv'
  <1> DEFINE seen == {t \in Tokens : token[t].user = job[h].user /\ token[t].state \in {"live", "used"}}
             new == [job[h] EXCEPT !.pc = "insertToken", !.doomed = seen]
  <1>1. job[h] \in Job /\ JobOK(job[h]) /\ job[h].pc = "token"
    BY DEF Inv, Typed, DeleteTokens
  <1>2. new \in Job /\ new.pc = "insertToken" /\ new.user = job[h].user
    BY <1>1 DEF Job
  <1>3. JobOK(new) /\ FreshOK(new)
    BY <1>1, <1>2 DEF JobOK, FreshOK
  <1>4. Continue(h, new)
    BY DEF DeleteTokens
  <1> QED
    BY <1>1, <1>2, <1>3, <1>4, QuietContinue DEF DeleteTokens

LEMMA ResetFindGrantsInv ==
    ASSUME Inv, NEW h \in Handlers, ResetFindGrants(h)
    PROVE  Inv'
  <1> DEFINE seen == {g \in Grants : /\ job[h].purpose = "OWNER_INVITE"
                                     /\ grant[g].user = job[h].user
                                     /\ grant[g].status = "PENDING"}
             new == [job[h] EXCEPT !.pc = "resetWrite", !.pending = seen]
  <1>1. job[h] \in Job /\ JobOK(job[h]) /\ FreshOK(job[h]) /\ job[h].pc = "reset"
    BY DEF Inv, Typed, ResetFindGrants
  <1>2. /\ new \in Job /\ new.pc = "resetWrite" /\ new.user = job[h].user
        /\ new.token = job[h].token /\ new.pending = seen
    BY <1>1 DEF Job
  <1>3. JobOK(new)
    BY <1>1, <1>2 DEF JobOK
  <1>4. FreshOK(new)
    BY <1>1, <1>2 DEF FreshOK
  <1>5. Continue(h, new)
    BY DEF ResetFindGrants
  <1> QED
    BY <1>1, <1>2, <1>3, <1>4, <1>5, QuietContinue DEF ResetFindGrants

\* A request that could not reset a password with t until now.
LEMMA ResetReadInv ==
    ASSUME Inv, NEW h \in Handlers, NEW t \in Tokens, ResetRead(h, t)
    PROVE  Inv'
  <1> DEFINE new == [Idle EXCEPT !.pc = "reset", !.user = token[t].user, !.token = t,
                                 !.purpose = token[t].purpose]
  <1>1. token[t] \in TokenRow /\ token[t].state = "live" /\ token[t].uses = 0
    BY DEF Inv, Typed, TokensOK, ResetRead
  <1>2. token[t].user \in Users /\ Live(token[t].user)
    BY <1>1 DEF Inv, TokensOK
  <1>3. new \in Job /\ new.pc = "reset" /\ new.user = token[t].user /\ new.token = t
    BY <1>1, IdleTyped DEF Idle, Job, Nullable, TokenRow
  <1>4. Begin(h, new) /\ UNCHANGED <<account, token, invite, owner, grant, provider, member, pgrant>>
    BY DEF ResetRead
  <1> HIDE DEF new
  <1>5. /\ Alone(h) /\ job' \in [Handlers -> Job] /\ late' = late
        /\ job'[h] = new /\ job[h].pc = "idle"
    BY <1>3, <1>4, BeginStep
  <1>6. Typed'
    BY <1>4, <1>5 DEF Inv, Typed
  <1>7. UsesOK'
    <2> SUFFICES ASSUME NEW x \in Tokens
                 PROVE  token[x].uses + Cardinality(Resetting(x)') <= Cardinality(Handlers)
      BY <1>4 DEF UsesOK
    <2>1. IsFiniteSet(Handlers) /\ Resetting(x)' \subseteq Handlers /\ Resetting(x) \subseteq Handlers
      BY AccountsAssumption DEF Resetting
    <2>2. CASE x = t
      <3>1. /\ Cardinality(Resetting(x)') <= Cardinality(Handlers)
            /\ Cardinality(Resetting(x)') \in Nat
        BY <2>1, FS_Subset, FS_CardinalityType
      <3> QED
        BY <1>1, <2>2, <3>1
    <2>3. CASE x # t
      <3>1. Resetting(x)' = Resetting(x)
        BY <1>3, <1>5, <2>3 DEF Resetting, Alone
      <3> QED
        BY <3>1 DEF Inv, UsesOK
    <2> QED
      BY <2>2, <2>3
  <1>8. JobOK(job[h])'
    BY <1>2, <1>3, <1>4, <1>5 DEF JobOK
  <1>9. FreshOK(job[h])'
    BY <1>1, <1>3, <1>4, <1>5 DEF FreshOK
  <1> QED
    BY <1>4, <1>5, <1>6, <1>7, <1>8, <1>9, QuietStep

LEMMA LinkExistingUserInv ==
    ASSUME Inv, NEW h \in Handlers, NEW o \in Owners, NEW u \in Users, LinkExistingUser(h, o, u)
    PROVE  Inv'
  <1> DEFINE new == [Idle EXCEPT !.pc = "activeGrant", !.user = u, !.owner = o]
  <1>1. new \in Job /\ new.pc = "activeGrant" /\ new.user = u /\ new.owner = o
    BY IdleTyped DEF Idle, Job, Nullable
  <1>2. JobOK(new) /\ FreshOK(new)
    BY <1>1 DEF LinkExistingUser, JobOK, FreshOK
  <1> QED
    BY <1>1, <1>2, QuietBegin DEF LinkExistingUser

LEMMA ActivatePendingGrantCheckInv ==
    ASSUME Inv, NEW h \in Handlers, NEW g \in Grants, NEW u \in Users,
           ActivatePendingGrantCheck(h, g, u)
    PROVE  Inv'
  <1> DEFINE new == [Idle EXCEPT !.pc = "activate", !.user = u, !.grant = g]
  <1>1. new \in Job /\ new.pc = "activate" /\ new.user = u /\ new.grant = g
    BY IdleTyped DEF Idle, Job, Nullable
  <1>2. JobOK(new) /\ FreshOK(new)
    BY <1>1 DEF ActivatePendingGrantCheck, JobOK, FreshOK
  <1> QED
    BY <1>1, <1>2, QuietBegin DEF ActivatePendingGrantCheck

LEMMA DisableGrantCheckInv ==
    ASSUME Inv, NEW h \in Handlers, NEW g \in Grants, DisableGrantCheck(h, g)
    PROVE  Inv'
  <1> DEFINE new == [Idle EXCEPT !.pc = "disable", !.grant = g]
  <1>1. new \in Job /\ new.pc = "disable" /\ new.grant = g
    BY IdleTyped DEF Idle, Job, Nullable
  <1>2. JobOK(new) /\ FreshOK(new)
    BY <1>1 DEF DisableGrantCheck, Open, JobOK, FreshOK
  <1> QED
    BY <1>1, <1>2, QuietBegin DEF DisableGrantCheck

LEMMA DisableProviderGrantCheckInv ==
    ASSUME Inv, NEW h \in Handlers, NEW q \in ProviderGrants, DisableProviderGrantCheck(h, q)
    PROVE  Inv'
  <1> DEFINE new == [Idle EXCEPT !.pc = "disableProvider", !.grant = q]
  <1>1. new \in Job /\ new.pc = "disableProvider" /\ new.grant = q
    BY IdleTyped DEF Idle, Job, Nullable
  <1>2. JobOK(new) /\ FreshOK(new)
    BY <1>1 DEF DisableProviderGrantCheck, Open, JobOK, FreshOK
  <1> QED
    BY <1>1, <1>2, QuietBegin DEF DisableProviderGrantCheck

LEMMA ResendInviteInv ==
    ASSUME Inv, NEW h \in Handlers, NEW g \in Grants, ResendInvite(h, g)
    PROVE  Inv'
  <1> DEFINE new == IssueToken(grant[g].user, "OWNER_INVITE")
  <1>1. grant[g].user \in Users /\ Live(grant[g].user)
    BY DEF Inv, GrantsOK, ResendInvite
  <1>2. new \in Job /\ new.pc = "token" /\ JobOK(new) /\ FreshOK(new)
    BY <1>1, IssueTokenOK DEF Purposes
  <1> QED
    BY <1>2, QuietBegin DEF ResendInvite

LEMMA ResendProviderInviteInv ==
    ASSUME Inv, NEW h \in Handlers, NEW q \in ProviderGrants, ResendProviderInvite(h, q)
    PROVE  Inv'
  <1> DEFINE new == IssueToken(pgrant[q].user, "PROVIDER_INVITE")
  <1>1. pgrant[q].user \in Users /\ Live(pgrant[q].user)
    BY DEF Inv, PGrantsOK, ResendProviderInvite
  <1>2. new \in Job /\ new.pc = "token" /\ JobOK(new) /\ FreshOK(new)
    BY <1>1, IssueTokenOK DEF Purposes
  <1> QED
    BY <1>2, QuietBegin DEF ResendProviderInvite

LEMMA UpdateStaffInv ==
    ASSUME Inv, NEW h \in Handlers, NEW p \in Providers, NEW admin \in Users, NEW u \in Users,
           NEW role \in {"ADMIN", "WORKER"}, NEW active \in BOOLEAN,
           UpdateStaff(h, p, admin, u, role, active)
    PROVE  Inv'
  <1> DEFINE row == [role |-> role, active |-> active, by |-> "admin"]
             new == [Idle EXCEPT !.pc = "staff", !.user = u, !.provider = p, !.member = row]
  <1>1. row \in Member /\ row.by = "admin"
    BY DEF Member, Roles
  <1>2. new \in Job /\ new.pc = "staff" /\ new.user = u /\ new.provider = p /\ new.member = row
    <2> HIDE DEF row
    <2> QED
      BY <1>1, IdleTyped DEF Idle, Job, Nullable
  <1>3. JobOK(new) /\ FreshOK(new)
    BY <1>1, <1>2 DEF JobOK, FreshOK
  <1> QED
    BY <1>2, <1>3, QuietBegin DEF UpdateStaff

LEMMA CreateServiceProviderInv ==
    ASSUME Inv, NEW h \in Handlers, NEW p \in Providers, NEW active \in {"active", "inactive"},
           NEW invited \in Nullable(Users), CreateServiceProvider(h, p, active, invited)
    PROVE  Inv'
  <1> DEFINE new == IF invited = NoId THEN Idle
                    ELSE [Idle EXCEPT !.pc = "invite", !.user = invited, !.provider = p]
  <1>1. /\ new \in Job /\ new.pc \in {"idle", "invite"}
        /\ new.pc = "invite" => new.user \in Users /\ new.provider \in Providers
    BY IdleTyped DEF Idle, Job, Nullable
  <1>2. Begin(h, new) /\ UNCHANGED <<account, token, invite, owner, grant, member, pgrant>>
    BY DEF CreateServiceProvider
  <1>3. provider' \in [Providers -> Activity]
    BY DEF Inv, Typed, CreateServiceProvider, Activity
  <1> HIDE DEF new
  <1>4. /\ Alone(h) /\ job' \in [Handlers -> Job] /\ late' = late
        /\ job'[h] = new /\ job[h].pc = "idle"
    BY <1>1, <1>2, BeginStep
  <1>5. Typed'
    BY <1>2, <1>3, <1>4 DEF Inv, Typed
  <1>6. UsesOK'
    BY <1>1, <1>2, <1>4, <1>5, UsesKept DEF Inv, Typed, TokenRow
  <1>7. JobOK(job[h])' /\ FreshOK(job[h])'
    BY <1>1, <1>4 DEF JobOK, FreshOK
  <1> QED
    BY <1>2, <1>4, <1>5, <1>6, <1>7, QuietStep

\* A request fails, or a process stops.
LEMMA AbandonInv ==
    ASSUME Inv, NEW h \in Handlers, Abandon(h)
    PROVE  Inv'
  <1> DEFINE m == <<job[h].provider, job[h].user>>
             died == {x \in {m} : job[h].pc = "providerGrant"}
  <1>1. /\ job' \in [Handlers -> Job] /\ job'[h] = Idle
        /\ \A k \in Handlers \ {h} : job'[k] = job[k]
    BY IdleTyped DEF Inv, Typed, Abandon
  <1>2. Alone(h) /\ UNCHANGED <<account, token, invite, owner, grant, provider, member, pgrant>>
    BY <1>1 DEF Alone, Abandon
  <1>0. /\ late \in Late /\ late' = [late EXCEPT !.members = @ \cup died]
        /\ died \subseteq Providers \X Users
    <2>1. late \in Late /\ late' = [late EXCEPT !.members = @ \cup died]
      BY DEF Inv, Typed, Abandon
    <2>2. job[h].pc = "providerGrant" => m \in Providers \X Users
      BY DEF Inv, JobOK
    <2> QED
      BY <2>1, <2>2
  <1> HIDE DEF died
  <1>7. /\ late' \in Late /\ late'.members = late.members \cup died
        /\ late'.sessions = late.sessions /\ late'.tokens = late.tokens /\ late'.grants = late.grants
    BY <1>0 DEF Late
  <1>8. Marked(h)
    BY <1>2, <1>7 DEF Marked, LateGrows
  <1>3. Typed'
    BY <1>1, <1>2, <1>7 DEF Inv, Typed
  <1>4. UsesOK'
    <2>1. job'[h].pc = "idle"
      BY <1>1, IdleTyped
    <2>2. \A t \in Tokens : token'[t].uses <= token[t].uses
      BY <1>2 DEF Inv, Typed, TokenRow
    <2> QED
      BY <1>2, <1>3, <2>1, <2>2, UsesKept
  <1>5. JobOK(job[h])' /\ FreshOK(job[h])' /\ RowsOK'
    BY <1>1, <1>2, IdleTyped
       DEF JobOK, FreshOK, Inv, RowsOK, TokensOK, GrantsOK, PGrantsOK, Unique, MembersOK
  <1>6. AccountsKept /\ GrantsKept /\ PGrantsKept
    BY <1>2 DEF AccountsKept, GrantsKept, PGrantsKept
  <1>9. Sessions'
    BY <1>2, <1>7 DEF Inv, Sessions, SessionsOK
  <1>10. Invited'
    <2> SUFFICES ASSUME NEW p \in Providers, NEW u \in Users, member[p][u].by = "invite",
                        <<p, u>> \notin late'.members
                 PROVE  \/ \E q \in ProviderGrants : pgrant[q].provider = p /\ pgrant[q].user = u
                        \/ \E k \in Handlers : /\ job'[k].pc = "providerGrant"
                                               /\ job'[k].provider = p /\ job'[k].user = u
      BY <1>2 DEF Invited
    <2>1. <<p, u>> \notin late.members /\ <<p, u>> \notin died
      BY <1>7
    <2>2. ~(job[h].pc = "providerGrant" /\ job[h].provider = p /\ job[h].user = u)
      BY <2>1 DEF died
    <2> QED
      BY <1>1, <2>1, <2>2 DEF Inv, Invited
  <1> QED
    BY <1>2, <1>3, <1>4, <1>5, <1>6, <1>8, <1>9, <1>10, StepInv

------------------------------------------------------------------------------
(* Requests that write an account.                                         *)

LEMMA AccountStep ==
    ASSUME Inv, NEW h \in Handlers, Alone(h), UNCHANGED <<token, grant, pgrant, member, late>>,
           AccountsKept, EpochsKept, Typed', UsesOK', job[h].pc # "providerGrant",
           JobOK(job[h])', FreshOK(job[h])' /\ SessionsOK'
    PROVE  Inv'
  <1>1. RowsOK'
    BY DEF Inv, RowsOK, TokensOK, GrantsOK, PGrantsOK, Unique, MembersOK, AccountsKept
  <1>2. GrantsKept /\ PGrantsKept
    BY DEF GrantsKept, PGrantsKept
  <1> Marked(h)
    BY DEF Marked, LateGrows, EpochsKept
  <1>3. Sessions' /\ Invited'
    <2>1. \A k \in Handlers \ {h} : job'[k] = job[k]
      BY DEF Alone
    <2>2. Sessions /\ Invited
      BY DEF Inv
    <2>3. Sessions'
      BY <2>2 DEF Sessions, SessionsOK
    <2>4. Invited'
      BY <2>1, <2>2 DEF Invited
    <2> QED
      BY <2>3, <2>4
  <1> QED
    BY <1>1, <1>2, <1>3, StepInv

LEMMA CreateUserStep ==
    ASSUME Inv, NEW u \in Users, ~Live(u), NEW inOrg \in BOOLEAN, NEW must \in BOOLEAN,
           CreateUser(u, inOrg, must), UNCHANGED late
    PROVE  /\ account' \in [Users -> Account] /\ AccountsKept /\ EpochsKept /\ Live(u)'
           /\ account'[u].epoch = 1 /\ SessionsOK'
  <1> DEFINE row == [state |-> "live", org |-> inOrg, must |-> must, epoch |-> 1, session |-> 0]
  <1>1. row \in Account
    BY AccountsAssumption DEF Account
  <1>2. account \in [Users -> Account] /\ account' = [account EXCEPT ![u] = row]
    BY DEF Inv, Typed, CreateUser
  <1>3. /\ account' \in [Users -> Account] /\ account'[u] = row
        /\ \A x \in Users \ {u} : account'[x] = account[x]
    BY <1>1, <1>2
  <1>4. row.state = "live" /\ row.epoch = 1 /\ row.session = 0
    OBVIOUS
  <1> HIDE DEF row
  <1>5. AccountsKept /\ EpochsKept
    BY <1>3, <1>4 DEF AccountsKept, EpochsKept
  <1>6. SessionsOK'
    BY <1>3, <1>4 DEF SessionsOK, Inv, Sessions
  <1> QED
    BY <1>3, <1>4, <1>5, <1>6

\* A request that starts with a new account.
LEMMA CreatingBegin ==
    ASSUME Inv, NEW h \in Handlers, NEW new \in Job, Begin(h, new), UNCHANGED <<token, grant, pgrant, member>>,
           AccountsKept, EpochsKept, account' \in [Users -> Account], SessionsOK',
           UNCHANGED <<invite, owner, provider>>,
           new.pc \notin {"reset", "resetWrite"}, JobOK(new)', FreshOK(new)'
    PROVE  Inv'
  <1>1. /\ Alone(h) /\ job' \in [Handlers -> Job] /\ late' = late
        /\ job'[h] = new /\ job[h].pc = "idle"
    BY BeginStep
  <1>2. Typed'
    BY <1>1 DEF Inv, Typed
  <1>3. UsesOK'
    BY <1>1, <1>2, UsesKept DEF Inv, Typed, TokenRow
  <1>4. JobOK(job[h])'
    BY <1>1 DEF JobOK
  <1>5. FreshOK(job[h])' /\ SessionsOK'
    BY <1>1 DEF FreshOK
  <1> QED
    BY <1>1, <1>2, <1>3, <1>4, <1>5, AccountStep

LEMMA RegisterInv ==
    ASSUME Inv, NEW h \in Handlers, NEW u \in Users, Register(h, u)
    PROVE  Inv'
  <1> DEFINE new == [Idle EXCEPT !.pc = "saveRefresh", !.user = u, !.epoch = 1]
  <1>1. new \in Job /\ new.pc = "saveRefresh" /\ new.user = u /\ new.epoch = 1
    <2>1. 1 \in 0..MaxEpoch
      BY AccountsAssumption
    <2> QED
      BY <2>1, IdleTyped DEF Idle, Job, Nullable
  <1>2. /\ account' \in [Users -> Account] /\ AccountsKept /\ EpochsKept /\ Live(u)'
        /\ account'[u].epoch = 1 /\ SessionsOK'
    BY CreateUserStep DEF Register, Begin
  <1>3. Begin(h, new) /\ UNCHANGED <<token, invite, owner, grant, provider, member, pgrant>>
    BY DEF Register
  <1> HIDE DEF new
  <1>4. JobOK(new)' /\ FreshOK(new)'
    BY <1>1, <1>2 DEF JobOK, FreshOK
  <1> QED
    BY <1>1, <1>2, <1>3, <1>4, CreatingBegin

LEMMA CreateResidentInv ==
    ASSUME Inv, NEW h \in Handlers, NEW u \in Users, NEW sendInvite \in BOOLEAN,
           CreateResident(h, u, sendInvite)
    PROVE  Inv'
  <1> DEFINE new == IF sendInvite THEN IssueToken(u, "RESIDENT_INVITE") ELSE Idle
  <1>1. new \in Job /\ new.pc \in {"idle", "token"} /\ (new.pc = "token" => new.user = u)
    BY IdleTyped DEF IssueToken, Idle, Job, Nullable, Purposes
  <1>2. /\ account' \in [Users -> Account] /\ AccountsKept /\ EpochsKept /\ Live(u)'
        /\ SessionsOK'
    BY CreateUserStep DEF CreateResident, Begin
  <1>3. Begin(h, new) /\ UNCHANGED <<token, invite, owner, grant, provider, member, pgrant>>
    BY DEF CreateResident
  <1> HIDE DEF new
  <1>4. JobOK(new)' /\ FreshOK(new)'
    BY <1>1, <1>2 DEF JobOK, FreshOK
  <1> QED
    BY <1>1, <1>2, <1>3, <1>4, CreatingBegin

\* An account that is there stays as it is.
LEMMA FoundOrCreated ==
    ASSUME Inv, NEW u \in Users, IF Live(u) THEN UNCHANGED account ELSE CreateUser(u, FALSE, TRUE),
           UNCHANGED late
    PROVE  /\ account' \in [Users -> Account] /\ AccountsKept /\ EpochsKept /\ Live(u)'
           /\ SessionsOK'
  <1>1. CASE Live(u)
    BY <1>1 DEF Inv, Typed, AccountsKept, EpochsKept, SessionsOK, Sessions
  <1>2. CASE ~Live(u)
    BY <1>2, CreateUserStep
  <1> QED
    BY <1>1, <1>2

LEMMA InviteOwnerInv ==
    ASSUME Inv, NEW h \in Handlers, NEW o \in Owners, NEW u \in Users, InviteOwner(h, o, u)
    PROVE  Inv'
  <1> DEFINE new == [Idle EXCEPT !.pc = IF Live(u) /\ ~account[u].must THEN "activeGrant"
                                        ELSE "pendingGrant", !.user = u, !.owner = o]
  <1>1. /\ new \in Job /\ new.pc \in {"activeGrant", "pendingGrant"}
        /\ new.pc = "activeGrant" => Earned(u)
        /\ new.user = u /\ new.owner = o
    BY IdleTyped DEF Idle, Job, Nullable
  <1>2. /\ account' \in [Users -> Account] /\ AccountsKept /\ EpochsKept /\ Live(u)'
        /\ SessionsOK'
    BY FoundOrCreated DEF InviteOwner, Begin
  <1>3. Begin(h, new) /\ UNCHANGED <<token, invite, owner, grant, provider, member, pgrant>>
    BY DEF InviteOwner
  <1> HIDE DEF new
  <1>4. PICK j \in Job : j = new
    BY <1>1
  <1>5. j.pc = "activeGrant" => Earned(u)'
    BY <1>1, <1>2, <1>4 DEF AccountsKept
  <1>6. JobOK(j)' /\ FreshOK(j)'
    BY <1>1, <1>2, <1>4, <1>5 DEF JobOK, FreshOK
  <1> QED
    BY <1>1, <1>2, <1>3, <1>4, <1>6, CreatingBegin

LEMMA InviteProviderInv ==
    ASSUME Inv, NEW h \in Handlers, NEW p \in Providers, NEW u \in Users, InviteProvider(h, p, u)
    PROVE  Inv'
  <1> DEFINE row == [role |-> "ADMIN", active |-> TRUE, by |-> "invite"]
             new == [Idle EXCEPT !.pc = "membership", !.user = u, !.provider = p, !.member = row]
  <1>1. row \in Member /\ row.by = "invite"
    BY DEF Member, Roles
  <1>2. new \in Job /\ new.pc = "membership" /\ new.user = u /\ new.provider = p /\ new.member = row
    <2> HIDE DEF row
    <2> QED
      BY <1>1, IdleTyped DEF Idle, Job, Nullable
  <1>3. /\ account' \in [Users -> Account] /\ AccountsKept /\ EpochsKept /\ Live(u)'
        /\ SessionsOK'
    BY FoundOrCreated DEF InviteProvider, Begin, Continue
  <1>4. /\ Begin(h, new) \/ (job[h].pc = "invite" /\ Continue(h, new))
        /\ UNCHANGED <<token, invite, owner, grant, provider, member, pgrant>>
    BY DEF InviteProvider
  <1> HIDE DEF new
  <1>5. JobOK(new)' /\ FreshOK(new)'
    BY <1>1, <1>2, <1>3 DEF JobOK, FreshOK
  <1>6. CASE Begin(h, new)
    BY <1>2, <1>3, <1>4, <1>5, <1>6, CreatingBegin
  <1>7. CASE job[h].pc = "invite" /\ Continue(h, new)
    <2>1. Alone(h) /\ job' \in [Handlers -> Job] /\ late' = late /\ job'[h] = new
      BY <1>2, <1>7, ContinueStep
    <2>2. Typed'
      BY <1>3, <1>4, <2>1 DEF Inv, Typed
    <2>3. UsesOK'
      BY <1>2, <1>4, <2>1, <2>2, UsesKept DEF Inv, Typed, TokenRow
    <2>4. JobOK(job[h])'
      BY <1>5, <2>1 DEF JobOK
    <2>5. FreshOK(job[h])' /\ SessionsOK'
      BY <1>3, <1>5, <2>1 DEF FreshOK
    <2> QED
      BY <1>3, <1>4, <1>7, <2>1, <2>2, <2>3, <2>4, <2>5, AccountStep
  <1> QED
    BY <1>4, <1>6, <1>7

LEMMA CreateStaffInv ==
    ASSUME Inv, NEW h \in Handlers, NEW p \in Providers, NEW admin \in Users, NEW u \in Users,
           NEW role \in {"ADMIN", "WORKER"}, NEW active \in BOOLEAN,
           CreateStaff(h, p, admin, u, role, active)
    PROVE  Inv'
  <1> DEFINE row == [role |-> role, active |-> active, by |-> "admin"]
             new == [Idle EXCEPT !.pc = "staff", !.user = u, !.provider = p, !.member = row]
  <1>1. row \in Member /\ row.by = "admin"
    BY DEF Member, Roles
  <1>2. new \in Job /\ new.pc = "staff" /\ new.user = u /\ new.provider = p /\ new.member = row
    <2> HIDE DEF row
    <2> QED
      BY <1>1, IdleTyped DEF Idle, Job, Nullable
  <1>3. /\ account' \in [Users -> Account] /\ AccountsKept /\ EpochsKept /\ Live(u)'
        /\ SessionsOK'
    BY CreateUserStep DEF CreateStaff, Begin
  <1>4. Begin(h, new) /\ UNCHANGED <<token, invite, owner, grant, provider, member, pgrant>>
    BY DEF CreateStaff
  <1> HIDE DEF new
  <1>5. JobOK(new)' /\ FreshOK(new)'
    BY <1>1, <1>2, <1>3 DEF JobOK, FreshOK
  <1> QED
    BY <1>2, <1>3, <1>4, <1>5, CreatingBegin

\* A request ends.
LEMMA FinishStep ==
    ASSUME Inv, NEW h \in Handlers, Finish(h), job[h].pc # "idle"
    PROVE  /\ Alone(h) /\ job' \in [Handlers -> Job] /\ late' = late
           /\ job'[h].pc = "idle" /\ JobOK(job[h])' /\ FreshOK(job[h])'
  <1>1. Alone(h) /\ job' \in [Handlers -> Job] /\ late' = late /\ job'[h] = Idle
    BY IdleTyped, ContinueStep DEF Finish
  <1>2. job'[h].pc = "idle"
    BY <1>1, IdleTyped
  <1>3. JobOK(job[h])' /\ FreshOK(job[h])'
    BY <1>2 DEF JobOK, FreshOK
  <1> QED
    BY <1>1, <1>2, <1>3 DEF Alone

LEMMA SaveRefreshTokenInv ==
    ASSUME Inv, NEW h \in Handlers, SaveRefreshToken(h)
    PROVE  Inv'
  <1> DEFINE u == job[h].user
  <1>1. job[h] \in Job /\ JobOK(job[h]) /\ FreshOK(job[h]) /\ job[h].pc = "saveRefresh"
    BY DEF Inv, Typed, SaveRefreshToken
  <1>2. /\ u \in Users /\ job[h].epoch \in 0..MaxEpoch
        /\ u \in late.sessions \/ job[h].epoch = account[u].epoch
    BY <1>1 DEF Job, JobOK, FreshOK
  <1>3. /\ Alone(h) /\ job' \in [Handlers -> Job] /\ late' = late
        /\ job'[h].pc = "idle" /\ JobOK(job[h])' /\ FreshOK(job[h])'
    BY <1>1, FinishStep DEF SaveRefreshToken
  <1>4. /\ account \in [Users -> Account]
        /\ account' = [account EXCEPT ![u].session = job[h].epoch]
        /\ UNCHANGED <<token, invite, owner, grant, provider, member, pgrant>>
    BY DEF Inv, Typed, SaveRefreshToken
  <1>5. account' \in [Users -> Account]
    BY <1>2, <1>4 DEF Account
  <1>6. AccountsKept /\ EpochsKept
    BY <1>2, <1>4 DEF AccountsKept, EpochsKept, Account
  <1>7. SessionsOK'
    <2>1. SessionsOK
      BY DEF Inv, Sessions, SessionsOK
    <2> QED
      BY <1>2, <1>3, <1>4, <2>1 DEF SessionsOK, Account
  <1>8. Typed'
    BY <1>3, <1>4, <1>5 DEF Inv, Typed
  <1>9. UsesOK'
    BY <1>3, <1>4, <1>8, UsesSame
  <1> QED
    BY <1>1, <1>3, <1>4, <1>6, <1>7, <1>8, <1>9, AccountStep

LEMMA ChangePasswordInv ==
    ASSUME Inv, NEW h \in Handlers, ChangePassword(h)
    PROVE  Inv'
  <1> DEFINE u == job[h].user
  <1>1. job[h] \in Job /\ JobOK(job[h]) /\ job[h].pc = "changePassword"
    BY DEF Inv, Typed, ChangePassword
  <1>2. u \in Users
    BY <1>1 DEF JobOK
  <1>3. /\ Alone(h) /\ job' \in [Handlers -> Job] /\ late' = late
        /\ job'[h].pc = "idle" /\ JobOK(job[h])' /\ FreshOK(job[h])'
    BY <1>1, FinishStep DEF ChangePassword
  <1>4. /\ account \in [Users -> Account]
        /\ account' = [account EXCEPT ![u].must = FALSE]
        /\ UNCHANGED <<token, invite, owner, grant, provider, member, pgrant>>
    BY DEF Inv, Typed, ChangePassword
  <1>5. account' \in [Users -> Account]
    BY <1>2, <1>4 DEF Account
  <1>6. AccountsKept /\ EpochsKept
    BY <1>2, <1>4 DEF AccountsKept, EpochsKept, Account
  <1>7. SessionsOK'
    <2>1. SessionsOK
      BY DEF Inv, Sessions, SessionsOK
    <2> QED
      BY <1>2, <1>3, <1>4, <2>1 DEF SessionsOK, Account
  <1>8. Typed'
    BY <1>3, <1>4, <1>5 DEF Inv, Typed
  <1>9. UsesOK'
    BY <1>3, <1>4, <1>8, UsesSame
  <1> QED
    BY <1>1, <1>3, <1>4, <1>6, <1>7, <1>8, <1>9, AccountStep

------------------------------------------------------------------------------
(* Requests that write an invitation, a grant or a membership.             *)

LEMMA CreateResidentInviteInv ==
    ASSUME Inv, NEW h \in Handlers, CreateResidentInvite(h)
    PROVE  Inv'
  <1>1. job[h] \in Job /\ JobOK(job[h]) /\ job[h].pc = "residentInvite"
    BY DEF Inv, Typed, CreateResidentInvite
  <1>2. /\ Alone(h) /\ job' \in [Handlers -> Job] /\ late' = late
        /\ job'[h].pc = "idle" /\ JobOK(job[h])' /\ FreshOK(job[h])'
    BY <1>1, FinishStep DEF CreateResidentInvite
  <1>3. UNCHANGED <<account, token, owner, grant, provider, member, pgrant>>
    BY DEF CreateResidentInvite
  <1>4. invite' \in [Tokens -> {"none", "SENT", "ACCEPTED", "FAILED"}]
    BY DEF Inv, Typed, CreateResidentInvite
  <1>5. Typed'
    BY <1>2, <1>3, <1>4 DEF Inv, Typed
  <1>6. UsesOK'
    BY <1>2, <1>3, <1>5, UsesSame
  <1> QED
    BY <1>1, <1>2, <1>3, <1>5, <1>6, QuietStep

LEMMA GrantStep ==
    ASSUME Inv, NEW h \in Handlers, Alone(h), UNCHANGED <<account, token, pgrant, member>>,
           Typed', UsesOK', GrantsOK', Unique', GrantsKept, job[h].pc # "providerGrant",
           JobOK(job[h])', FreshOK(job[h])',
           LateGrows, late'.members = late.members,
           \A g \in Grants : \/ grant'[g].status = "DISABLED" => grant[g].status = "DISABLED"
                            \/ g \in late'.grants \/ Activating(g) \ {h} = {}
    PROVE  Inv'
  <1>1. RowsOK'
    BY DEF Inv, RowsOK, TokensOK, PGrantsOK, MembersOK
  <1>2. AccountsKept /\ PGrantsKept
    BY DEF AccountsKept, PGrantsKept
  <1> Marked(h)
    BY DEF Marked
  <1>3. Sessions' /\ Invited'
    <2>1. \A k \in Handlers \ {h} : job'[k] = job[k]
      BY DEF Alone
    <2>2. Sessions /\ Invited
      BY DEF Inv
    <2>3. Sessions'
      BY <2>2 DEF Sessions, SessionsOK, LateGrows
    <2>4. Invited'
      BY <2>1, <2>2 DEF Invited
    <2> QED
      BY <2>3, <2>4
  <1> QED
    BY <1>1, <1>2, <1>3, StepInv

LEMMA CreatePendingGrantInv ==
    ASSUME Inv, NEW h \in Handlers, NEW g \in Grants, CreatePendingGrant(h, g)
    PROVE  Inv'
  <1> DEFINE u == job[h].user
             new == IssueToken(u, "OWNER_INVITE")
             row == [status |-> "PENDING", owner |-> job[h].owner, user |-> u]
  <1>1. job[h] \in Job /\ JobOK(job[h]) /\ job[h].pc = "pendingGrant"
    BY DEF Inv, Typed, CreatePendingGrant
  <1>2. u \in Users /\ Live(u) /\ job[h].owner \in Owners
    BY <1>1 DEF JobOK
  <1>3. row \in Grant /\ row.status = "PENDING" /\ row.user = u /\ row.owner = job[h].owner
    BY <1>2 DEF Grant, Statuses, Nullable
  <1>4. new \in Job /\ new.pc = "token" /\ new.user = u
    BY <1>2, IssueTokenOK DEF Purposes
  <1>5. /\ Continue(h, new) /\ grant' = [grant EXCEPT ![g] = row] /\ grant \in [Grants -> Grant]
        /\ UNCHANGED <<account, token, invite, owner, provider, member, pgrant>>
        /\ grant[g].status = "none" /\ NoOpenGrant(u, job[h].owner)
    BY DEF CreatePendingGrant, Inv, Typed
  <1> HIDE DEF new, row
  <1>6. Alone(h) /\ job' \in [Handlers -> Job] /\ late' = late /\ job'[h] = new
    BY <1>1, <1>4, <1>5, ContinueStep
  <1>7. /\ grant' \in [Grants -> Grant] /\ grant'[g] = row
        /\ \A k \in Grants \ {g} : grant'[k] = grant[k]
    BY <1>3, <1>5
  <1>8. Typed'
    BY <1>5, <1>6, <1>7 DEF Inv, Typed
  <1>9. UsesOK'
    BY <1>4, <1>5, <1>6, <1>8, UsesSame
  <1>10. GrantsOK' /\ GrantsKept
    BY <1>2, <1>3, <1>5, <1>7 DEF Inv, GrantsOK, GrantsKept
  <1>11. Unique'
    BY <1>3, <1>5, <1>7 DEF Inv, Unique, NoOpenGrant, Open
  <1>12. JobOK(job[h])' /\ FreshOK(job[h])'
    BY <1>2, <1>4, <1>5, <1>6 DEF JobOK, FreshOK
  <1>13. /\ LateGrows /\ late'.members = late.members
         /\ \A k \in Grants : grant'[k].status = "DISABLED" => grant[k].status = "DISABLED"
    BY <1>3, <1>6, <1>7 DEF LateGrows
  <1> QED
    BY <1>1, <1>5, <1>6, <1>8, <1>9, <1>10, <1>11, <1>12, <1>13, GrantStep

LEMMA CreateActiveGrantInv ==
    ASSUME Inv, NEW h \in Handlers, NEW g \in Grants, CreateActiveGrant(h, g)
    PROVE  Inv'
  <1> DEFINE u == job[h].user
             row == [status |-> "ACTIVE", owner |-> job[h].owner, user |-> u]
  <1>1. job[h] \in Job /\ JobOK(job[h]) /\ job[h].pc = "activeGrant"
    BY DEF Inv, Typed, CreateActiveGrant
  <1>2. u \in Users /\ Earned(u) /\ job[h].owner \in Owners
    BY <1>1 DEF JobOK
  <1>3. row \in Grant /\ row.status = "ACTIVE" /\ row.user = u /\ row.owner = job[h].owner
    BY <1>2 DEF Grant, Statuses, Nullable
  <1>4. /\ Alone(h) /\ job' \in [Handlers -> Job] /\ late' = late
        /\ job'[h].pc = "idle" /\ JobOK(job[h])' /\ FreshOK(job[h])'
    BY <1>1, FinishStep DEF CreateActiveGrant
  <1>5. /\ grant' = [grant EXCEPT ![g] = row] /\ grant \in [Grants -> Grant]
        /\ UNCHANGED <<account, token, invite, owner, provider, member, pgrant>>
        /\ grant[g].status = "none" /\ NoOpenGrant(u, job[h].owner) /\ NoActiveGrant(job[h].owner)
    BY DEF CreateActiveGrant, Inv, Typed
  <1> HIDE DEF row
  <1>7. /\ grant' \in [Grants -> Grant] /\ grant'[g] = row
        /\ \A k \in Grants \ {g} : grant'[k] = grant[k]
    BY <1>3, <1>5
  <1>8. Typed'
    BY <1>4, <1>5, <1>7 DEF Inv, Typed
  <1>9. UsesOK'
    BY <1>4, <1>5, <1>8, UsesSame
  <1>10. GrantsOK' /\ GrantsKept
    BY <1>2, <1>3, <1>5, <1>7 DEF Inv, GrantsOK, GrantsKept
  <1>11. Unique'
    BY <1>3, <1>5, <1>7 DEF Inv, Unique, NoOpenGrant, NoActiveGrant, Open
  <1>13. /\ LateGrows /\ late'.members = late.members
         /\ \A k \in Grants : grant'[k].status = "DISABLED" => grant[k].status = "DISABLED"
    BY <1>3, <1>4, <1>7 DEF LateGrows
  <1> QED
    BY <1>1, <1>4, <1>5, <1>8, <1>9, <1>10, <1>11, <1>13, GrantStep

LEMMA ActivatePendingGrantInv ==
    ASSUME Inv, NEW h \in Handlers, ActivatePendingGrant(h)
    PROVE  Inv'
  <1> DEFINE u == job[h].user
             g == job[h].grant
  <1>1. job[h] \in Job /\ JobOK(job[h]) /\ job[h].pc = "activate"
    BY DEF Inv, Typed, ActivatePendingGrant
  <1>2. u \in Users /\ Earned(u) /\ g \in Grants /\ grant[g].status # "none"
    BY <1>1 DEF JobOK
  <1>4. /\ Alone(h) /\ job' \in [Handlers -> Job] /\ late' = late
        /\ job'[h].pc = "idle" /\ JobOK(job[h])' /\ FreshOK(job[h])'
    BY <1>1, FinishStep DEF ActivatePendingGrant
  <1>5. /\ grant' = [grant EXCEPT ![g].status = "ACTIVE", ![g].user = u] /\ grant \in [Grants -> Grant]
        /\ UNCHANGED <<account, token, invite, owner, provider, member, pgrant>>
        /\ MayActivate(g, u)
    BY DEF ActivatePendingGrant, Inv, Typed
  <1>7. /\ grant' \in [Grants -> Grant]
        /\ grant'[g].status = "ACTIVE" /\ grant'[g].user = u /\ grant'[g].owner = grant[g].owner
        /\ \A k \in Grants \ {g} : grant'[k] = grant[k]
    BY <1>2, <1>5 DEF Grant, Statuses, Nullable
  <1>8. Typed'
    BY <1>4, <1>5, <1>7 DEF Inv, Typed
  <1>9. UsesOK'
    BY <1>4, <1>5, <1>8, UsesSame
  <1>10. GrantsOK' /\ GrantsKept
    BY <1>2, <1>5, <1>7 DEF Inv, GrantsOK, GrantsKept
  <1>11. Unique'
    BY <1>2, <1>5, <1>7 DEF Inv, Unique, MayActivate, Open
  <1>13. /\ LateGrows /\ late'.members = late.members
         /\ \A k \in Grants : grant'[k].status = "DISABLED" => grant[k].status = "DISABLED"
    BY <1>2, <1>4, <1>7 DEF LateGrows
  <1> QED
    BY <1>1, <1>4, <1>5, <1>8, <1>9, <1>10, <1>11, <1>13, GrantStep

LEMMA DisableGrantInv ==
    ASSUME Inv, NEW h \in Handlers, DisableGrant(h)
    PROVE  Inv'
  <1> DEFINE g == job[h].grant
  <1>1. job[h] \in Job /\ JobOK(job[h]) /\ job[h].pc = "disable"
    BY DEF Inv, Typed, DisableGrant
  <1>2. g \in Grants /\ grant[g].status # "none"
    BY <1>1 DEF JobOK
  <1> DEFINE raced == {x \in {g} : Activating(x) # {}}
  <1>3. late \in Late /\ late' = [late EXCEPT !.grants = @ \cup raced] /\ raced \subseteq Grants
    BY <1>2 DEF Inv, Typed, DisableGrant
  <1> HIDE DEF raced
  <1>6. /\ late' \in Late /\ LateGrows /\ late'.members = late.members
        /\ late'.grants = late.grants \cup raced
    BY <1>3 DEF Late, LateGrows
  <1>4. /\ Alone(h) /\ job' \in [Handlers -> Job]
        /\ job'[h].pc = "idle" /\ JobOK(job[h])' /\ FreshOK(job[h])'
    BY IdleTyped DEF DisableGrant, Alone, JobOK, FreshOK, Inv, Typed
  <1>5. /\ grant' = [grant EXCEPT ![g].status = "DISABLED"] /\ grant \in [Grants -> Grant]
        /\ UNCHANGED <<account, token, invite, owner, provider, member, pgrant>>
    BY DEF DisableGrant, Inv, Typed
  <1>7. /\ grant' \in [Grants -> Grant]
        /\ grant'[g].status = "DISABLED" /\ grant'[g].user = grant[g].user
        /\ grant'[g].owner = grant[g].owner
        /\ \A k \in Grants \ {g} : grant'[k] = grant[k]
    BY <1>2, <1>5 DEF Grant, Statuses, Nullable
  <1>8. Typed'
    BY <1>4, <1>5, <1>6, <1>7 DEF Inv, Typed
  <1>9. UsesOK'
    BY <1>4, <1>5, <1>8, UsesSame
  <1>10. GrantsOK' /\ GrantsKept
    BY <1>2, <1>5, <1>7 DEF Inv, GrantsOK, GrantsKept
  <1>11. Unique'
    BY <1>2, <1>5, <1>7 DEF Inv, Unique, Open
  <1>12. \A k \in Grants : \/ grant'[k].status = "DISABLED" => grant[k].status = "DISABLED"
                           \/ k \in late'.grants \/ Activating(k) \ {h} = {}
    BY <1>6, <1>7 DEF raced
  <1> QED
    BY <1>1, <1>4, <1>5, <1>6, <1>12, <1>8, <1>9, <1>10, <1>11, GrantStep

LEMMA UpsertMembershipInv ==
    ASSUME Inv, NEW h \in Handlers, UpsertMembership(h)
    PROVE  Inv'
  <1> DEFINE j == job[h]
             p == j.provider
             u == j.user
             new == IF j.pc = "membership" THEN [j EXCEPT !.pc = "providerGrant"] ELSE Idle
  <1>1. j \in Job /\ JobOK(j) /\ j.pc \in {"membership", "staff"}
    BY DEF Inv, Typed, UpsertMembership
  <1>2. /\ p \in Providers /\ u \in Users /\ j.member \in Member /\ j.member.by # "none"
        /\ j.pc = "staff" => j.member.by = "admin"
        /\ j.pc = "membership" => Live(u)
    BY <1>1 DEF JobOK, Job
  <1>3. /\ new \in Job /\ new.pc \in {"idle", "providerGrant"}
        /\ new.pc = "providerGrant" => new.user = u /\ new.provider = p /\ j.pc = "membership"
        /\ new.pc = "idle" => j.pc = "staff"
    BY <1>1, IdleTyped DEF Job
  <1>4. /\ Continue(h, new) /\ member' = [member EXCEPT ![p][u] = j.member]
        /\ member \in [Providers -> [Users -> Member]]
        /\ UNCHANGED <<account, token, invite, owner, grant, provider, pgrant>>
    BY DEF UpsertMembership, Finish, Inv, Typed
  <1> HIDE DEF new
  <1>5. Alone(h) /\ job' \in [Handlers -> Job] /\ late' = late /\ job'[h] = new
    BY <1>1, <1>3, <1>4, ContinueStep
  <1>6. /\ member' \in [Providers -> [Users -> Member]] /\ member'[p][u] = j.member
        /\ \A x \in Providers, y \in Users : ~(x = p /\ y = u) => member'[x][y] = member[x][y]
    BY <1>2, <1>4
  <1>7. Typed'
    BY <1>4, <1>5, <1>6 DEF Inv, Typed
  <1>8. UsesOK'
    BY <1>3, <1>4, <1>5, <1>7, UsesSame
  <1>9. MembersOK'
    BY <1>2, <1>6 DEF Inv, MembersOK
  <1>10. RowsOK'
    BY <1>4, <1>9 DEF Inv, RowsOK, TokensOK, GrantsOK, PGrantsOK, Unique
  <1>11. AccountsKept /\ GrantsKept /\ PGrantsKept
    BY <1>4 DEF AccountsKept, GrantsKept, PGrantsKept
  <1>14. Marked(h)
    BY <1>4, <1>5 DEF Marked, LateGrows
  <1>12. JobOK(job[h])' /\ FreshOK(job[h])'
    BY <1>2, <1>3, <1>4, <1>5 DEF JobOK, FreshOK
  <1>13. Sessions' /\ Invited'
    <2>1. \A k \in Handlers \ {h} : job'[k] = job[k]
      BY <1>5 DEF Alone
    <2>2. Sessions /\ Invited
      BY DEF Inv
    <2>3. Sessions'
      BY <1>4, <1>5, <2>2 DEF Sessions, SessionsOK
    <2>4. Invited'
      <3> SUFFICES ASSUME NEW x \in Providers, NEW y \in Users, member'[x][y].by = "invite",
                          <<x, y>> \notin late.members
                   PROVE  \/ \E q \in ProviderGrants : pgrant'[q].provider = x /\ pgrant'[q].user = y
                          \/ \E k \in Handlers : /\ job'[k].pc = "providerGrant"
                                                 /\ job'[k].provider = x /\ job'[k].user = y
        BY <1>5 DEF Invited
      <3>1. CASE x = p /\ y = u
        BY <1>2, <1>3, <1>5, <1>6, <3>1
      <3>2. CASE ~(x = p /\ y = u)
        <4>1. member[x][y].by = "invite"
          BY <1>6, <3>2
        <4> QED
          BY <1>1, <1>4, <2>1, <2>2, <4>1 DEF Invited
      <3> QED
        BY <3>1, <3>2
    <2> QED
      BY <2>3, <2>4
  <1> QED
    BY <1>5, <1>7, <1>8, <1>10, <1>11, <1>12, <1>13, <1>14, StepInv

\* A provider's grant is made or disabled: no membership loses the grant that restrains it.
LEMMA PGrantStep ==
    ASSUME Inv, NEW h \in Handlers, Alone(h), UNCHANGED <<account, token, grant, member, late>>,
           Typed', UsesOK', PGrantsOK', PGrantsKept, JobOK(job[h])', FreshOK(job[h])',
           job[h].pc = "providerGrant" =>
               \E q \in ProviderGrants : /\ pgrant'[q].provider = job[h].provider
                                         /\ pgrant'[q].user = job[h].user
    PROVE  Inv'
  <1>1. RowsOK'
    BY DEF Inv, RowsOK, TokensOK, GrantsOK, Unique, MembersOK
  <1>2. AccountsKept /\ GrantsKept
    BY DEF AccountsKept, GrantsKept
  <1> Marked(h)
    BY DEF Marked, LateGrows
  <1>3. Sessions' /\ Invited'
    <2>1. \A k \in Handlers \ {h} : job'[k] = job[k]
      BY DEF Alone
    <2>2. Sessions /\ Invited
      BY DEF Inv
    <2>3. Sessions'
      BY <2>2 DEF Sessions, SessionsOK
    <2>4. \A q \in ProviderGrants : pgrant[q].provider \in Providers => pgrant[q].status # "none"
      BY AccountsAssumption DEF Inv, PGrantsOK
    <2>5. Invited'
      BY <2>1, <2>2, <2>4 DEF Invited, PGrantsKept
    <2> QED
      BY <2>3, <2>5
  <1> QED
    BY <1>1, <1>2, <1>3, StepInv

LEMMA CreateProviderGrantInv ==
    ASSUME Inv, NEW h \in Handlers, NEW q \in ProviderGrants, CreateProviderGrant(h, q)
    PROVE  Inv'
  <1> DEFINE u == job[h].user
             new == IssueToken(u, "PROVIDER_INVITE")
             row == [status |-> "PENDING", provider |-> job[h].provider, user |-> u]
  <1>1. job[h] \in Job /\ JobOK(job[h]) /\ job[h].pc = "providerGrant"
    BY DEF Inv, Typed, CreateProviderGrant
  <1>2. u \in Users /\ Live(u) /\ job[h].provider \in Providers
    BY <1>1 DEF JobOK
  <1>3. row \in ProviderGrant /\ row.status = "PENDING" /\ row.user = u /\ row.provider = job[h].provider
    BY <1>2 DEF ProviderGrant, Statuses, Nullable
  <1>4. new \in Job /\ new.pc = "token" /\ new.user = u
    BY <1>2, IssueTokenOK DEF Purposes
  <1>5. /\ Continue(h, new) /\ pgrant' = [pgrant EXCEPT ![q] = row]
        /\ pgrant \in [ProviderGrants -> ProviderGrant]
        /\ UNCHANGED <<account, token, invite, owner, provider, member, grant>>
        /\ pgrant[q].status = "none"
    BY DEF CreateProviderGrant, Inv, Typed
  <1> HIDE DEF new, row
  <1>6. Alone(h) /\ job' \in [Handlers -> Job] /\ late' = late /\ job'[h] = new
    BY <1>1, <1>4, <1>5, ContinueStep
  <1>7. /\ pgrant' \in [ProviderGrants -> ProviderGrant] /\ pgrant'[q] = row
        /\ \A k \in ProviderGrants \ {q} : pgrant'[k] = pgrant[k]
    BY <1>3, <1>5
  <1>8. Typed'
    BY <1>5, <1>6, <1>7 DEF Inv, Typed
  <1>9. UsesOK'
    BY <1>4, <1>5, <1>6, <1>8, UsesSame
  <1>10. PGrantsOK' /\ PGrantsKept
    BY <1>2, <1>3, <1>5, <1>7 DEF Inv, PGrantsOK, PGrantsKept
  <1>11. JobOK(job[h])' /\ FreshOK(job[h])'
    BY <1>2, <1>4, <1>5, <1>6 DEF JobOK, FreshOK
  <1> QED
    BY <1>3, <1>5, <1>6, <1>7, <1>8, <1>9, <1>10, <1>11, PGrantStep

LEMMA DisableProviderGrantInv ==
    ASSUME Inv, NEW h \in Handlers, DisableProviderGrant(h)
    PROVE  Inv'
  <1> DEFINE q == job[h].grant
  <1>1. job[h] \in Job /\ JobOK(job[h]) /\ job[h].pc = "disableProvider"
    BY DEF Inv, Typed, DisableProviderGrant
  <1>2. q \in ProviderGrants /\ pgrant[q].status # "none"
    BY <1>1 DEF JobOK
  <1>3. /\ Alone(h) /\ job' \in [Handlers -> Job] /\ late' = late
        /\ job'[h].pc = "idle" /\ JobOK(job[h])' /\ FreshOK(job[h])'
    BY <1>1, FinishStep DEF DisableProviderGrant
  <1>4. /\ pgrant' = [pgrant EXCEPT ![q].status = "DISABLED"]
        /\ pgrant \in [ProviderGrants -> ProviderGrant]
        /\ UNCHANGED <<account, token, invite, owner, grant, provider, member>>
    BY DEF DisableProviderGrant, Inv, Typed
  <1>5. /\ pgrant' \in [ProviderGrants -> ProviderGrant]
        /\ pgrant'[q].status = "DISABLED" /\ pgrant'[q].user = pgrant[q].user
        /\ pgrant'[q].provider = pgrant[q].provider
        /\ \A k \in ProviderGrants \ {q} : pgrant'[k] = pgrant[k]
    BY <1>2, <1>4 DEF ProviderGrant, Statuses, Nullable
  <1>6. Typed'
    BY <1>3, <1>4, <1>5 DEF Inv, Typed
  <1>7. UsesOK'
    BY <1>3, <1>4, <1>6, UsesSame
  <1>8. PGrantsOK' /\ PGrantsKept
    BY <1>2, <1>4, <1>5 DEF Inv, PGrantsOK, PGrantsKept
  <1> QED
    BY <1>1, <1>3, <1>4, <1>6, <1>7, <1>8, PGrantStep

------------------------------------------------------------------------------
(* Tokens.                                                                 *)

LEMMA InsertTokenInv ==
    ASSUME Inv, NEW h \in Handlers, NEW t \in Tokens, InsertToken(h, t)
    PROVE  Inv'
  <1> DEFINE u == job[h].user
             row == [state |-> "live", user |-> u, purpose |-> job[h].purpose, uses |-> 0]
             new == IF job[h].purpose = "RESIDENT_INVITE" /\ account[u].org
                    THEN [job[h] EXCEPT !.pc = "residentInvite", !.token = t, !.doomed = {}] ELSE Idle
  <1>1. job[h] \in Job /\ JobOK(job[h]) /\ job[h].pc = "insertToken"
    BY DEF Inv, Typed, InsertToken
  <1>2. u \in Users /\ Live(u) /\ job[h].purpose \in Purposes
    BY <1>1 DEF JobOK, Job
  <1>3. /\ row \in TokenRow /\ row.state = "live" /\ row.user = u /\ row.uses = 0
        /\ NoToken("deleted") \in TokenRow
        /\ NoToken("deleted").state = "deleted" /\ NoToken("deleted").uses = 0
    BY <1>2 DEF TokenRow, NoToken, Nullable, Purposes
  <1>4. /\ new \in Job /\ new.pc \in {"idle", "residentInvite"}
        /\ new.pc = "residentInvite" => new.user = u /\ new.token = t
    BY <1>1, IdleTyped DEF Job, Nullable
  <1>5. /\ Continue(h, new)
        /\ token' = [x \in Tokens |-> IF x = t THEN row
                                      ELSE IF x \in job[h].doomed THEN NoToken("deleted") ELSE token[x]]
        /\ token \in [Tokens -> TokenRow] /\ token[t].state = "none"
        /\ UNCHANGED <<account, invite, owner, grant, provider, member, pgrant>>
    BY DEF InsertToken, Finish, Inv, Typed
  <1> HIDE DEF new, row
  <1>6. Alone(h) /\ job' \in [Handlers -> Job] /\ late' = late /\ job'[h] = new
    BY <1>1, <1>4, <1>5, ContinueStep
  <1>7. /\ token' \in [Tokens -> TokenRow]
        /\ \A x \in Tokens : \/ x = t /\ token'[x] = row
                             \/ token'[x] = NoToken("deleted")
                             \/ x # t /\ token'[x] = token[x]
    BY <1>3, <1>5
  <1>8. Typed'
    BY <1>5, <1>6, <1>7 DEF Inv, Typed
  <1>9. UsesOK'
    <2>1. \A x \in Tokens : token'[x].uses <= token[x].uses
      BY <1>3, <1>5, <1>7 DEF TokenRow
    <2> QED
      BY <1>4, <1>6, <1>8, <2>1, UsesKept
  <1>10. TokensOK'
    BY <1>2, <1>3, <1>5, <1>7 DEF Inv, TokensOK
  <1>11. RowsOK'
    BY <1>5, <1>10 DEF Inv, RowsOK, GrantsOK, PGrantsOK, Unique, MembersOK
  <1>12. AccountsKept /\ GrantsKept /\ PGrantsKept
    BY <1>5 DEF AccountsKept, GrantsKept, PGrantsKept
  <1>15. Marked(h)
    BY <1>3, <1>5, <1>6, <1>7 DEF Marked, LateGrows
  <1>13. JobOK(job[h])' /\ FreshOK(job[h])'
    BY <1>2, <1>4, <1>5, <1>6 DEF JobOK, FreshOK
  <1>14. Sessions' /\ Invited'
    <2>1. \A k \in Handlers \ {h} : job'[k] = job[k]
      BY <1>6 DEF Alone
    <2>2. Sessions /\ Invited
      BY DEF Inv
    <2>3. Sessions'
      BY <1>3, <1>5, <1>6, <1>7, <2>2 DEF Sessions, SessionsOK
    <2>4. Invited'
      BY <1>1, <1>5, <1>6, <2>1, <2>2 DEF Invited
    <2> QED
      BY <2>3, <2>4
  <1> QED
    BY <1>6, <1>8, <1>9, <1>11, <1>12, <1>13, <1>14, <1>15, StepInv

LEMMA ResetUserStep ==
    ASSUME Inv, NEW u \in Users, Live(u), account[u].epoch < MaxEpoch, account' = ResetUser(u),
           LateGrows
    PROVE  account' \in [Users -> Account] /\ AccountsKept /\ Earned(u)' /\ SessionsOK'
           /\ \A x \in Users \ {u} : account'[x] = account[x]
  <1>1. account \in [Users -> Account] /\ account[u].epoch \in 1..MaxEpoch
    BY DEF Inv, Typed, Account
  <1>2. account[u].epoch + 1 \in 1..MaxEpoch /\ 0 \in 0..MaxEpoch
    BY <1>1, AccountsAssumption
  <1>3. /\ account' = [account EXCEPT ![u] = [account[u] EXCEPT !.must = FALSE,
                                              !.epoch = account[u].epoch + 1, !.session = 0]]
    BY <1>1 DEF ResetUser, Account
  <1>4. account' \in [Users -> Account]
    BY <1>1, <1>2, <1>3 DEF Account
  <1>5. /\ Earned(u)' /\ account'[u].session = 0
        /\ \A x \in Users \ {u} : account'[x] = account[x]
    BY <1>1, <1>3 DEF Account
  <1>6. AccountsKept
    BY <1>5 DEF AccountsKept
  <1>7. SessionsOK'
    BY <1>5 DEF SessionsOK, Inv, Sessions, LateGrows
  <1> QED
    BY <1>4, <1>5, <1>6, <1>7

\* A request that has used its token cannot use it again.
LEMMA CommitUses ==
    ASSUME Inv, Typed', NEW h \in Handlers, Alone(h), job'[h].pc = "idle",
           job[h].pc = "resetWrite", job[h].token \in Tokens,
           token'[job[h].token].uses = token[job[h].token].uses + 1,
           \A x \in Tokens \ {job[h].token} : token'[x].uses <= token[x].uses
    PROVE  UsesOK'
  <1> DEFINE t == job[h].token
  <1> SUFFICES ASSUME NEW x \in Tokens
               PROVE  token'[x].uses + Cardinality(Resetting(x)') <= Cardinality(Handlers)
    BY DEF UsesOK
  <1>1. IsFiniteSet(Resetting(x)) /\ Cardinality(Handlers) \in Nat
    BY AccountsAssumption, FS_Subset, FS_CardinalityType DEF Resetting
  <1>2. Cardinality(Resetting(x)) \in Nat
    BY <1>1, FS_CardinalityType
  <1>3. token[x].uses \in Nat /\ token'[x].uses \in Nat
    BY DEF Inv, Typed, TokenRow
  <1>4. token[x].uses + Cardinality(Resetting(x)) <= Cardinality(Handlers)
    BY DEF Inv, UsesOK
  <1>5. CASE x = t
    <2>1. h \in Resetting(x) /\ Resetting(x)' = Resetting(x) \ {h}
      BY <1>5 DEF Resetting, Alone
    <2>2. Cardinality(Resetting(x)') = Cardinality(Resetting(x)) - 1
      BY <1>1, <2>1, FS_RemoveElement
    <2> QED
      BY <1>1, <1>2, <1>3, <1>4, <1>5, <2>2
  <1>6. CASE x # t
    <2>1. Resetting(x)' \subseteq Resetting(x)
      BY DEF Resetting, Alone
    <2>2. /\ Cardinality(Resetting(x)') <= Cardinality(Resetting(x))
          /\ Cardinality(Resetting(x)') \in Nat
      BY <1>1, <2>1, FS_Subset, FS_CardinalityType
    <2>3. token'[x].uses <= token[x].uses
      BY <1>6
    <2> QED
      BY <1>1, <1>2, <1>3, <1>4, <2>2, <2>3
  <1> QED
    BY <1>5, <1>6

LEMMA ResetCommitInv ==
    ASSUME Inv, NEW h \in Handlers, ResetCommit(h)
    PROVE  Inv'
  <1> DEFINE t == job[h].token
             pending == job[h].pending
  <1>0. PICK u \in Users : u = job[h].user
    BY DEF ResetCommit, Inv, JobOK
  <1>1. /\ job[h] \in Job /\ JobOK(job[h]) /\ FreshOK(job[h]) /\ job[h].pc = "resetWrite"
        /\ UNCHANGED <<owner, provider, member>>
    BY DEF Inv, Typed, ResetCommit
  <1>2. /\ u \in Users /\ Live(u) /\ t \in Tokens /\ pending \subseteq Grants
        /\ \A g \in pending : grant[g].status # "none" /\ (grant[g].user = u \/ Earned(grant[g].user))
        /\ t \in late.tokens \/ token[t].uses = 0
    BY <1>0, <1>1 DEF JobOK, FreshOK, Job
  <1> DEFINE stored == {x \in {u} : Storing(x) # {}}
             twice == {x \in {t} : Resetting(x) \ {h} # {}}
  <1>19. /\ late \in Late /\ stored \subseteq Users /\ twice \subseteq Tokens
         /\ late' = [late EXCEPT !.sessions = @ \cup stored, !.tokens = @ \cup twice]
    BY <1>0, <1>2 DEF Inv, Typed, ResetCommit
  <1> HIDE DEF stored, twice
  <1>20. /\ late' \in Late /\ LateGrows /\ late'.members = late.members
         /\ late'.sessions = late.sessions \cup stored /\ late'.tokens = late.tokens \cup twice
    BY <1>19 DEF Late, LateGrows
  <1>3. /\ Alone(h) /\ job' \in [Handlers -> Job]
        /\ job'[h].pc = "idle" /\ JobOK(job[h])' /\ FreshOK(job[h])'
    BY IdleTyped DEF ResetCommit, Alone, JobOK, FreshOK, Inv, Typed
  <1>4. /\ account' \in [Users -> Account] /\ AccountsKept /\ Earned(u)' /\ SessionsOK'
        /\ \A x \in Users \ {u} : account'[x] = account[x]
    BY <1>0, <1>2, <1>20, ResetUserStep DEF ResetCommit
  <1>5. /\ token' \in [Tokens -> TokenRow] /\ token \in [Tokens -> TokenRow]
        /\ token[t].state \in {"live", "used"}
        /\ token'[t].state = "used" /\ token'[t].uses = token[t].uses + 1
        /\ token'[t].user = token[t].user
        /\ \A x \in Tokens \ {t} : token'[x] = NoToken("deleted") \/ token'[x] = token[x]
    <2>1. NoToken("deleted") \in TokenRow
      BY DEF NoToken, TokenRow, Nullable, Purposes
    <2>2. token \in [Tokens -> TokenRow]
      BY DEF Inv, Typed
    <2>3. token' = [x \in Tokens |->
                   IF x = t THEN [token[x] EXCEPT !.state = "used", !.uses = @ + 1]
                   ELSE IF token[x].user = u /\ token[x].state \in {"live", "used"}
                        THEN NoToken("deleted") ELSE token[x]]
      BY <1>0 DEF ResetCommit
    <2>4. token[t].state \in {"live", "used"}
      BY DEF ResetCommit
    <2>5. token[t] \in TokenRow
      BY <1>2, <2>2
    <2>6. token'[t] = [token[t] EXCEPT !.state = "used", !.uses = @ + 1]
      BY <1>2, <2>3
    <2>7. /\ token'[t] \in TokenRow /\ token'[t].state = "used"
          /\ token'[t].uses = token[t].uses + 1 /\ token'[t].user = token[t].user
      <3>1. token[t].uses \in Nat
        BY <2>5 DEF TokenRow
      <3>2. token[t].uses + 1 \in Nat
        BY <3>1
      <3> DEFINE n == token[t].uses + 1
      <3>3. token'[t] = [token[t] EXCEPT !.state = "used", !.uses = n] /\ n \in Nat
        BY <2>6, <3>2
      <3> HIDE DEF n
      <3>4. token'[t] \in TokenRow /\ token'[t].state = "used" /\ token'[t].uses = n
            /\ token'[t].user = token[t].user
        BY <2>5, <3>3 DEF TokenRow
      <3> QED
        BY <3>4 DEF n
    <2>8. \A x \in Tokens \ {t} : token'[x] = NoToken("deleted") \/ token'[x] = token[x]
      BY <2>3
    <2>9. token' \in [Tokens -> TokenRow]
      <3>1. \A x \in Tokens : token'[x] \in TokenRow
        BY <2>1, <2>2, <2>7, <2>8
      <3> QED
        BY <2>3, <3>1
    <2> QED
      BY <2>2, <2>4, <2>7, <2>8, <2>9
  <1>6. NoToken("deleted").state = "deleted" /\ NoToken("deleted").uses = 0
    BY DEF NoToken
  <1>7. invite' \in [Tokens -> {"none", "SENT", "ACCEPTED", "FAILED"}]
    BY DEF Inv, Typed, ResetCommit
  <1>8. /\ grant \in [Grants -> Grant] /\ grant' \in [Grants -> Grant]
        /\ \A g \in Grants : grant'[g].owner = grant[g].owner /\ grant'[g].user = grant[g].user
        /\ \A g \in pending : grant'[g].status = "ACTIVE"
        /\ \A g \in Grants \ pending : grant'[g] = grant[g]
    <2>1. grant \in [Grants -> Grant]
      BY DEF Inv, Typed
    <2>2. grant' = [g \in Grants |-> IF g \in pending THEN [grant[g] EXCEPT !.status = "ACTIVE"]
                                     ELSE grant[g]]
      BY DEF ResetCommit
    <2> QED
      BY <1>2, <2>1, <2>2 DEF Grant, Statuses
  <1>9. /\ pgrant \in [ProviderGrants -> ProviderGrant] /\ pgrant' \in [ProviderGrants -> ProviderGrant]
        /\ \A q \in ProviderGrants : \/ pgrant'[q] = pgrant[q]
                                     \/ /\ pgrant[q].status = "PENDING" /\ pgrant'[q].status = "ACTIVE"
                                        /\ pgrant[q].user = u /\ pgrant'[q].user = u
                                        /\ pgrant'[q].provider = pgrant[q].provider
    <2>1. pgrant \in [ProviderGrants -> ProviderGrant]
      BY DEF Inv, Typed
    <2>2. pgrant' = pgrant \/ pgrant' = AcceptProviderGrants(u)
      BY <1>0 DEF ResetCommit
    <2> QED
      BY <2>1, <2>2 DEF AcceptProviderGrants, ProviderGrant, Statuses
  <1>10. Typed'
    BY <1>1, <1>3, <1>4, <1>5, <1>7, <1>8, <1>9, <1>20 DEF Inv, Typed
  <1>11. UsesOK'
    <2>1. \A x \in Tokens \ {t} : token'[x].uses <= token[x].uses
      BY <1>5, <1>6 DEF TokenRow
    <2> QED
      BY <1>1, <1>2, <1>3, <1>5, <1>10, <2>1, CommitUses
  <1>12. TokensOK'
    <2> SUFFICES ASSUME NEW x \in Tokens
                 PROVE  /\ token'[x].state \in {"live", "used"} =>
                             token'[x].user \in Users /\ Live(token[x].user)'
                        /\ token'[x].state = "live" => token'[x].uses = 0
      BY DEF TokensOK
    <2>1. CASE x = t
      <3>1. token[t].user \in Users /\ Live(token[t].user)
        BY <1>2, <1>5 DEF Inv, TokensOK
      <3> QED
        BY <1>4, <1>5, <2>1, <3>1 DEF AccountsKept
    <2>2. CASE x # t
      BY <1>4, <1>5, <1>6, <2>2 DEF Inv, TokensOK, AccountsKept
    <2> QED
      BY <2>1, <2>2
  <1>13. GrantsOK'
    <2> SUFFICES ASSUME NEW g \in Grants
                 PROVE  /\ grant'[g].status # "none" => grant'[g].user \in Users /\ Live(grant[g].user)'
                        /\ grant'[g].status = "ACTIVE" => Earned(grant[g].user)'
      BY DEF GrantsOK
    <2>1. CASE g \in pending
      BY <1>2, <1>4, <1>8, <2>1 DEF Inv, GrantsOK, AccountsKept
    <2>2. CASE g \notin pending
      BY <1>4, <1>8, <2>2 DEF Inv, GrantsOK, AccountsKept
    <2> QED
      BY <2>1, <2>2
  <1>14. Unique'
    <2>1. \A g \in pending : /\ MayActivate(g, grant[g].user)
                             /\ \A k \in pending \ {g} : grant[k].owner # grant[g].owner
      BY DEF ResetCommit
    <2> SUFFICES ASSUME NEW g \in Grants, NEW k \in Grants, g # k, grant'[g].owner = grant'[k].owner,
                        Open(grant'[g].status), Open(grant'[k].status)
                 PROVE  /\ ~(grant'[g].status = "ACTIVE" /\ grant'[k].status = "ACTIVE")
                        /\ grant'[g].user # grant'[k].user
      BY DEF Unique, Open
    <2>2. grant[g].owner = grant[k].owner
      BY <1>8
    <2>3. CASE g \in pending /\ k \notin pending
      BY <1>8, <2>1, <2>2, <2>3 DEF MayActivate, Open
    <2>4. CASE g \notin pending /\ k \in pending
      BY <1>8, <2>1, <2>2, <2>4 DEF MayActivate, Open
    <2>5. CASE g \in pending /\ k \in pending
      BY <2>1, <2>2, <2>5
    <2>6. CASE g \notin pending /\ k \notin pending
      BY <1>8, <2>2, <2>6 DEF Inv, Unique, Open
    <2> QED
      BY <2>3, <2>4, <2>5, <2>6
  <1>15. PGrantsOK'
    BY <1>4, <1>9 DEF Inv, PGrantsOK, AccountsKept
  <1>16. RowsOK'
    BY <1>1, <1>12, <1>13, <1>14, <1>15 DEF RowsOK, MembersOK, Inv
  <1>17. GrantsKept /\ PGrantsKept
    BY <1>2, <1>8, <1>9 DEF GrantsKept, PGrantsKept
  <1>18. Sessions' /\ Invited'
    <2>1. \A k \in Handlers \ {h} : job'[k] = job[k]
      BY <1>3 DEF Alone
    <2>2. Sessions /\ Invited
      BY DEF Inv
    <2>4. \A x \in Tokens \ late'.tokens : token'[x].uses <= 1
      BY <1>2, <1>5, <1>6, <1>20, <2>2 DEF Sessions, LateGrows
    <2>5. Sessions'
      BY <1>4, <2>4 DEF Sessions
    <2>6. Invited'
      BY <1>1, <1>9, <1>20, <2>1, <2>2 DEF Invited
    <2> QED
      BY <2>5, <2>6
  <1>21. Marked(h)
    <2>1. \A x \in Users : \/ Live(x) => account'[x].epoch = account[x].epoch
                           \/ x \in late'.sessions \/ Storing(x) \ {h} = {}
      BY <1>4, <1>20 DEF stored
    <2>2. \A x \in Tokens : \/ token[x].uses = 0 => token'[x].uses = 0
                            \/ x \in late'.tokens \/ Resetting(x) \ {h} = {}
      BY <1>5, <1>6, <1>20 DEF twice
    <2>3. \A g \in Grants : grant'[g].status = "DISABLED" => grant[g].status = "DISABLED"
      BY <1>8
    <2> QED
      BY <1>20, <2>1, <2>2, <2>3 DEF Marked
  <1> QED
    BY <1>3, <1>21, <1>4, <1>10, <1>11, <1>16, <1>17, <1>18, StepInv

------------------------------------------------------------------------------
(* Steps that are not part of a longer request.                            *)

\* No request moves.
LEMMA RestStep ==
    ASSUME Inv, UNCHANGED <<token, grant, pgrant, member, job, late>>, AccountsKept, Typed',
           SessionsOK',
           \A u \in Users : account'[u].epoch = account[u].epoch
    PROVE  Inv'
  <1>1. RowsOK'
    BY DEF Inv, RowsOK, TokensOK, GrantsOK, PGrantsOK, Unique, MembersOK, AccountsKept
  <1>2. GrantsKept /\ PGrantsKept
    BY DEF GrantsKept, PGrantsKept
  <1>3. UsesOK'
    BY DEF Inv, UsesOK, Resetting
  <1>4. \A k \in Handlers : JobOK(job[k])'
    <2> SUFFICES ASSUME NEW k \in Handlers PROVE JobOK(job[k])'
      OBVIOUS
    <2>1. PICK j \in Job : j = job[k] /\ JobOK(job[k])
      BY DEF Inv, Typed
    <2>2. JobOK(j)'
      BY <1>1, <1>2, <2>1, JobKept DEF Inv, RowsOK, JobOK
    <2> QED
      BY <2>1, <2>2 DEF JobOK
  <1>5. Sessions' /\ Invited' /\ \A k \in Handlers : FreshOK(job[k])'
    <2>1. (\A k \in Handlers : FreshOK(job[k]) /\ JobOK(job[k])) /\ Sessions /\ Invited
      BY DEF Inv
    <2>2. Invited'
      BY <2>1 DEF Invited
    <2>3. Sessions'
      BY <2>1 DEF Sessions
    <2>4. \A k \in Handlers : FreshOK(job[k])'
      BY <2>1 DEF FreshOK, JobOK
    <2> QED
      BY <2>2, <2>3, <2>4
  <1> QED
    BY <1>1, <1>3, <1>4, <1>5 DEF Inv, RowsOK

LEMMA LogoutInv ==
    ASSUME Inv, NEW u \in Users, Logout(u)
    PROVE  Inv'
  <1>1. /\ account \in [Users -> Account] /\ account' = [account EXCEPT ![u].session = 0]
        /\ UNCHANGED <<token, invite, owner, grant, provider, member, pgrant, job, late>>
    BY DEF Inv, Typed, Logout
  <1>2. 0 \in 0..MaxEpoch
    BY AccountsAssumption
  <1>3. account' \in [Users -> Account]
    BY <1>1, <1>2 DEF Account
  <1>4. AccountsKept /\ \A x \in Users : account'[x].epoch = account[x].epoch
    BY <1>1 DEF AccountsKept, Account
  <1>5. SessionsOK'
    BY <1>1 DEF SessionsOK, Inv, Sessions, Account
  <1>6. Typed'
    BY <1>1, <1>3 DEF Inv, Typed
  <1> QED
    BY <1>1, <1>4, <1>5, <1>6, RestStep

\* An invitation that failed, an owner or a provider that is made or changed.
LEMMA SideInv ==
    ASSUME Inv, UNCHANGED <<account, token, grant, pgrant, member, job, late>>, Typed'
    PROVE  Inv'
  <1>1. AccountsKept /\ \A x \in Users : account'[x].epoch = account[x].epoch
    BY DEF AccountsKept
  <1>2. SessionsOK'
    BY DEF SessionsOK, Inv, Sessions
  <1> QED
    BY <1>1, <1>2, RestStep

LEMMA SideTyped ==
    ASSUME Inv,
           \/ \E t \in Tokens : MarkResidentInviteFailed(t)
           \/ \E o \in Owners : \/ CreateOrReuseOwner(o)
                                \/ \E active \in {"active", "inactive"} : UpdateOwner(o, active)
           \/ \E p \in Providers, active \in {"active", "inactive"} :
                UpdateProvider(p, active) \/ UpdateProfile(p, active)
    PROVE  UNCHANGED <<account, token, grant, pgrant, member, job, late>> /\ Typed'
  <1> USE DEF Inv, Typed
  <1>1. CASE \E t \in Tokens : MarkResidentInviteFailed(t)
    BY <1>1 DEF MarkResidentInviteFailed
  <1>2. CASE \E o \in Owners : \/ CreateOrReuseOwner(o)
                               \/ \E active \in {"active", "inactive"} : UpdateOwner(o, active)
    BY <1>2 DEF CreateOrReuseOwner, UpdateOwner, Activity
  <1>3. CASE \E p \in Providers, active \in {"active", "inactive"} :
               UpdateProvider(p, active) \/ UpdateProfile(p, active)
    BY <1>3 DEF UpdateProvider, UpdateProfile, Activity
  <1> QED
    BY <1>1, <1>2, <1>3

------------------------------------------------------------------------------
(* The invariant and the theorems.                                         *)

LEMMA InitInv == Init => Inv
  <1> SUFFICES ASSUME Init PROVE Inv
    OBVIOUS
  <1>1. NoToken("none") \in TokenRow /\ NoToken("none").state = "none" /\ NoToken("none").uses = 0
    BY DEF NoToken, TokenRow, Nullable, Purposes
  <1>2. NoMember \in Member /\ NoMember.role = "none" /\ NoMember.by = "none"
    BY DEF NoMember, Member, Roles
  <1>3. [state |-> "absent", org |-> FALSE, must |-> FALSE, epoch |-> 1, session |-> 0] \in Account
    BY AccountsAssumption DEF Account
  <1>4. account \in [Users -> Account] /\ \A u \in Users : account[u].session = 0 /\ ~Live(u)
    BY <1>3 DEF Init
  <1>5. /\ token \in [Tokens -> TokenRow]
        /\ \A t \in Tokens : token[t].state = "none" /\ token[t].uses = 0
    BY <1>1 DEF Init
  <1>6. grant \in [Grants -> Grant] /\ \A g \in Grants : grant[g].status = "none"
    BY DEF Init, Grant, Statuses, Nullable
  <1>7. /\ pgrant \in [ProviderGrants -> ProviderGrant]
        /\ \A q \in ProviderGrants : pgrant[q].status = "none" /\ pgrant[q].provider = NoId
    BY DEF Init, ProviderGrant, Statuses, Nullable
  <1>8. /\ member \in [Providers -> [Users -> Member]]
        /\ \A p \in Providers, u \in Users : member[p][u] = NoMember
    BY <1>2 DEF Init
  <1>9. job \in [Handlers -> Job] /\ \A h \in Handlers : job[h] = Idle /\ job[h].pc = "idle"
    BY IdleTyped DEF Init
  <1>15. /\ late \in Late /\ late.members = {}
    BY DEF Init, Late
  <1>10. Typed
    BY <1>15, <1>4, <1>5, <1>6, <1>7, <1>8, <1>9 DEF Typed, Init, Activity
  <1>11. UsesOK
    <2> SUFFICES ASSUME NEW t \in Tokens
                 PROVE  token[t].uses + Cardinality(Resetting(t)) <= Cardinality(Handlers)
      BY DEF UsesOK
    <2>1. Resetting(t) = {}
      BY <1>9 DEF Resetting
    <2>2. Cardinality({}) = 0 /\ Cardinality(Handlers) \in Nat
      BY FS_EmptySet, FS_CardinalityType, AccountsAssumption
    <2> QED
      BY <1>5, <2>1, <2>2
  <1>12. TokensOK /\ GrantsOK /\ PGrantsOK /\ Unique /\ MembersOK
    BY <1>2, <1>5, <1>6, <1>7, <1>8 DEF TokensOK, GrantsOK, PGrantsOK, Unique, MembersOK, Open
  <1>13. \A h \in Handlers : JobOK(job[h]) /\ FreshOK(job[h])
    BY <1>9 DEF JobOK, FreshOK
  <1>14. Sessions /\ Invited
    BY <1>2, <1>4, <1>5, <1>8, <1>9 DEF Sessions, SessionsOK, Invited
  <1> QED
    BY <1>10, <1>11, <1>12, <1>13, <1>14 DEF Inv

LEMMA NextInv == Inv /\ [Next]_vars => Inv'
  <1> SUFFICES ASSUME Inv, [Next]_vars PROVE Inv'
    OBVIOUS
  <1>1. CASE \E h \in Handlers : AuthStep(h)
    <2> SUFFICES ASSUME NEW h \in Handlers, AuthStep(h) PROVE Inv'
      BY <1>1
    <2>1. CASE \E u \in Users : \/ Register(h, u) \/ Login(h, u) \/ RefreshSession(h, u)
                                \/ ChangePasswordCheck(h, u) \/ ForgotPassword(h, u)
                                \/ SendResidentInvite(h, u)
                                \/ \E sendInvite \in BOOLEAN : CreateResident(h, u, sendInvite)
      BY <2>1, RegisterInv, LoginInv, RefreshSessionInv, ChangePasswordCheckInv, ForgotPasswordInv,
         SendResidentInviteInv, CreateResidentInv
    <2>2. CASE SaveRefreshToken(h) \/ ChangePassword(h) \/ DeleteTokens(h)
      BY <2>2, SaveRefreshTokenInv, ChangePasswordInv, DeleteTokensInv
    <2>3. CASE \E t \in Tokens : InsertToken(h, t) \/ ResetRead(h, t)
      BY <2>3, InsertTokenInv, ResetReadInv
    <2>4. CASE CreateResidentInvite(h) \/ ResetFindGrants(h) \/ ResetCommit(h)
      BY <2>4, CreateResidentInviteInv, ResetFindGrantsInv, ResetCommitInv
    <2> QED
      BY <2>1, <2>2, <2>3, <2>4 DEF AuthStep
  <1>2. CASE \E h \in Handlers : OwnerStep(h)
    <2> SUFFICES ASSUME NEW h \in Handlers, OwnerStep(h) PROVE Inv'
      BY <1>2
    <2>1. CASE \E o \in Owners, u \in Users : InviteOwner(h, o, u) \/ LinkExistingUser(h, o, u)
      BY <2>1, InviteOwnerInv, LinkExistingUserInv
    <2>2. CASE \E g \in Grants : \/ CreatePendingGrant(h, g) \/ CreateActiveGrant(h, g)
                                 \/ DisableGrantCheck(h, g) \/ ResendInvite(h, g)
                                 \/ \E u \in Users : ActivatePendingGrantCheck(h, g, u)
      BY <2>2, CreatePendingGrantInv, CreateActiveGrantInv, DisableGrantCheckInv, ResendInviteInv,
         ActivatePendingGrantCheckInv
    <2>3. CASE ActivatePendingGrant(h) \/ DisableGrant(h)
      BY <2>3, ActivatePendingGrantInv, DisableGrantInv
    <2> QED
      BY <2>1, <2>2, <2>3 DEF OwnerStep
  <1>3. CASE \E h \in Handlers : ProviderStep(h)
    <2> SUFFICES ASSUME NEW h \in Handlers, ProviderStep(h) PROVE Inv'
      BY <1>3
    <2>1. CASE \E p \in Providers, u \in Users :
                 \/ InviteProvider(h, p, u)
                 \/ \E admin \in Users, role \in {"ADMIN", "WORKER"}, active \in BOOLEAN :
                      \/ CreateStaff(h, p, admin, u, role, active)
                      \/ UpdateStaff(h, p, admin, u, role, active)
      BY <2>1, InviteProviderInv, CreateStaffInv, UpdateStaffInv
    <2>2. CASE \E p \in Providers, active \in {"active", "inactive"}, invited \in Nullable(Users) :
                 CreateServiceProvider(h, p, active, invited)
      BY <2>2, CreateServiceProviderInv
    <2>3. CASE UpsertMembership(h) \/ DisableProviderGrant(h)
      BY <2>3, UpsertMembershipInv, DisableProviderGrantInv
    <2>4. CASE \E q \in ProviderGrants : \/ CreateProviderGrant(h, q) \/ ResendProviderInvite(h, q)
                                         \/ DisableProviderGrantCheck(h, q)
      BY <2>4, CreateProviderGrantInv, ResendProviderInviteInv, DisableProviderGrantCheckInv
    <2> QED
      BY <2>1, <2>2, <2>3, <2>4 DEF ProviderStep
  <1>4. CASE \E h \in Handlers : Abandon(h)
    BY <1>4, AbandonInv
  <1>5. CASE \E u \in Users : Logout(u)
    BY <1>5, LogoutInv
  <1>6. CASE \/ \E t \in Tokens : MarkResidentInviteFailed(t)
             \/ \E o \in Owners : \/ CreateOrReuseOwner(o)
                                  \/ \E active \in {"active", "inactive"} : UpdateOwner(o, active)
             \/ \E p \in Providers, active \in {"active", "inactive"} :
                  UpdateProvider(p, active) \/ UpdateProfile(p, active)
    BY <1>6, SideTyped, SideInv
  <1>7. CASE UNCHANGED vars
    <2>1. Typed' /\ UNCHANGED <<account, token, grant, pgrant, member, job, late>>
      BY <1>7 DEF vars, Inv, Typed
    <2> QED
      BY <2>1, SideInv
  <1> QED
    BY <1>1, <1>2, <1>3, <1>4, <1>5, <1>6, <1>7 DEF Next

LEMMA InvHolds == Spec => []Inv
  BY InitInv, NextInv, PTL DEF Spec

\* Rows and request records keep their types; that a token is never used more often than
\* there are requests holds because a request that has used it (resetPasswordByToken)
\* must look it up again, and then finds it used.
THEOREM TypeCorrect == Spec => []TypeOK
  <1>1. Inv => TypeOK
    <2> SUFFICES ASSUME Inv PROVE TypeOK
      OBVIOUS
    <2>1. \A t \in Tokens : token[t].uses \in 0..Cardinality(Handlers)
      <3> SUFFICES ASSUME NEW t \in Tokens PROVE token[t].uses \in 0..Cardinality(Handlers)
        OBVIOUS
      <3>1. IsFiniteSet(Resetting(t)) /\ Cardinality(Handlers) \in Nat
        BY AccountsAssumption, FS_Subset, FS_CardinalityType DEF Resetting
      <3>2. Cardinality(Resetting(t)) \in Nat
        BY <3>1, FS_CardinalityType
      <3>3. token[t].uses \in Nat
        BY DEF Inv, Typed, TokenRow
      <3>4. token[t].uses + Cardinality(Resetting(t)) <= Cardinality(Handlers)
        BY DEF Inv, UsesOK
      <3> QED
        BY <3>1, <3>2, <3>3, <3>4
    <2>2. token \in [Tokens -> Token]
      BY <2>1 DEF Inv, Typed, Token, TokenRow
    <2> QED
      BY <2>2 DEF Inv, Typed, TypeOK
  <1> QED
    BY InvHolds, <1>1, PTL

\* An owner never has two ACTIVE representatives, nor a person two open grants of one
\* owner, and no grant is ACTIVE before its user has set a password, however the requests
\* of owner-access-grant.service.ts and resetPasswordByToken interleave and fail.
THEOREM GrantsEarned == Spec => []ActiveGrantsEarned
  <1>1. Inv => ActiveGrantsEarned
    BY DEF Inv, Unique, GrantsOK, PGrantsOK, ActiveGrantsEarned
  <1> QED
    BY InvHolds, <1>1, PTL

\* However requests interleave and die, nobody administers a provider without an ACTIVE
\* grant unless one of its administrators said so or createPendingInvite is, or died,
\* between writing the membership and the grant that restrains it.
THEOREM AdminsGranted == Spec => []AdminsWereGranted
  <1>1. Inv => AdminsWereGranted
    <2> SUFFICES ASSUME Inv, NEW p \in Providers, NEW u \in Users, <<p, u>> \notin late.members,
                        ~\E h \in Handlers : /\ job[h].pc = "providerGrant"
                                             /\ job[h].provider = p /\ job[h].user = u,
                        Accessible(p, u), member[p][u].role = "ADMIN", member[p][u].by # "admin"
                 PROVE  \E q \in ProviderGrants : /\ pgrant[q].provider = p /\ pgrant[q].user = u
                                                  /\ pgrant[q].status = "ACTIVE"
      BY DEF AdminsWereGranted
    <2>1. member[p][u] \in Member /\ member[p][u].by # "none"
      BY DEF Inv, Typed, MembersOK
    <2>2. member[p][u].by = "invite"
      BY <2>1 DEF Member
    <2>3. \E q \in ProviderGrants : pgrant[q].provider = p /\ pgrant[q].user = u
      BY <2>2 DEF Inv, Invited
    <2> QED
      BY <2>3 DEF Accessible
  <1> QED
    BY InvHolds, <1>1, PTL

\* However requests interleave, a reset of the password ends the sessions that began before
\* it, unless a sign-in or refresh was being stored when it committed (saveRefreshToken),
\* and a token resets once, unless two requests had looked it up (resetPasswordByToken).
THEOREM SessionsEnded == Spec => []ResetEndsSessions
  <1>1. Inv => ResetEndsSessions
    BY DEF Inv, Sessions, SessionsOK, ResetEndsSessions
  <1> QED
    BY InvHolds, <1>1, PTL

\* No step enables a grant that was disabled: of a provider in any interleaving, of an
\* owner unless somebody was about to activate it when it was disabled.
THEOREM DisabledForGood == Spec => DisabledStaysDisabled
  <1> DEFINE Kept == /\ \A q \in ProviderGrants : pgrant[q].status = "DISABLED" => pgrant'[q].status = "DISABLED"
                     /\ \A g \in Grants \ late.grants :
                            grant[g].status = "DISABLED" => grant'[g].status = "DISABLED"
  <1>1. Inv /\ [Next]_vars => [Kept]_vars
    <2> SUFFICES ASSUME Inv, Next PROVE Kept
      OBVIOUS
    <2>1. grant \in [Grants -> Grant] /\ pgrant \in [ProviderGrants -> ProviderGrant]
      BY DEF Inv, Typed
    <2>2. CASE UNCHANGED <<grant, pgrant>>
      BY <2>2
    <2>3. CASE \E h \in Handlers, g \in Grants : CreatePendingGrant(h, g) \/ CreateActiveGrant(h, g)
      BY <2>1, <2>3 DEF CreatePendingGrant, CreateActiveGrant
    <2>4. CASE \E h \in Handlers : DisableGrant(h)
      BY <2>1, <2>4 DEF DisableGrant, Grant
    <2>5. CASE \E h \in Handlers : ActivatePendingGrant(h)
      <3>1. PICK h \in Handlers : ActivatePendingGrant(h)
        BY <2>5
      <3>2. pgrant' = pgrant /\ (job[h].grant \in late.grants \/ grant[job[h].grant].status # "DISABLED")
        BY <3>1 DEF ActivatePendingGrant, Inv, FreshOK
      <3>3. grant' = [grant EXCEPT ![job[h].grant].status = "ACTIVE", ![job[h].grant].user = job[h].user]
        BY <3>1 DEF ActivatePendingGrant
      <3> QED
        BY <2>1, <3>2, <3>3
    <2>6. CASE \E h \in Handlers, q \in ProviderGrants : CreateProviderGrant(h, q)
      BY <2>1, <2>6 DEF CreateProviderGrant
    <2>7. CASE \E h \in Handlers : DisableProviderGrant(h)
      BY <2>1, <2>7 DEF DisableProviderGrant, ProviderGrant
    <2>8. CASE \E h \in Handlers : ResetCommit(h)
      <3>1. PICK h \in Handlers : ResetCommit(h)
        BY <2>8
      <3>2. \A g \in job[h].pending : g \in late.grants \/ grant[g].status # "DISABLED"
        BY <3>1 DEF ResetCommit, Inv, FreshOK
      <3>3. /\ grant' = [g \in Grants |-> IF g \in job[h].pending THEN [grant[g] EXCEPT !.status = "ACTIVE"]
                                          ELSE grant[g]]
            /\ pgrant' = AcceptProviderGrants(job[h].user) \/ pgrant' = pgrant
        BY <3>1 DEF ResetCommit
      <3>4. \A g \in Grants \ late.grants : grant[g].status = "DISABLED" => grant'[g].status = "DISABLED"
        BY <3>2, <3>3
      <3>5. \A q \in ProviderGrants : pgrant[q].status = "DISABLED" => pgrant'[q].status = "DISABLED"
        BY <3>3 DEF AcceptProviderGrants
      <3> QED
        BY <3>4, <3>5
    <2> QED
      <3>1. ASSUME NEW h \in Handlers, AuthStep(h), ~ResetCommit(h) PROVE UNCHANGED <<grant, pgrant>>
        BY <3>1 DEF AuthStep, Register, Login, RefreshSession, ChangePasswordCheck, ForgotPassword,
             SendResidentInvite, CreateResident, SaveRefreshToken, ChangePassword, DeleteTokens,
             InsertToken, ResetRead, CreateResidentInvite, ResetFindGrants
      <3>2. ASSUME NEW h \in Handlers, OwnerStep(h), ~ActivatePendingGrant(h), ~DisableGrant(h),
                   ~\E g \in Grants : CreatePendingGrant(h, g) \/ CreateActiveGrant(h, g)
            PROVE  UNCHANGED <<grant, pgrant>>
        BY <3>2 DEF OwnerStep, InviteOwner, LinkExistingUser, DisableGrantCheck, ResendInvite,
             ActivatePendingGrantCheck
      <3>3. ASSUME NEW h \in Handlers, ProviderStep(h), ~DisableProviderGrant(h),
                   ~\E q \in ProviderGrants : CreateProviderGrant(h, q)
            PROVE  UNCHANGED <<grant, pgrant>>
        BY <3>3 DEF ProviderStep, InviteProvider, CreateStaff, UpdateStaff, CreateServiceProvider,
             UpsertMembership, ResendProviderInvite, DisableProviderGrantCheck
      <3>4. ASSUME ~\E h \in Handlers : AuthStep(h) \/ OwnerStep(h) \/ ProviderStep(h)
            PROVE  UNCHANGED <<grant, pgrant>>
        BY <3>4 DEF Next, Abandon, Logout, MarkResidentInviteFailed, CreateOrReuseOwner, UpdateOwner,
             UpdateProvider, UpdateProfile
      <3> QED
        BY <2>2, <2>3, <2>4, <2>5, <2>6, <2>7, <2>8, <3>1, <3>2, <3>3, <3>4
  <1> QED
    BY InvHolds, <1>1, PTL DEF Spec, DisabledStaysDisabled
=============================================================================
