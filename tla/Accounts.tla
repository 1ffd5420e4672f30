------------------------------ MODULE Accounts ------------------------------
(***************************************************************************)
(* Accounts and the one organisation they join: signing up with an invite, *)
(* verifying, enabling and disabling, passwords and their reset links, the *)
(* browser's sign-in handed to the app, and the admin's domains.  Every    *)
(* handler reads a log, decides, and appends at the sequence number it     *)
(* read; here the read and the append are two steps of a request.          *)
(***************************************************************************)
EXTENDS Naturals, FiniteSets, Sequences

CONSTANTS Handlers,   \* requests that may be under way at once
          Emails,     \* addresses people sign up with
          Codes,      \* invite codes that may be issued
          Domains,    \* domains the admin may claim
          HomeDomain, \* the domain the organisation was created with
          DomainOf,   \* email_domain: the domain of an address
          MaxAcct,    \* bound: appends to one account's log
          MaxOrg,     \* bound: appends to the organisation's log
          MaxLinks,   \* bound: reset links mailed
          RedeemAttempts  \* REDEEM_ATTEMPTS

ASSUME AccountsAssumption ==
    /\ HomeDomain \in Domains
    /\ {MaxAcct, MaxOrg, MaxLinks, RedeemAttempts} \subseteq Nat

VARIABLES
    acct,      \* the account of each address, replayed from its log
    org,       \* the organisation, replayed from its log
    mailer,    \* whether a mail key is configured
    links,     \* reset links mailed: [email, fp]
    signIn,     \* the pending_login row of the one sign-in link
    hand,      \* the requests under way
    resets,    \* history: how often each link changed a password
    sessions,  \* history: sessions minted for the sign-in link's binds
    binds,     \* history: times credentials were bound to the link
    joined     \* history: <<code, email>> of every account created

acctVars == <<acct, org, mailer, links, signIn, hand, resets, sessions, binds,
              joined>>

NoAcct == [made |-> FALSE]
NoSignIn == [state |-> "none", email |-> "none"]
Free == [pc |-> "free"]
Made(e) == acct[e].made

AcctInit ==
    /\ acct = [e \in Emails |-> NoAcct]
    /\ org = [seq |-> 1, invites |-> [c \in Codes |-> "none"],
              domains |-> {HomeDomain}, pending |-> [d \in Domains |-> 0],
              tokens |-> 0]
    /\ mailer \in BOOLEAN
    /\ links = <<>>
    /\ signIn = NoSignIn
    /\ hand = [h \in Handlers |-> Free]
    /\ resets = <<>>
    /\ sessions = 0
    /\ binds = 0
    /\ joined = {}

-----------------------------------------------------------------------------
(* Requests against an account's log. *)

Frees(h) == hand' = [hand EXCEPT ![h] = Free]

\* The request has read the account of e and will append what `how` names.
Reads(h, e, how, extra) ==
    /\ hand[h] = Free
    /\ Made(e)
    /\ acct[e].seq < MaxAcct
    /\ hand' = [hand EXCEPT ![h] = [pc |-> how, email |-> e,
                                    seq |-> acct[e].seq, with |-> extra]]
    /\ UNCHANGED <<acct, org, mailer, links, signIn, resets, sessions, binds,
                   joined>>

\* An append that does not ask what was appended since.
AppendBlind(h, new) == [new EXCEPT !.seq = @ + 1]

\* append_account at the sequence number that was read, or a conflict.
AcctAppend(h, new) ==
    IF hand[h].seq = acct[hand[h].email].seq
    THEN [new EXCEPT !.seq = @ + 1]
    ELSE acct[hand[h].email]

\* persist: the view and the events of one decision, in one transaction.
Persists(h, how, new) ==
    /\ hand[h].pc = how
    /\ acct' = [acct EXCEPT ![hand[h].email] = AcctAppend(h, new)]
    /\ Frees(h)

The(h) == acct[hand[h].email]

\* put_me and update_profile: events that move only the log.
ProfileRead(h) == \E e \in Emails : Reads(h, e, "profile", 0)
ProfileSaved(h) ==
    /\ Persists(h, "profile", The(h))
    /\ UNCHANGED <<org, mailer, links, signIn, resets, sessions, binds, joined>>

\* change_password: the current password is checked against what was read.
PasswordRead(h) == \E e \in Emails : Reads(h, e, "password", 0)
PasswordSaved(h) ==
    /\ Persists(h, "password", [The(h) EXCEPT !.pw = @ + 1])
    /\ UNCHANGED <<org, mailer, links, signIn, resets, sessions, binds, joined>>

\* verify_email and the admin's verify_user: once, and only what is unverified.
VerifyRead(h) ==
    \E e \in Emails : /\ Made(e)
                      /\ ~acct[e].verified
                      /\ Reads(h, e, "verify", 0)
VerifySaved(h) ==
    /\ Persists(h, "verify", [The(h) EXCEPT !.verified = TRUE])
    /\ UNCHANGED <<org, mailer, links, signIn, resets, sessions, binds, joined>>

\* enable_user and disable_user, by decide_for_member.
EnableRead(h) ==
    \E e \in Emails, on \in BOOLEAN : Reads(h, e, "enable", on)
EnableSaved(h) ==
    /\ Persists(h, "enable", [The(h) EXCEPT !.enabled = hand[h].with])
    /\ UNCHANGED <<org, mailer, links, signIn, resets, sessions, binds, joined>>

-----------------------------------------------------------------------------
(* Password reset. *)

\* start_reset: the link's claims hold a fingerprint of the password's hash.
ResetMailed ==
    /\ mailer
    /\ Len(links) < MaxLinks
    /\ \E e \in Emails :
          /\ Made(e)
          /\ links' = Append(links, [email |-> e, fp |-> acct[e].pw])
          /\ resets' = Append(resets, 0)
    /\ UNCHANGED <<acct, org, mailer, signIn, hand, sessions, binds, joined>>

\* account_for: the link is good while the password it fingerprints stands.
LinkStands(l) == acct[links[l].email].pw = links[l].fp

ResetRead(h) ==
    \E l \in DOMAIN links : /\ LinkStands(l)
                            /\ Reads(h, links[l].email, "reset", l)

\* reset_form's append; a conflict leaves the password alone.
ResetSaved(h) ==
    /\ Persists(h, "reset", [The(h) EXCEPT !.pw = @ + 1])
    /\ resets' = IF acct'[hand[h].email].pw # The(h).pw
                 THEN [resets EXCEPT ![hand[h].with] = @ + 1] ELSE resets
    /\ UNCHANGED <<org, mailer, links, signIn, sessions, binds, joined>>

-----------------------------------------------------------------------------
(* The sign-in page, and the app that polls for its session. *)

\* login_deep_control: the link's row, with no address yet, its age reset.
LoginRegistered ==
    /\ signIn.state = "none"
    /\ signIn' = [state |-> "open", email |-> "none"]
    /\ UNCHANGED <<acct, org, mailer, links, hand, resets, sessions, binds,
                   joined>>

\* authenticate: credential_login_ready and the password.
LoginReady(e) == Made(e) /\ acct[e].verified /\ acct[e].enabled
LoginSubmitted(h) ==
    /\ hand[h] = Free
    /\ binds < MaxLinks
    /\ \E e \in Emails :
          /\ LoginReady(e)
          /\ hand' = [hand EXCEPT ![h] = [pc |-> "bind", email |-> e]]
    /\ UNCHANGED <<acct, org, mailer, links, signIn, resets, sessions, binds,
                   joined>>

\* bind_login: the row, if it has not been taken and is not too old.
LoginBound(h) ==
    /\ hand[h].pc = "bind"
    /\ IF signIn.state \in {"open", "bound"}
       THEN /\ signIn' = [state |-> "bound", email |-> hand[h].email]
            /\ binds' = binds + 1
       ELSE UNCHANGED <<signIn, binds>>
    /\ Frees(h)
    /\ UNCHANGED <<acct, org, mailer, links, resets, sessions, joined>>

\* auth_poll: take_login deletes the row and a session is minted for its address.
LoginPolled ==
    /\ signIn.state = "bound"
    /\ sessions <= MaxLinks
    /\ signIn' = NoSignIn
    /\ sessions' = sessions + 1
    /\ UNCHANGED <<acct, org, mailer, links, hand, resets, binds, joined>>

\* LOGIN_TTL_MS: the row is too old to bind or to take.
LoginExpired ==
    /\ signIn # NoSignIn
    /\ signIn' = NoSignIn
    /\ UNCHANGED <<acct, org, mailer, links, hand, resets, sessions, binds,
                   joined>>

-----------------------------------------------------------------------------
(* The organisation's log: invites and domains. *)

OrgRead(h, how, with) ==
    /\ hand[h] = Free
    /\ org.seq < MaxOrg
    /\ hand' = [hand EXCEPT ![h] = [pc |-> how, seq |-> org.seq, with |-> with]]
    /\ UNCHANGED <<acct, org, mailer, links, signIn, resets, sessions, binds,
                   joined>>

\* An append that does not ask what was appended since.
OrgSavedBlind(h, how, new) ==
    /\ hand[h].pc = how
    /\ org' = [new EXCEPT !.seq = @ + 1]
    /\ Frees(h)
    /\ UNCHANGED <<acct, mailer, links, signIn, resets, sessions, binds, joined>>

\* append_org_events: at the sequence number that was read, or a 409.
OrgSaved(h, how, new) ==
    /\ hand[h].pc = how
    /\ org' = IF hand[h].seq = org.seq THEN [new EXCEPT !.seq = @ + 1] ELSE org
    /\ Frees(h)
    /\ UNCHANGED <<acct, mailer, links, signIn, resets, sessions, binds, joined>>

\* issue_invite.
InviteRead(h) == \E c \in Codes : /\ org.invites[c] = "none"
                                  /\ OrgRead(h, "invite", c)
InviteSaved(h) ==
    OrgSaved(h, "invite", [org EXCEPT !.invites[hand[h].with] = "open"])

\* claim_domain: a fresh token, unless the domain is claimed or proven.
ClaimRead(h) == \E d \in Domains : /\ d \notin org.domains
                                   /\ org.pending[d] = 0
                                   /\ OrgRead(h, "claim", d)
ClaimSaved(h) ==
    OrgSaved(h, "claim", [org EXCEPT !.pending[hand[h].with] = org.tokens + 1,
                                     !.tokens = @ + 1])

\* withdraw_domain.
WithdrawRead(h) == \E d \in Domains : /\ org.pending[d] # 0
                                      /\ OrgRead(h, "withdraw", d)
WithdrawSaved(h) ==
    OrgSaved(h, "withdraw", [org EXCEPT !.pending[hand[h].with] = 0])

\* verify_domain: the claim that was read is looked up in DNS, and found
\* (domain_proof::check); a proof that is not there ends the request.
DomainRead(h) ==
    \E d \in Domains : /\ d \notin org.domains
                       /\ org.pending[d] # 0
                       /\ OrgRead(h, "prove", [domain |-> d,
                                               token |-> org.pending[d]])
DomainSaved(h) ==
    LET d == hand[h].with.domain IN
    OrgSaved(h, "prove", [org EXCEPT !.domains = org.domains \cup {d},
                                     !.pending[d] = 0])

-----------------------------------------------------------------------------
(* Signing up. *)

\* do_signup reads the invite, its organisation and the address.
SignupRead(h) ==
    /\ hand[h] = Free
    /\ \E e \in Emails, c \in Codes :
          /\ org.invites[c] # "none"
          /\ ~Made(e)
          /\ hand' = [hand EXCEPT ![h] = [pc |-> "redeem", email |-> e,
                 with |-> c, seq |-> org.seq, tries |-> 0,
                 open |-> org.invites[c] = "open",
                 allowed |-> DomainOf[e] \in org.domains]]
    /\ UNCHANGED <<acct, org, mailer, links, signIn, resets, sessions, binds,
                   joined>>

\* redeem_invite: decided on what was read; a conflict reads again.
SignupRedeemed(h) ==
    /\ hand[h].pc = "redeem"
    /\ LET c == hand[h].with IN
       \/ /\ ~hand[h].open \/ ~hand[h].allowed
          /\ Frees(h)
          /\ UNCHANGED org
       \/ /\ hand[h].open /\ hand[h].allowed
          /\ hand[h].seq = org.seq
          /\ org' = [org EXCEPT !.invites[c] = "redeemed", !.seq = @ + 1]
          /\ hand' = [hand EXCEPT ![h].pc = "create"]
       \/ /\ hand[h].open /\ hand[h].allowed
          /\ hand[h].seq # org.seq
          /\ hand' = [hand EXCEPT ![h] =
                IF hand[h].tries + 1 = RedeemAttempts THEN Free
                ELSE [hand[h] EXCEPT !.tries = @ + 1, !.seq = org.seq,
                        !.open = org.invites[c] = "open",
                        !.allowed = DomainOf[hand[h].email] \in org.domains]]
          /\ UNCHANGED org
    /\ UNCHANGED <<acct, mailer, links, signIn, resets, sessions, binds, joined>>

\* The account is appended, unless the address was taken in the meantime: the
\* invite is spent and the person is told so.
SignupCreated(h) ==
    /\ hand[h].pc = "create"
    /\ LET e == hand[h].email IN
       IF Made(e) THEN UNCHANGED <<acct, joined>>
       ELSE /\ acct' = [acct EXCEPT ![e] = [made |-> TRUE, seq |-> 1, pw |-> 0,
                            verified |-> ~mailer, enabled |-> FALSE]]
            /\ joined' = joined \cup {<<hand[h].with, e>>}
    /\ Frees(h)
    /\ UNCHANGED <<org, mailer, links, signIn, resets, sessions, binds>>

AcctNext ==
    \/ \E h \in Handlers :
          \/ ProfileRead(h) \/ ProfileSaved(h) \/ PasswordRead(h)
          \/ PasswordSaved(h) \/ VerifyRead(h) \/ VerifySaved(h)
          \/ EnableRead(h) \/ EnableSaved(h) \/ ResetRead(h) \/ ResetSaved(h)
          \/ LoginSubmitted(h) \/ LoginBound(h)
          \/ InviteRead(h) \/ InviteSaved(h) \/ ClaimRead(h) \/ ClaimSaved(h)
          \/ WithdrawRead(h) \/ WithdrawSaved(h)
          \/ DomainRead(h) \/ DomainSaved(h)
          \/ SignupRead(h) \/ SignupRedeemed(h) \/ SignupCreated(h)
    \/ ResetMailed \/ LoginRegistered \/ LoginPolled \/ LoginExpired

AcctSpec == AcctInit /\ [][AcctNext]_acctVars

-----------------------------------------------------------------------------
(* Properties. *)

\* A link or a code that is good once is used once, whoever races for it: an
\* invite makes at most one account, a reset link changes at most one password
\* and only the one it was mailed for, and a poll takes at most what the sign-in
\* page bound (redeem_invite, account_for with append_account, take_login).
SpentOnce ==
    /\ \A a, b \in joined : a[1] = b[1] => a = b
    /\ \A l \in DOMAIN resets : resets[l] <= 1
    /\ sessions <= binds

\* A domain joins the organisation only with the claim whose record was looked
\* up: a claim withdrawn and made again while DNS was asked is not proven by
\* the old record (verify_domain).
ProofIsOfTheClaim ==
    \A d \in Domains \ org.domains :
        d \in org'.domains =>
            \E h \in Handlers : /\ hand[h].pc = "prove"
                                /\ hand[h].with.domain = d
                                /\ hand[h].with.token = org.pending[d]

\* What a person was mailed or shown is good once and for what it says: no step
\* spends a link, a code or a sign-in again, or proves a domain by another
\* claim's record.
ClaimsHold == [][SpentOnce' /\ ProofIsOfTheClaim]_acctVars
=============================================================================
