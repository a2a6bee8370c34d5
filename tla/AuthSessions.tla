------------------------------ MODULE AuthSessions ------------------------------
(***************************************************************************)
(* Signing in with one contact: registration, one-time codes, password     *)
(* reset, refresh tokens and the provider account                          *)
(* (apps/api/src/auth/auth.service.ts).  "OWN" is the account of who       *)
(* registers the contact, "SAYARI" the one a first exchange with the       *)
(* provider makes when it finds none.                                      *)
(*                                                                         *)
(* A call is cut where it awaits the database or the delivery of a code.   *)
(* Rows that no longer count (used, revoked, consumed) are free again, as  *)
(* soon as no call holds them: nothing reads them any more.  Expiry is a   *)
(* step that may come at any moment.                                       *)
(***************************************************************************)
EXTENDS Naturals, FiniteSets, Sequences

CONSTANTS
  Kinds,       \* what the contact may be: "EMAIL", "PHONE"
  Limit,       \* wrong guesses after which a code is refused (5)
  Challenge,   \* rows of OtpChallenge
  ResetToken,  \* rows of PasswordResetToken
  Token,       \* rows of RefreshToken
  None,        \* no row
  Handler,     \* calls in progress
  Calls        \* pairs of a handler and a name: the calls each may make

ASSUME AuthAssumption ==
  /\ Kinds \subseteq {"EMAIL", "PHONE"}
  /\ Limit \in Nat \ {0}
  /\ None \notin Challenge \cup ResetToken \cup Token
  /\ IsFiniteSet(Handler)

VARIABLES
  contact,    \* the contact's UserIdentity: its kind and account, whether it is verified,
              \* whether its account has a password that somebody knows
  linked,     \* the account of the provider identity
  challenge,  \* OtpChallenge rows
  issued,     \* the challenges that are not consumed, oldest first
  reset,      \* PasswordResetToken rows: the account, or "FREE"
  token,      \* RefreshToken rows: the account, or "FREE"
  hand        \* what each call has read and is about to do

vars == <<contact, linked, challenge, issued, reset, token, hand>>

Account == {"OWN", "SAYARI"}
Purpose == {"ACCOUNT_VERIFICATION", "PASSWORD_RESET"}
NoChallenge == [state |-> "FREE", purpose |-> "ACCOUNT_VERIFICATION", attempts |-> 0,
                told |-> FALSE]
Idle == [at |-> "IDLE", row |-> None, purpose |-> "ACCOUNT_VERIFICATION", flag |-> FALSE,
         account |-> "FREE"]

ChallengeRow == [state : {"FREE", "OPEN", "EXPIRED"}, purpose : Purpose, attempts : Nat,
                 told : BOOLEAN]
Call == [at : {"IDLE", "REGISTER", "TELL", "RENEW", "CODE", "GUESS", "SPEND", "REVOKE", "ISSUE",
               "LINK", "LOOK", "ENROL"},
         row : Challenge \cup ResetToken \cup Token \cup {None}, purpose : Purpose,
         flag : BOOLEAN, account : Account \cup {"FREE"}]

RowsOK ==
  /\ contact \in [kind : Kinds, owner : Account \cup {"FREE"}, verified : BOOLEAN,
                  password : BOOLEAN]
  /\ linked \in Account \cup {"FREE"}
  /\ challenge \in [Challenge -> ChallengeRow]
  /\ reset \in [ResetToken -> Account \cup {"FREE"}]
  /\ token \in [Token -> Account \cup {"FREE"}]
  /\ hand \in [Handler -> Call]

TypeOK == RowsOK /\ issued \in Seq(Challenge)

Init ==
  /\ contact \in [kind : Kinds, owner : {"FREE"}, verified : {FALSE}, password : {FALSE}]
  /\ linked = "FREE"
  /\ challenge = [c \in Challenge |-> NoChallenge]
  /\ issued = << >>
  /\ reset = [r \in ResetToken |-> "FREE"]
  /\ token = [t \in Token |-> "FREE"]
  /\ hand = [h \in Handler |-> Idle]

-----------------------------------------------------------------------------

IsFree(h, c) == hand[h].at = "IDLE" /\ <<h, c>> \in Calls
Goes(h, x) == hand' = [hand EXCEPT ![h] = x]
Ends(h) == Goes(h, Idle)
Unheld(x) == \A h \in Handler : hand[h].row # x

Registered == contact.owner # "FREE"
Unconsumed(c) == challenge[c].state # "FREE"

(* A new challenge takes a free row. *)
Challenged(c, p) ==
  /\ challenge[c].state = "FREE" /\ Unheld(c)
  /\ challenge' = [challenge EXCEPT ![c] =
       [NoChallenge EXCEPT !.state = "OPEN", !.purpose = p]]
  /\ issued' = Append(issued, c)

(* The rows of S are consumed. *)
Consume(S) ==
  /\ challenge' = [c \in Challenge |-> IF c \in S THEN NoChallenge ELSE challenge[c]]
  /\ issued' = SelectSeq(issued, LAMBDA c : c \notin S)

(* Mutation: nobody counts the attempts. *)
GuessableAlways(c) == challenge[c].state = "OPEN"

(* Not consumed, not expired, and not guessed at too often. *)
Guessable(c) == challenge[c].state = "OPEN" /\ challenge[c].attempts < Limit

-----------------------------------------------------------------------------
(* register *)

RegisterReads(h) ==
  /\ IsFree(h, "REGISTER") /\ ~Registered
  /\ Goes(h, [Idle EXCEPT !.at = "REGISTER"])
  /\ UNCHANGED <<contact, linked, challenge, issued, reset, token>>

(* The identity is unique: who comes second fails. *)
RegisterCreates(h) ==
  /\ hand[h].at = "REGISTER" /\ ~Registered
  /\ contact' = [contact EXCEPT !.owner = "OWN", !.password = TRUE]
  /\ \E c \in Challenge : /\ Challenged(c, "ACCOUNT_VERIFICATION")
                          /\ Goes(h, [Idle EXCEPT !.at = "TELL", !.row = c])
  /\ UNCHANGED <<linked, reset, token>>

RegisterFails(h) ==
  /\ hand[h].at = "REGISTER" /\ Registered
  /\ Ends(h)
  /\ UNCHANGED <<contact, linked, challenge, issued, reset, token>>

-----------------------------------------------------------------------------
(* A code is sent after its challenge is stored; sending it may fail. *)

Tells(h) ==
  LET c == hand[h].row
  IN /\ hand[h].at = "TELL"
     /\ challenge' = [challenge EXCEPT ![c].told = Unconsumed(c)]
     /\ Ends(h)
     /\ UNCHANGED <<contact, linked, issued, reset, token>>

TellFails(h) ==
  /\ hand[h].at = "TELL"
  /\ Ends(h)
  /\ UNCHANGED <<contact, linked, challenge, issued, reset, token>>

(* createAccountVerificationChallenge and requestPasswordReset: earlier    *)
(* codes are consumed, and then a new one is stored.                       *)
Renews(h) ==
  /\ hand[h].at = "RENEW"
  /\ Consume({c \in Challenge : challenge[c].purpose = hand[h].purpose})
  /\ Goes(h, [hand[h] EXCEPT !.at = "CODE"])
  /\ UNCHANGED <<contact, linked, reset, token>>

Codes(h) ==
  /\ hand[h].at = "CODE"
  /\ \E c \in Challenge : /\ Challenged(c, hand[h].purpose)
                          /\ Goes(h, [Idle EXCEPT !.at = "TELL", !.row = c])
  /\ UNCHANGED <<contact, linked, reset, token>>

-----------------------------------------------------------------------------

(* Mutation: who is not verified is only refused. *)
LoginRefuses(h) ==
  /\ IsFree(h, "LOGIN") /\ contact.password /\ contact.verified
  /\ Goes(h, [Idle EXCEPT !.at = "ISSUE", !.account = contact.owner])
  /\ UNCHANGED <<contact, linked, challenge, issued, reset, token>>

(* Mutation: the contact need not be verified. *)
LoginTrusting(h) ==
  /\ IsFree(h, "LOGIN") /\ contact.password
  /\ Goes(h, [Idle EXCEPT !.at = "ISSUE", !.account = contact.owner])
  /\ UNCHANGED <<contact, linked, challenge, issued, reset, token>>

(* With the right password: a session, or a new code. *)
Login(h) ==
  /\ IsFree(h, "LOGIN") /\ contact.password
  /\ Goes(h, IF contact.verified
               THEN [Idle EXCEPT !.at = "ISSUE", !.account = contact.owner]
               ELSE [Idle EXCEPT !.at = "RENEW"])
  /\ UNCHANGED <<contact, linked, challenge, issued, reset, token>>

(* authResponse stores the refresh token and answers with it. *)
Issues(h) ==
  /\ hand[h].at = "ISSUE"
  /\ \E t \in Token :
       /\ token[t] = "FREE" /\ Unheld(t)
       /\ token' = [token EXCEPT ![t] = hand[h].account]
  /\ Ends(h)
  /\ UNCHANGED <<contact, linked, challenge, issued, reset>>

(* resendAccountVerification: whoever was told a code knows its challenge. *)
Resend(h) ==
  /\ IsFree(h, "RESEND") /\ ~contact.verified
  /\ \E c \in Challenge : /\ Unconsumed(c) /\ challenge[c].told
                          /\ challenge[c].purpose = "ACCOUNT_VERIFICATION"
  /\ Goes(h, [Idle EXCEPT !.at = "RENEW"])
  /\ UNCHANGED <<contact, linked, challenge, issued, reset, token>>

RequestReset(h) ==
  /\ IsFree(h, "FORGOT") /\ contact.verified
  /\ Goes(h, [Idle EXCEPT !.at = "RENEW", !.purpose = "PASSWORD_RESET"])
  /\ UNCHANGED <<contact, linked, challenge, issued, reset, token>>

(* A guess reads the challenge, the named one or the newest for a reset;   *)
(* only who was told the code can be right.                                *)
GuessReads(h, c) ==
  /\ IsFree(h, "GUESS")
  /\ Guessable(c)
  /\ challenge[c].purpose = "PASSWORD_RESET" =>
       LET newest == SelectSeq(issued, LAMBDA d : /\ challenge[d].purpose = "PASSWORD_RESET"
                                                  /\ challenge[d].state = "OPEN")
       IN c = newest[Len(newest)]
  /\ Goes(h, [Idle EXCEPT !.at = "GUESS", !.row = c, !.flag = challenge[c].told,
                          !.purpose = challenge[c].purpose])
  /\ UNCHANGED <<contact, linked, challenge, issued, reset, token>>

(* A wrong guess is counted, to no effect once the row is consumed. *)
GuessWrong(h) ==
  LET c == hand[h].row
  IN /\ hand[h].at = "GUESS"
     /\ challenge' = IF challenge[c].state = "OPEN" THEN [challenge EXCEPT ![c].attempts = @ + 1]
                                                    ELSE challenge
     /\ Ends(h)
     /\ UNCHANGED <<contact, linked, issued, reset, token>>

(* verifyOtp: by id, whatever the challenge has become. *)
GuessVerifies(h) ==
  /\ hand[h].at = "GUESS" /\ hand[h].flag /\ hand[h].purpose = "ACCOUNT_VERIFICATION"
  /\ Consume({hand[h].row})
  /\ contact' = [contact EXCEPT !.verified = TRUE]
  /\ Ends(h)
  /\ UNCHANGED <<linked, reset, token>>

(* verifyPasswordResetCode: the same, for a token to reset with. *)
GuessResets(h) ==
  /\ hand[h].at = "GUESS" /\ hand[h].flag /\ hand[h].purpose = "PASSWORD_RESET"
  /\ Consume({hand[h].row})
  /\ \E r \in ResetToken :
       /\ reset[r] = "FREE" /\ Unheld(r)
       /\ reset' = [reset EXCEPT ![r] = contact.owner]
  /\ Ends(h)
  /\ UNCHANGED <<contact, linked, token>>

-----------------------------------------------------------------------------

CompleteReads(h) ==
  /\ IsFree(h, "COMPLETE")
  /\ \E r \in ResetToken :
       /\ reset[r] # "FREE"
       /\ Goes(h, [Idle EXCEPT !.at = "SPEND", !.row = r, !.account = reset[r]])
  /\ UNCHANGED <<contact, linked, challenge, issued, reset, token>>

RevokeAll(a) == token' = [t \in Token |-> IF token[t] = a THEN "FREE" ELSE token[t]]

(* The password, the token's use and the end of all sessions in one go. *)
CompleteWrites(h) ==
  /\ hand[h].at = "SPEND"
  /\ reset' = [reset EXCEPT ![hand[h].row] = "FREE"]
  /\ RevokeAll(hand[h].account)
  /\ contact' = [contact EXCEPT !.password = @ \/ hand[h].account = contact.owner]
  /\ Ends(h)
  /\ UNCHANGED <<linked, challenge, issued>>

RefreshReads(h) ==
  /\ IsFree(h, "REFRESH")
  /\ \E t \in Token :
       /\ token[t] # "FREE"
       /\ Goes(h, [Idle EXCEPT !.at = "REVOKE", !.row = t, !.account = token[t]])
  /\ UNCHANGED <<contact, linked, challenge, issued, reset, token>>

RefreshRevokes(h) ==
  /\ hand[h].at = "REVOKE"
  /\ token' = [token EXCEPT ![hand[h].row] = "FREE"]
  /\ Goes(h, [Idle EXCEPT !.at = "ISSUE", !.account = hand[h].account])
  /\ UNCHANGED <<contact, linked, challenge, issued, reset>>

Logout(h) ==
  /\ IsFree(h, "LOGOUT")
  /\ \E a \in Account : (\E t \in Token : token[t] = a) /\ RevokeAll(a)
  /\ UNCHANGED <<contact, linked, challenge, issued, reset, hand>>

-----------------------------------------------------------------------------
(* exchangeSayariAccount, of a provider account that has this contact. *)

(* A known account; or the contact's, an address in any case, a phone only *)
(* when it is verified; or a new one.                                      *)
SayariReads(h) ==
  /\ IsFree(h, "SAYARI")
  /\ Goes(h, IF linked # "FREE" THEN [Idle EXCEPT !.at = "ISSUE", !.account = linked]
             ELSE IF Registered /\ (contact.kind = "EMAIL" \/ contact.verified)
               THEN [Idle EXCEPT !.at = "LINK", !.account = contact.owner]
             ELSE [Idle EXCEPT !.at = "LOOK"])
  /\ UNCHANGED <<contact, linked, challenge, issued, reset, token>>

(* A new account comes with the contact if nobody has it, and with a       *)
(* password that nobody knows.                                             *)
SayariLooks(h) ==
  /\ hand[h].at = "LOOK"
  /\ Goes(h, [Idle EXCEPT !.at = "ENROL", !.flag = ~Registered])
  /\ UNCHANGED <<contact, linked, challenge, issued, reset, token>>

(* The provider vouches for the contact. *)
SayariLinks(h) ==
  /\ hand[h].at = "LINK" /\ linked = "FREE"
  /\ linked' = hand[h].account
  /\ contact' = [contact EXCEPT !.verified = TRUE]
  /\ Goes(h, [hand[h] EXCEPT !.at = "ISSUE"])
  /\ UNCHANGED <<challenge, issued, reset, token>>

(* The identities to be made are unique. *)
Clashes(h) == \/ linked # "FREE"
              \/ hand[h].at = "ENROL" /\ hand[h].flag /\ Registered

SayariEnrols(h) ==
  /\ hand[h].at = "ENROL" /\ ~Clashes(h)
  /\ linked' = "SAYARI"
  /\ contact' = IF hand[h].flag THEN [contact EXCEPT !.owner = "SAYARI", !.verified = TRUE]
                                ELSE contact
  /\ Goes(h, [Idle EXCEPT !.at = "ISSUE", !.account = "SAYARI"])
  /\ UNCHANGED <<challenge, issued, reset, token>>

SayariFails(h) ==
  /\ hand[h].at \in {"LINK", "ENROL"} /\ Clashes(h)
  /\ Ends(h)
  /\ UNCHANGED <<contact, linked, challenge, issued, reset, token>>

-----------------------------------------------------------------------------

ChallengeExpires ==
  /\ \E c \in Challenge :
       /\ challenge[c].state = "OPEN"
       /\ IF challenge[c].purpose = "PASSWORD_RESET" \/ contact.verified
            THEN Consume({c})
            ELSE /\ challenge' = [challenge EXCEPT ![c].state = "EXPIRED", ![c].attempts = 0]
                 /\ UNCHANGED issued
  /\ UNCHANGED <<contact, linked, reset, token, hand>>

(* A reset token or a refresh token expires. *)
TokenExpires ==
  /\ \/ \E r \in ResetToken : /\ reset[r] # "FREE"
                              /\ reset' = [reset EXCEPT ![r] = "FREE"] /\ UNCHANGED token
     \/ \E t \in Token : /\ token[t] # "FREE"
                         /\ token' = [token EXCEPT ![t] = "FREE"] /\ UNCHANGED reset
  /\ UNCHANGED <<contact, linked, challenge, issued, hand>>

(* A call dies with its process. *)
Lose(h) ==
  /\ hand[h].at # "IDLE"
  /\ Ends(h)
  /\ UNCHANGED <<contact, linked, challenge, issued, reset, token>>

Continue(h) ==
  \/ RegisterCreates(h) \/ RegisterFails(h) \/ Tells(h) \/ TellFails(h) \/ Renews(h) \/ Codes(h)
  \/ Issues(h) \/ GuessWrong(h) \/ GuessVerifies(h) \/ GuessResets(h)
  \/ CompleteWrites(h) \/ RefreshRevokes(h) \/ SayariLinks(h) \/ SayariLooks(h)
  \/ SayariEnrols(h) \/ SayariFails(h)

Begin(h) ==
  \/ RegisterReads(h) \/ Login(h) \/ Resend(h) \/ RequestReset(h)
  \/ \E c \in Challenge : GuessReads(h, c)
  \/ CompleteReads(h) \/ RefreshReads(h) \/ Logout(h) \/ SayariReads(h)

Next ==
  \/ ChallengeExpires \/ TokenExpires
  \/ \E h \in Handler : Begin(h) \/ Continue(h) \/ Lose(h)

Spec == Init /\ [][Next]_vars

(* People try again: they log in, and they give the code they were told.   *)
(* Codes do not come too late each time, and calls do not die each time at *)
(* the same point.  No call lasts forever.                                 *)
Fairness ==
  /\ \A h \in Handler : WF_vars(Lose(h))
  /\ SF_vars(\E h \in Handler : Login(h))
  /\ SF_vars(\E h \in Handler : Renews(h))
  /\ SF_vars(\E h \in Handler : Codes(h))
  /\ SF_vars(\E h \in Handler : Tells(h) /\ Guessable(hand[h].row))
  /\ SF_vars(\E h \in Handler, c \in Challenge : challenge[c].told /\ GuessReads(h, c))
  /\ SF_vars(\E h \in Handler : GuessVerifies(h))

FairSpec == Spec /\ Fairness

-----------------------------------------------------------------------------
(* Properties. *)

(* A code is guessed at Limit times, and once more by each call that had   *)
(* read the same count, however the guesses overlap.                       *)
AttemptsBounded ==
  \A c \in Challenge : challenge[c].attempts <= Limit - 1 + Cardinality(Handler)

(* A session is of an account with a verified identity, whichever way it   *)
(* came by it: a code, the provider, another session.                      *)
SessionsNeedVerification ==
  \A t \in Token : token[t] # "FREE" =>
    \/ token[t] = linked
    \/ token[t] = contact.owner /\ contact.verified

(* Registering stores the account before its code is sent, and the contact *)
(* cannot be registered again: still, whoever registered gets verified.    *)
AccountsGetVerified == Registered ~> contact.verified

=============================================================================
