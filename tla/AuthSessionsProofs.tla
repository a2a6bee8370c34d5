--------------------------- MODULE AuthSessionsProofs ---------------------------
(***************************************************************************)
(* Who has a session is verified, and guesses are bounded, for any number  *)
(* of calls, challenges and tokens.                                        *)
(***************************************************************************)
EXTENDS AuthSessions, FiniteSetTheorems, TLAPS

(* An account whose contact is verified, by a code or by the provider. *)
Vouched(a) ==
  /\ a # "FREE"
  /\ a = linked \/ (a = contact.owner /\ contact.verified)

(* Only a registered contact is verified or has a password. *)
ContactStands == contact.verified \/ contact.password => Registered

(* A challenge belongs to a registered contact, one that resets the password
   to a verified one. *)
ChallengesStand ==
  \A c \in Challenge : /\ challenge[c].state # "FREE" => Registered
                       /\ challenge[c].purpose = "PASSWORD_RESET" => contact.verified

(* What a call has read still holds when it writes: owners and verification
   are never taken back. *)
CallsStand ==
  \A h \in Handler :
    /\ hand[h].at \in {"RENEW", "CODE", "GUESS"} =>
         /\ Registered
         /\ hand[h].purpose = "PASSWORD_RESET" => contact.verified
    /\ hand[h].at \in {"ISSUE", "REVOKE", "SPEND"} => Vouched(hand[h].account)
    /\ hand[h].at = "LINK" => Registered /\ hand[h].account = contact.owner

(* Reset tokens and sessions are of vouched accounts. *)
TokensStand ==
  /\ \A r \in ResetToken : reset[r] # "FREE" => Vouched(reset[r])
  /\ \A t \in Token : token[t] # "FREE" => Vouched(token[t])

Standing == RowsOK /\ ContactStands /\ ChallengesStand /\ CallsStand /\ TokensStand

LEMMA StandingInit == Init => Standing
<1> SUFFICES ASSUME Init PROVE Standing
  OBVIOUS
<1>1. RowsOK
  BY DEF Init, RowsOK, ChallengeRow, Call, Account, Purpose, NoChallenge, Idle
<1>2. contact.owner = "FREE" /\ ~contact.verified /\ ~contact.password
  BY DEF Init
<1>3. ContactStands /\ ChallengesStand /\ CallsStand /\ TokensStand
  BY <1>2 DEF Init, ContactStands, ChallengesStand, CallsStand, TokensStand, NoChallenge, Idle
<1> QED
  BY <1>1, <1>3 DEF Standing

(* The rows of free challenges and of calls that are over. *)
LEMMA TypesStand == NoChallenge \in ChallengeRow /\ Idle \in Call
BY DEF NoChallenge, ChallengeRow, Idle, Call, Account, Purpose

(* What consuming challenges does to their rows. *)
LEMMA Consumed ==
  ASSUME NEW S, Consume(S)
  PROVE  challenge' = [c \in Challenge |-> IF c \in S THEN NoChallenge ELSE challenge[c]]
BY DEF Consume

(* What storing a challenge does to its row. *)
LEMMA ChallengedRow ==
  ASSUME NEW c \in Challenge, NEW p \in Purpose, Challenged(c, p)
  PROVE  \E x \in ChallengeRow :
           /\ x.state = "OPEN" /\ x.purpose = p /\ x.attempts = 0
           /\ challenge' = [challenge EXCEPT ![c] = x]
<1>1. PICK x \in ChallengeRow : x = [NoChallenge EXCEPT !.state = "OPEN", !.purpose = p]
  BY DEF NoChallenge, ChallengeRow
<1>2. x.state = "OPEN" /\ x.purpose = p /\ x.attempts = 0
  BY <1>1 DEF NoChallenge
<1> QED
  BY <1>1, <1>2 DEF Challenged

(* A call that has stored a challenge and sends its code. *)
LEMMA Telling ==
  ASSUME NEW c \in Challenge
  PROVE  \E y \in Call : y = [Idle EXCEPT !.at = "TELL", !.row = c] /\ y.at = "TELL"
<1>1. PICK y \in Call : y = [Idle EXCEPT !.at = "TELL", !.row = c]
  BY DEF Idle, Call, Account, Purpose
<1>2. y.at = "TELL"
  BY <1>1 DEF Idle
<1> QED
  BY <1>1, <1>2

(* Registering. *)
LEMMA RegistrationStands ==
  ASSUME Standing, NEW h \in Handler,
         RegisterReads(h) \/ RegisterCreates(h) \/ RegisterFails(h)
  PROVE  Standing'
<1> USE DEF Standing, Registered, NoChallenge, Idle, Goes, Ends
<1>1. CASE RegisterReads(h)
  <2>1. RowsOK'
    BY <1>1, TypesStand DEF RegisterReads, RowsOK, Call, ChallengeRow, Account, Purpose
  <2>2. ContactStands'
    BY <1>1 DEF RegisterReads, RowsOK, ContactStands, ChallengesStand, CallsStand
  <2>3. ChallengesStand'
    BY <1>1 DEF RegisterReads, RowsOK, ContactStands, ChallengesStand, CallsStand
  <2>4. CallsStand'
    BY <1>1 DEF RegisterReads, RowsOK, ContactStands, ChallengesStand, CallsStand,
       TokensStand, Vouched
  <2>5. TokensStand'
    BY <1>1 DEF RegisterReads, RowsOK, ContactStands, ChallengesStand, CallsStand,
       TokensStand, Vouched
  <2> QED
    BY <2>1, <2>2, <2>3, <2>4, <2>5
<1>2. CASE RegisterCreates(h)
  <2>1. PICK c \in Challenge, x \in ChallengeRow, y \in Call :
          /\ ~Registered /\ UNCHANGED <<linked, reset, token>>
          /\ contact' = [contact EXCEPT !.owner = "OWN", !.password = TRUE]
          /\ x.state = "OPEN" /\ x.purpose = "ACCOUNT_VERIFICATION"
          /\ challenge' = [challenge EXCEPT ![c] = x]
          /\ y.at = "TELL" /\ hand' = [hand EXCEPT ![h] = y]
    <3>1. PICK c \in Challenge : /\ Challenged(c, "ACCOUNT_VERIFICATION")
                                /\ hand' = [hand EXCEPT ![h] =
                                     [Idle EXCEPT !.at = "TELL", !.row = c]]
      BY <1>2 DEF RegisterCreates
    <3>2. PICK y \in Call : y = [Idle EXCEPT !.at = "TELL", !.row = c] /\ y.at = "TELL"
      BY Telling
    <3>3. PICK x \in ChallengeRow : /\ x.state = "OPEN" /\ x.purpose = "ACCOUNT_VERIFICATION"
                                   /\ challenge' = [challenge EXCEPT ![c] = x]
      BY <3>1, ChallengedRow DEF Purpose
    <3> QED
      BY <1>2, <3>1, <3>2, <3>3 DEF RegisterCreates
  <2>2. RowsOK'
    BY <2>1, TypesStand DEF RowsOK, Call, ChallengeRow, Account, Purpose
  <2>3. ContactStands'
    BY <2>1 DEF RowsOK, ContactStands, ChallengesStand, CallsStand
  <2>4. ChallengesStand'
    BY <2>1 DEF RowsOK, ContactStands, ChallengesStand, CallsStand
  <2>5. CallsStand'
    BY <2>1 DEF RowsOK, ContactStands, ChallengesStand, CallsStand, TokensStand, Vouched
  <2>6. TokensStand'
    BY <2>1 DEF RowsOK, ContactStands, ChallengesStand, CallsStand, TokensStand, Vouched
  <2> QED
    BY <2>2, <2>3, <2>4, <2>5, <2>6
<1>3. CASE RegisterFails(h)
  <2>1. RowsOK'
    BY <1>3, TypesStand DEF RegisterFails, RowsOK, Call, ChallengeRow, Account, Purpose
  <2>2. ContactStands'
    BY <1>3 DEF RegisterFails, RowsOK, ContactStands, ChallengesStand, CallsStand
  <2>3. ChallengesStand'
    BY <1>3 DEF RegisterFails, RowsOK, ContactStands, ChallengesStand, CallsStand
  <2>4. CallsStand'
    BY <1>3 DEF RegisterFails, RowsOK, ContactStands, ChallengesStand, CallsStand,
       TokensStand, Vouched
  <2>5. TokensStand'
    BY <1>3 DEF RegisterFails, RowsOK, ContactStands, ChallengesStand, CallsStand,
       TokensStand, Vouched
  <2> QED
    BY <2>1, <2>2, <2>3, <2>4, <2>5
<1> QED
  BY <1>1, <1>2, <1>3

(* Sending codes. *)
LEMMA CodesStand ==
  ASSUME Standing, NEW h \in Handler,
         Tells(h) \/ TellFails(h) \/ Renews(h) \/ Codes(h) \/ Resend(h) \/ RequestReset(h)
  PROVE  Standing'
<1> USE DEF Standing, Registered, NoChallenge, Idle, Goes, Ends
<1>1. CASE Tells(h)
  <2>1. PICK b \in BOOLEAN, c \in Challenge \cup ResetToken \cup Token \cup {None} :
          /\ challenge' = [challenge EXCEPT ![c].told = b]
          /\ challenge' \in [Challenge -> ChallengeRow]
          /\ hand' = [hand EXCEPT ![h] = Idle]
          /\ UNCHANGED <<contact, linked, reset, token>>
    <3>1. PICK b \in BOOLEAN, c \in Challenge \cup ResetToken \cup Token \cup {None} :
            b = Unconsumed(c) /\ c = hand[h].row
      BY DEF Unconsumed, RowsOK, Call
    <3>2. \A d \in Challenge : [challenge[d] EXCEPT !.told = b] \in ChallengeRow
      BY DEF RowsOK, ChallengeRow
    <3>3. [challenge EXCEPT ![c].told = b] \in [Challenge -> ChallengeRow]
      BY <3>2 DEF RowsOK
    <3> QED
      BY <1>1, <3>1, <3>3 DEF Tells
  <2>2. RowsOK'
    BY <2>1, TypesStand DEF RowsOK, Call, ChallengeRow, Account, Purpose
  <2>3. ContactStands'
    BY <2>1 DEF RowsOK, ContactStands, ChallengesStand, CallsStand
  <2>4. ChallengesStand'
    BY <2>1 DEF RowsOK, ContactStands, ChallengesStand, CallsStand
  <2>5. CallsStand'
    BY <2>1 DEF RowsOK, ContactStands, ChallengesStand, CallsStand, TokensStand, Vouched
  <2>6. TokensStand'
    BY <2>1 DEF RowsOK, ContactStands, ChallengesStand, CallsStand, TokensStand, Vouched
  <2> QED
    BY <2>2, <2>3, <2>4, <2>5, <2>6
<1>2. CASE TellFails(h)
  <2>1. RowsOK'
    BY <1>2, TypesStand DEF TellFails, RowsOK, Call, ChallengeRow, Account, Purpose
  <2>2. ContactStands'
    BY <1>2 DEF TellFails, RowsOK, ContactStands, ChallengesStand, CallsStand
  <2>3. ChallengesStand'
    BY <1>2 DEF TellFails, RowsOK, ContactStands, ChallengesStand, CallsStand
  <2>4. CallsStand'
    BY <1>2 DEF TellFails, RowsOK, ContactStands, ChallengesStand, CallsStand, TokensStand,
       Vouched
  <2>5. TokensStand'
    BY <1>2 DEF TellFails, RowsOK, ContactStands, ChallengesStand, CallsStand, TokensStand,
       Vouched
  <2> QED
    BY <2>1, <2>2, <2>3, <2>4, <2>5
<1>3. CASE Renews(h)
  <2>1. PICK S \in SUBSET Challenge, x \in Call :
          /\ hand[h].at = "RENEW" /\ x.at = "CODE" /\ x.purpose = hand[h].purpose
          /\ hand' = [hand EXCEPT ![h] = x]
          /\ challenge' = [c \in Challenge |-> IF c \in S THEN NoChallenge ELSE challenge[c]]
          /\ UNCHANGED <<contact, linked, reset, token>>
    <3>1. hand[h] \in Call /\ [hand[h] EXCEPT !.at = "CODE"] \in Call
      BY DEF RowsOK, Call
    <3>2. PICK S \in SUBSET Challenge : Consume(S)
      BY <1>3 DEF Renews
    <3>3. PICK x \in Call : x = [hand[h] EXCEPT !.at = "CODE"]
      BY <3>1
    <3>4. x.at = "CODE" /\ x.purpose = hand[h].purpose
      BY <3>1, <3>3 DEF Call
    <3> QED
      BY <1>3, <3>2, <3>3, <3>4, Consumed DEF Renews
  <2>2. RowsOK'
    BY <2>1, TypesStand DEF RowsOK, Call, ChallengeRow, Account, Purpose
  <2>3. ContactStands'
    BY <2>1 DEF RowsOK, ContactStands, ChallengesStand, CallsStand
  <2>4. ChallengesStand'
    BY <2>1 DEF RowsOK, ContactStands, ChallengesStand, CallsStand
  <2>5. CallsStand'
    BY <2>1 DEF RowsOK, ContactStands, ChallengesStand, CallsStand, TokensStand, Vouched
  <2>6. TokensStand'
    BY <2>1 DEF RowsOK, ContactStands, ChallengesStand, CallsStand, TokensStand, Vouched
  <2> QED
    BY <2>2, <2>3, <2>4, <2>5, <2>6
<1>4. CASE Codes(h)
  <2>1. PICK c \in Challenge, x \in ChallengeRow, y \in Call :
          /\ hand[h].at = "CODE" /\ x.purpose = hand[h].purpose
          /\ UNCHANGED <<contact, linked, reset, token>>
          /\ x.state = "OPEN" /\ challenge' = [challenge EXCEPT ![c] = x]
          /\ y.at = "TELL" /\ hand' = [hand EXCEPT ![h] = y]
    <3>1. hand[h].purpose \in Purpose
      BY DEF RowsOK, Call
    <3>2. PICK c \in Challenge : /\ Challenged(c, hand[h].purpose)
                                /\ hand' = [hand EXCEPT ![h] =
                                     [Idle EXCEPT !.at = "TELL", !.row = c]]
      BY <1>4 DEF Codes
    <3>3. PICK y \in Call : y = [Idle EXCEPT !.at = "TELL", !.row = c] /\ y.at = "TELL"
      BY Telling
    <3>4. PICK x \in ChallengeRow : /\ x.state = "OPEN" /\ x.purpose = hand[h].purpose
                                   /\ challenge' = [challenge EXCEPT ![c] = x]
      BY <3>1, <3>2, ChallengedRow
    <3> QED
      BY <1>4, <3>2, <3>3, <3>4 DEF Codes
  <2>2. RowsOK'
    BY <2>1, TypesStand DEF RowsOK, Call, ChallengeRow, Account, Purpose
  <2>3. ContactStands'
    BY <2>1 DEF RowsOK, ContactStands, ChallengesStand, CallsStand
  <2>4. ChallengesStand'
    BY <2>1 DEF RowsOK, ContactStands, ChallengesStand, CallsStand
  <2>5. CallsStand'
    BY <2>1 DEF RowsOK, ContactStands, ChallengesStand, CallsStand, TokensStand, Vouched
  <2>6. TokensStand'
    BY <2>1 DEF RowsOK, ContactStands, ChallengesStand, CallsStand, TokensStand, Vouched
  <2> QED
    BY <2>2, <2>3, <2>4, <2>5, <2>6
<1>5. CASE Resend(h)
  <2>1. RowsOK'
    BY <1>5, TypesStand DEF Resend, RowsOK, Unconsumed, Call, ChallengeRow, Account, Purpose
  <2>2. ContactStands'
    BY <1>5 DEF Resend, RowsOK, ContactStands, ChallengesStand, CallsStand, Unconsumed
  <2>3. ChallengesStand'
    BY <1>5 DEF Resend, RowsOK, ContactStands, ChallengesStand, CallsStand, Unconsumed
  <2>4. CallsStand'
    BY <1>5 DEF Resend, RowsOK, ContactStands, ChallengesStand, CallsStand, TokensStand,
       Vouched, Unconsumed
  <2>5. TokensStand'
    BY <1>5 DEF Resend, RowsOK, ContactStands, ChallengesStand, CallsStand, TokensStand,
       Vouched, Unconsumed
  <2> QED
    BY <2>1, <2>2, <2>3, <2>4, <2>5
<1>6. CASE RequestReset(h)
  <2>1. RowsOK'
    BY <1>6, TypesStand DEF RequestReset, RowsOK, Call, ChallengeRow, Account, Purpose
  <2>2. ContactStands'
    BY <1>6 DEF RequestReset, RowsOK, ContactStands, ChallengesStand, CallsStand
  <2>3. ChallengesStand'
    BY <1>6 DEF RequestReset, RowsOK, ContactStands, ChallengesStand, CallsStand
  <2>4. CallsStand'
    BY <1>6 DEF RequestReset, RowsOK, ContactStands, ChallengesStand, CallsStand, TokensStand,
       Vouched
  <2>5. TokensStand'
    BY <1>6 DEF RequestReset, RowsOK, ContactStands, ChallengesStand, CallsStand, TokensStand,
       Vouched
  <2> QED
    BY <2>1, <2>2, <2>3, <2>4, <2>5
<1> QED
  BY <1>1, <1>2, <1>3, <1>4, <1>5, <1>6

(* Signing in. *)
LEMMA SignInStands ==
  ASSUME Standing, NEW h \in Handler,
         Login(h) \/ Issues(h)
  PROVE  Standing'
<1> USE DEF Standing, Registered, NoChallenge, Idle, Goes, Ends
<1>1. CASE Login(h)
  <2>1. RowsOK'
    BY <1>1, TypesStand DEF Login, RowsOK, Call, ChallengeRow, Account, Purpose
  <2>2. ContactStands'
    BY <1>1 DEF Login, RowsOK, ContactStands, ChallengesStand, CallsStand
  <2>3. ChallengesStand'
    BY <1>1 DEF Login, RowsOK, ContactStands, ChallengesStand, CallsStand
  <2>4. CallsStand'
    BY <1>1 DEF Login, RowsOK, ContactStands, ChallengesStand, CallsStand, TokensStand,
       Vouched
  <2>5. TokensStand'
    BY <1>1 DEF Login, RowsOK, ContactStands, ChallengesStand, CallsStand, TokensStand,
       Vouched
  <2> QED
    BY <2>1, <2>2, <2>3, <2>4, <2>5
<1>2. CASE Issues(h)
  <2>1. RowsOK'
    BY <1>2, TypesStand DEF Issues, RowsOK, Unheld, Call, ChallengeRow, Account, Purpose
  <2>2. ContactStands'
    BY <1>2 DEF Issues, RowsOK, ContactStands, ChallengesStand, CallsStand, Unheld
  <2>3. ChallengesStand'
    BY <1>2 DEF Issues, RowsOK, ContactStands, ChallengesStand, CallsStand, Unheld
  <2>4. CallsStand'
    BY <1>2 DEF Issues, RowsOK, ContactStands, ChallengesStand, CallsStand, TokensStand,
       Vouched, Unheld
  <2>5. TokensStand'
    BY <1>2 DEF Issues, RowsOK, ContactStands, ChallengesStand, CallsStand, TokensStand,
       Vouched, Unheld
  <2> QED
    BY <2>1, <2>2, <2>3, <2>4, <2>5
<1> QED
  BY <1>1, <1>2

(* Guessing codes. *)
LEMMA GuessesStand ==
  ASSUME Standing, NEW h \in Handler,
         (\E c \in Challenge : GuessReads(h, c)) \/ GuessWrong(h) \/ GuessVerifies(h) \/
            GuessResets(h)
  PROVE  Standing'
<1> USE DEF Standing, Registered, NoChallenge, Idle, Goes, Ends
<1>1. CASE (\E c \in Challenge : GuessReads(h, c))
  <2>1. PICK x \in Call :
          /\ x.at = "GUESS" /\ (x.purpose = "PASSWORD_RESET" => contact.verified) /\ Registered
          /\ hand' = [hand EXCEPT ![h] = x]
          /\ UNCHANGED <<contact, linked, challenge, reset, token>>
    <3>1. PICK c \in Challenge : GuessReads(h, c)
      BY <1>1
    <3>2. challenge[c] \in ChallengeRow
      BY DEF RowsOK
    <3>3. PICK x \in Call : x = [Idle EXCEPT !.at = "GUESS", !.row = c,
                                            !.flag = challenge[c].told,
                                            !.purpose = challenge[c].purpose]
      BY <3>2 DEF Call, ChallengeRow, Account
    <3>4. x.at = "GUESS" /\ x.purpose = challenge[c].purpose
      BY <3>3
    <3> QED
      BY <3>1, <3>3, <3>4 DEF GuessReads, Guessable, ChallengesStand
  <2>2. RowsOK'
    BY <2>1, TypesStand DEF RowsOK, Call, ChallengeRow, Account, Purpose
  <2>3. ContactStands'
    BY <2>1 DEF RowsOK, ContactStands, ChallengesStand, CallsStand
  <2>4. ChallengesStand'
    BY <2>1 DEF RowsOK, ContactStands, ChallengesStand, CallsStand
  <2>5. CallsStand'
    BY <2>1 DEF RowsOK, ContactStands, ChallengesStand, CallsStand, TokensStand, Vouched
  <2>6. TokensStand'
    BY <2>1 DEF RowsOK, ContactStands, ChallengesStand, CallsStand, TokensStand, Vouched
  <2> QED
    BY <2>2, <2>3, <2>4, <2>5, <2>6
<1>2. CASE GuessWrong(h)
  <2>1. /\ challenge' \in [Challenge -> ChallengeRow]
        /\ \A d \in Challenge : /\ challenge'[d].state = challenge[d].state
                                /\ challenge'[d].purpose = challenge[d].purpose
        /\ hand' = [hand EXCEPT ![h] = Idle]
        /\ UNCHANGED <<contact, linked, reset, token>>
    <3>1. \A d \in Challenge :
            /\ [challenge[d] EXCEPT !.attempts = @ + 1] \in ChallengeRow
            /\ [challenge[d] EXCEPT !.attempts = @ + 1].state = challenge[d].state
            /\ [challenge[d] EXCEPT !.attempts = @ + 1].purpose = challenge[d].purpose
      BY DEF RowsOK, ChallengeRow
    <3>2. \A d \in Challenge : challenge'[d] \in {challenge[d], [challenge[d] EXCEPT !.attempts = @ + 1]}
      BY <1>2 DEF GuessWrong, RowsOK
    <3>3. challenge' = [d \in Challenge |-> challenge'[d]]
      BY <1>2 DEF GuessWrong, RowsOK
    <3>4. \A d \in Challenge : challenge'[d] \in ChallengeRow
      BY <3>1, <3>2 DEF RowsOK
    <3> QED
      BY <1>2, <3>1, <3>2, <3>3, <3>4 DEF GuessWrong
  <2>2. RowsOK'
    BY <2>1, TypesStand DEF RowsOK, Call, ChallengeRow, Account, Purpose
  <2>3. ContactStands'
    BY <2>1 DEF RowsOK, ContactStands, ChallengesStand, CallsStand
  <2>4. ChallengesStand'
    BY <2>1 DEF RowsOK, ContactStands, ChallengesStand, CallsStand
  <2>5. CallsStand'
    BY <2>1 DEF RowsOK, ContactStands, ChallengesStand, CallsStand, TokensStand, Vouched
  <2>6. TokensStand'
    BY <2>1 DEF RowsOK, ContactStands, ChallengesStand, CallsStand, TokensStand, Vouched
  <2> QED
    BY <2>2, <2>3, <2>4, <2>5, <2>6
<1>3. CASE GuessVerifies(h)
  <2>1. PICK v \in [kind : Kinds, owner : Account \cup {"FREE"}, verified : BOOLEAN,
                    password : BOOLEAN] :
          /\ Registered /\ v.verified /\ v.owner = contact.owner /\ contact' = v
          /\ \E S : challenge' = [c \in Challenge |-> IF c \in S THEN NoChallenge
                                                      ELSE challenge[c]]
          /\ hand' = [hand EXCEPT ![h] = Idle]
          /\ UNCHANGED <<linked, reset, token>>
    <3>1. PICK v \in [kind : Kinds, owner : Account \cup {"FREE"}, verified : BOOLEAN,
                      password : BOOLEAN] : v = [contact EXCEPT !.verified = TRUE]
      BY DEF RowsOK
    <3>2. v.verified /\ v.owner = contact.owner
      BY <3>1 DEF RowsOK
    <3>3. PICK S : Consume(S)
      BY <1>3 DEF GuessVerifies
    <3>4. Registered
      BY <1>3 DEF GuessVerifies, CallsStand
    <3>5. challenge' = [c \in Challenge |-> IF c \in S THEN NoChallenge ELSE challenge[c]]
      BY <3>3, Consumed
    <3>6. contact' = v /\ hand' = [hand EXCEPT ![h] = Idle] /\ UNCHANGED <<linked, reset, token>>
      BY <1>3, <3>1 DEF GuessVerifies
    <3> QED
      BY <3>2, <3>4, <3>5, <3>6
  <2>2. RowsOK'
    BY <2>1, TypesStand DEF RowsOK, Call, ChallengeRow, Account, Purpose
  <2>3. ContactStands'
    BY <2>1 DEF RowsOK, ContactStands, ChallengesStand, CallsStand
  <2>4. ChallengesStand'
    BY <2>1 DEF RowsOK, ContactStands, ChallengesStand, CallsStand
  <2>5. CallsStand'
    BY <2>1 DEF RowsOK, ContactStands, ChallengesStand, CallsStand, TokensStand, Vouched
  <2>6. TokensStand'
    BY <2>1 DEF RowsOK, ContactStands, ChallengesStand, CallsStand, TokensStand, Vouched
  <2> QED
    BY <2>2, <2>3, <2>4, <2>5, <2>6
<1>4. CASE GuessResets(h)
  <2>1. /\ Registered /\ contact.verified
        /\ \E S : challenge' = [c \in Challenge |-> IF c \in S THEN NoChallenge
                                                    ELSE challenge[c]]
        /\ \E r \in ResetToken : reset' = [reset EXCEPT ![r] = contact.owner]
        /\ hand' = [hand EXCEPT ![h] = Idle]
        /\ UNCHANGED <<contact, linked, token>>
    BY <1>4, Consumed DEF GuessResets, CallsStand
  <2>2. RowsOK'
    BY <2>1, TypesStand DEF RowsOK, Call, ChallengeRow, Account, Purpose
  <2>3. ContactStands'
    BY <2>1 DEF RowsOK, ContactStands, ChallengesStand, CallsStand
  <2>4. ChallengesStand'
    BY <2>1 DEF RowsOK, ContactStands, ChallengesStand, CallsStand
  <2>5. CallsStand'
    BY <2>1 DEF RowsOK, ContactStands, ChallengesStand, CallsStand, TokensStand, Vouched
  <2>6. TokensStand'
    BY <2>1 DEF RowsOK, ContactStands, ChallengesStand, CallsStand, TokensStand, Vouched
  <2> QED
    BY <2>2, <2>3, <2>4, <2>5, <2>6
<1> QED
  BY <1>1, <1>2, <1>3, <1>4

(* Resetting the password, and sessions. *)
LEMMA SessionsStand ==
  ASSUME Standing, NEW h \in Handler,
         CompleteReads(h) \/ CompleteWrites(h) \/ RefreshReads(h) \/ RefreshRevokes(h) \/
            Logout(h) \/ Lose(h)
  PROVE  Standing'
<1> USE DEF Standing, Registered, NoChallenge, Idle, Goes, Ends
<1>1. CASE CompleteReads(h)
  <2>1. PICK x \in Call :
          /\ x.at = "SPEND" /\ Vouched(x.account)
          /\ hand' = [hand EXCEPT ![h] = x]
          /\ UNCHANGED <<contact, linked, challenge, reset, token>>
    <3>1. PICK r \in ResetToken :
            /\ reset[r] # "FREE"
            /\ hand' = [hand EXCEPT ![h] =
                 [Idle EXCEPT !.at = "SPEND", !.row = r, !.account = reset[r]]]
      BY <1>1 DEF CompleteReads
    <3>2. reset[r] \in Account \cup {"FREE"} /\ Vouched(reset[r])
      BY <3>1 DEF RowsOK, TokensStand
    <3>3. PICK x \in Call : x = [Idle EXCEPT !.at = "SPEND", !.row = r, !.account = reset[r]]
      BY <3>2 DEF Call, Purpose
    <3>4. x.at = "SPEND" /\ x.account = reset[r]
      BY <3>3
    <3> QED
      BY <1>1, <3>1, <3>2, <3>3, <3>4 DEF CompleteReads
  <2>2. RowsOK'
    BY <2>1, TypesStand DEF RowsOK, Call, ChallengeRow, Account, Purpose
  <2>3. ContactStands'
    BY <2>1 DEF RowsOK, ContactStands, ChallengesStand, CallsStand
  <2>4. ChallengesStand'
    BY <2>1 DEF RowsOK, ContactStands, ChallengesStand, CallsStand
  <2>5. CallsStand'
    BY <2>1 DEF RowsOK, ContactStands, ChallengesStand, CallsStand, TokensStand, Vouched
  <2>6. TokensStand'
    BY <2>1 DEF RowsOK, ContactStands, ChallengesStand, CallsStand, TokensStand, Vouched
  <2> QED
    BY <2>2, <2>3, <2>4, <2>5, <2>6
<1>2. CASE CompleteWrites(h)
  <2>1. hand[h].account # "FREE" /\ hand[h].account \in Account \cup {"FREE"}
    BY <1>2 DEF CompleteWrites, CallsStand, Vouched, RowsOK, Call
  <2>2. RowsOK'
    BY <1>2, <2>1, TypesStand DEF CompleteWrites, RowsOK, RevokeAll, Call, ChallengeRow,
       Account, Purpose
  <2>3. ContactStands'
    BY <1>2, <2>1 DEF CompleteWrites, RowsOK, ContactStands, ChallengesStand, CallsStand,
       RevokeAll
  <2>4. ChallengesStand'
    BY <1>2, <2>1 DEF CompleteWrites, RowsOK, ContactStands, ChallengesStand, CallsStand,
       RevokeAll
  <2>5. CallsStand'
    BY <1>2, <2>1 DEF CompleteWrites, RowsOK, ContactStands, ChallengesStand, CallsStand,
       TokensStand, Vouched, RevokeAll
  <2>6. TokensStand'
    BY <1>2, <2>1 DEF CompleteWrites, RowsOK, ContactStands, ChallengesStand, CallsStand,
       TokensStand, Vouched, RevokeAll
  <2> QED
    BY <2>2, <2>3, <2>4, <2>5, <2>6
<1>3. CASE RefreshReads(h)
  <2>1. PICK x \in Call :
          /\ x.at = "REVOKE" /\ Vouched(x.account)
          /\ hand' = [hand EXCEPT ![h] = x]
          /\ UNCHANGED <<contact, linked, challenge, reset, token>>
    <3>1. PICK r \in Token :
            /\ token[r] # "FREE"
            /\ hand' = [hand EXCEPT ![h] =
                 [Idle EXCEPT !.at = "REVOKE", !.row = r, !.account = token[r]]]
      BY <1>3 DEF RefreshReads
    <3>2. token[r] \in Account \cup {"FREE"} /\ Vouched(token[r])
      BY <3>1 DEF RowsOK, TokensStand
    <3>3. PICK x \in Call : x = [Idle EXCEPT !.at = "REVOKE", !.row = r, !.account = token[r]]
      BY <3>2 DEF Call, Purpose
    <3>4. x.at = "REVOKE" /\ x.account = token[r]
      BY <3>3
    <3> QED
      BY <1>3, <3>1, <3>2, <3>3, <3>4 DEF RefreshReads
  <2>2. RowsOK'
    BY <2>1, TypesStand DEF RowsOK, Call, ChallengeRow, Account, Purpose
  <2>3. ContactStands'
    BY <2>1 DEF RowsOK, ContactStands, ChallengesStand, CallsStand
  <2>4. ChallengesStand'
    BY <2>1 DEF RowsOK, ContactStands, ChallengesStand, CallsStand
  <2>5. CallsStand'
    BY <2>1 DEF RowsOK, ContactStands, ChallengesStand, CallsStand, TokensStand, Vouched
  <2>6. TokensStand'
    BY <2>1 DEF RowsOK, ContactStands, ChallengesStand, CallsStand, TokensStand, Vouched
  <2> QED
    BY <2>2, <2>3, <2>4, <2>5, <2>6
<1>4. CASE RefreshRevokes(h)
  <2>1. RowsOK'
    BY <1>4, TypesStand DEF RefreshRevokes, RowsOK, Call, ChallengeRow, Account, Purpose
  <2>2. ContactStands'
    BY <1>4 DEF RefreshRevokes, RowsOK, ContactStands, ChallengesStand, CallsStand
  <2>3. ChallengesStand'
    BY <1>4 DEF RefreshRevokes, RowsOK, ContactStands, ChallengesStand, CallsStand
  <2>4. CallsStand'
    BY <1>4 DEF RefreshRevokes, RowsOK, ContactStands, ChallengesStand, CallsStand,
       TokensStand, Vouched
  <2>5. TokensStand'
    BY <1>4 DEF RefreshRevokes, RowsOK, ContactStands, ChallengesStand, CallsStand,
       TokensStand, Vouched
  <2> QED
    BY <2>1, <2>2, <2>3, <2>4, <2>5
<1>5. CASE Logout(h)
  <2>1. RowsOK'
    BY <1>5, TypesStand DEF Logout, RowsOK, RevokeAll, Call, ChallengeRow, Account, Purpose
  <2>2. ContactStands'
    BY <1>5 DEF Logout, RowsOK, ContactStands, ChallengesStand, CallsStand, RevokeAll
  <2>3. ChallengesStand'
    BY <1>5 DEF Logout, RowsOK, ContactStands, ChallengesStand, CallsStand, RevokeAll
  <2>4. CallsStand'
    BY <1>5 DEF Logout, RowsOK, ContactStands, ChallengesStand, CallsStand, TokensStand,
       Vouched, RevokeAll
  <2>5. TokensStand'
    BY <1>5 DEF Logout, RowsOK, ContactStands, ChallengesStand, CallsStand, TokensStand,
       Vouched, RevokeAll
  <2> QED
    BY <2>1, <2>2, <2>3, <2>4, <2>5
<1>6. CASE Lose(h)
  <2>1. RowsOK'
    BY <1>6, TypesStand DEF Lose, RowsOK, Call, ChallengeRow, Account, Purpose
  <2>2. ContactStands'
    BY <1>6 DEF Lose, RowsOK, ContactStands, ChallengesStand, CallsStand
  <2>3. ChallengesStand'
    BY <1>6 DEF Lose, RowsOK, ContactStands, ChallengesStand, CallsStand
  <2>4. CallsStand'
    BY <1>6 DEF Lose, RowsOK, ContactStands, ChallengesStand, CallsStand, TokensStand, Vouched
  <2>5. TokensStand'
    BY <1>6 DEF Lose, RowsOK, ContactStands, ChallengesStand, CallsStand, TokensStand, Vouched
  <2> QED
    BY <2>1, <2>2, <2>3, <2>4, <2>5
<1> QED
  BY <1>1, <1>2, <1>3, <1>4, <1>5, <1>6

(* Signing in with the provider. *)
LEMMA ProviderStands ==
  ASSUME Standing, NEW h \in Handler,
         SayariReads(h) \/ SayariLooks(h) \/ SayariLinks(h) \/ SayariEnrols(h) \/
            SayariFails(h)
  PROVE  Standing'
<1> USE DEF Standing, Registered, NoChallenge, Idle, Goes, Ends
<1>1. CASE SayariReads(h)
  <2>1. RowsOK'
    BY <1>1, TypesStand DEF SayariReads, RowsOK, Call, ChallengeRow, Account, Purpose
  <2>2. ContactStands'
    BY <1>1 DEF SayariReads, RowsOK, ContactStands, ChallengesStand, CallsStand
  <2>3. ChallengesStand'
    BY <1>1 DEF SayariReads, RowsOK, ContactStands, ChallengesStand, CallsStand
  <2>4. CallsStand'
    BY <1>1 DEF SayariReads, RowsOK, ContactStands, ChallengesStand, CallsStand, TokensStand,
       Vouched
  <2>5. TokensStand'
    BY <1>1 DEF SayariReads, RowsOK, ContactStands, ChallengesStand, CallsStand, TokensStand,
       Vouched
  <2> QED
    BY <2>1, <2>2, <2>3, <2>4, <2>5
<1>2. CASE SayariLooks(h)
  <2>1. RowsOK'
    BY <1>2, TypesStand DEF SayariLooks, RowsOK, Call, ChallengeRow, Account, Purpose
  <2>2. ContactStands'
    BY <1>2 DEF SayariLooks, RowsOK, ContactStands, ChallengesStand, CallsStand
  <2>3. ChallengesStand'
    BY <1>2 DEF SayariLooks, RowsOK, ContactStands, ChallengesStand, CallsStand
  <2>4. CallsStand'
    BY <1>2 DEF SayariLooks, RowsOK, ContactStands, ChallengesStand, CallsStand, TokensStand,
       Vouched
  <2>5. TokensStand'
    BY <1>2 DEF SayariLooks, RowsOK, ContactStands, ChallengesStand, CallsStand, TokensStand,
       Vouched
  <2> QED
    BY <2>1, <2>2, <2>3, <2>4, <2>5
<1>3. CASE SayariLinks(h)
  <2>1. RowsOK'
    BY <1>3, TypesStand DEF SayariLinks, RowsOK, Call, ChallengeRow, Account, Purpose
  <2>2. ContactStands'
    BY <1>3 DEF SayariLinks, RowsOK, ContactStands, ChallengesStand, CallsStand
  <2>3. ChallengesStand'
    BY <1>3 DEF SayariLinks, RowsOK, ContactStands, ChallengesStand, CallsStand
  <2>4. CallsStand'
    BY <1>3 DEF SayariLinks, RowsOK, ContactStands, ChallengesStand, CallsStand, TokensStand,
       Vouched
  <2>5. TokensStand'
    BY <1>3 DEF SayariLinks, RowsOK, ContactStands, ChallengesStand, CallsStand, TokensStand,
       Vouched
  <2> QED
    BY <2>1, <2>2, <2>3, <2>4, <2>5
<1>4. CASE SayariEnrols(h)
  <2>1. RowsOK'
    BY <1>4, TypesStand DEF SayariEnrols, RowsOK, Clashes, Call, ChallengeRow, Account,
       Purpose
  <2>2. ContactStands'
    BY <1>4 DEF SayariEnrols, RowsOK, ContactStands, ChallengesStand, CallsStand, Clashes
  <2>3. ChallengesStand'
    BY <1>4 DEF SayariEnrols, RowsOK, ContactStands, ChallengesStand, CallsStand, Clashes
  <2>4. CallsStand'
    BY <1>4 DEF SayariEnrols, RowsOK, ContactStands, ChallengesStand, CallsStand, TokensStand,
       Vouched, Clashes
  <2>5. TokensStand'
    BY <1>4 DEF SayariEnrols, RowsOK, ContactStands, ChallengesStand, CallsStand, TokensStand,
       Vouched, Clashes
  <2> QED
    BY <2>1, <2>2, <2>3, <2>4, <2>5
<1>5. CASE SayariFails(h)
  <2>1. RowsOK'
    BY <1>5, TypesStand DEF SayariFails, RowsOK, Call, ChallengeRow, Account, Purpose
  <2>2. ContactStands'
    BY <1>5 DEF SayariFails, RowsOK, ContactStands, ChallengesStand, CallsStand
  <2>3. ChallengesStand'
    BY <1>5 DEF SayariFails, RowsOK, ContactStands, ChallengesStand, CallsStand
  <2>4. CallsStand'
    BY <1>5 DEF SayariFails, RowsOK, ContactStands, ChallengesStand, CallsStand, TokensStand,
       Vouched
  <2>5. TokensStand'
    BY <1>5 DEF SayariFails, RowsOK, ContactStands, ChallengesStand, CallsStand, TokensStand,
       Vouched
  <2> QED
    BY <2>1, <2>2, <2>3, <2>4, <2>5
<1> QED
  BY <1>1, <1>2, <1>3, <1>4, <1>5

(* Challenges and tokens expire. *)
LEMMA ExpiryStands ==
  ASSUME Standing, ChallengeExpires \/ TokenExpires
  PROVE  Standing'
<1> USE DEF Standing, Registered
<1>1. CASE ChallengeExpires
  <2>1. /\ challenge' \in [Challenge -> ChallengeRow]
        /\ \A c \in Challenge : \/ challenge'[c] = NoChallenge
                                \/ challenge'[c].state # "FREE" => challenge[c].state # "FREE"
        /\ \A c \in Challenge : \/ challenge'[c] = NoChallenge
                                \/ challenge'[c].purpose = challenge[c].purpose
        /\ UNCHANGED <<contact, linked, reset, token, hand>>
    <3>1. PICK c \in Challenge :
            /\ challenge[c].state = "OPEN"
            /\ \/ Consume({c})
               \/ challenge' = [challenge EXCEPT ![c].state = "EXPIRED", ![c].attempts = 0]
      BY <1>1 DEF ChallengeExpires
    <3>2. CASE Consume({c})
      BY <1>1, <3>2, Consumed, TypesStand DEF ChallengeExpires, RowsOK
    <3>3. CASE challenge' = [challenge EXCEPT ![c].state = "EXPIRED", ![c].attempts = 0]
      <4>1. PICK y \in ChallengeRow : y = [challenge[c] EXCEPT !.state = "EXPIRED"]
        <5>1. challenge[c] \in ChallengeRow
          BY DEF RowsOK
        <5> QED
          BY <5>1 DEF ChallengeRow
      <4>2. PICK x \in ChallengeRow : x = [y EXCEPT !.attempts = 0]
        BY DEF ChallengeRow
      <4>3. x.purpose = challenge[c].purpose
        BY <4>1, <4>2 DEF RowsOK, ChallengeRow
      <4>4. challenge' = [challenge EXCEPT ![c] = x]
        BY <3>3, <4>1, <4>2 DEF RowsOK
      <4> QED
        BY <1>1, <3>1, <4>3, <4>4 DEF ChallengeExpires, RowsOK
    <3> QED
      BY <3>1, <3>2, <3>3
  <2>2. RowsOK' /\ ContactStands' /\ CallsStand' /\ TokensStand'
    BY <2>1 DEF RowsOK, ContactStands, CallsStand, TokensStand, Vouched
  <2>3. ChallengesStand'
    BY <2>1 DEF ChallengesStand, NoChallenge
  <2> QED
    BY <2>2, <2>3
<1>2. CASE TokenExpires
  <2>1. RowsOK'
    BY <1>2 DEF TokenExpires, RowsOK
  <2>2. ContactStands' /\ ChallengesStand' /\ CallsStand' /\ TokensStand'
    BY <1>2 DEF TokenExpires, RowsOK, ContactStands, ChallengesStand, CallsStand,
       TokensStand, Vouched
  <2> QED
    BY <2>1, <2>2
<1> QED
  BY <1>1, <1>2

LEMMA StandingStep == Standing /\ [Next]_vars => Standing'
<1> SUFFICES ASSUME Standing, [Next]_vars PROVE Standing'
  OBVIOUS
<1>1. CASE UNCHANGED vars
  BY <1>1 DEF vars, Standing, RowsOK, ContactStands, ChallengesStand, CallsStand, TokensStand,
     Vouched, Registered
<1>2. CASE ChallengeExpires \/ TokenExpires
  BY <1>2, ExpiryStands
<1>3. ASSUME NEW h \in Handler, Begin(h) \/ Continue(h) \/ Lose(h)
      PROVE  Standing'
  BY <1>3, RegistrationStands, CodesStand, SignInStands, GuessesStand, SessionsStand,
     ProviderStands DEF Begin, Continue
<1> QED
  BY <1>1, <1>2, <1>3 DEF Next

(* The rows keep their types, and what calls have read keeps its meaning. *)
THEOREM AlwaysStanding == Spec => []Standing
<1>1. Standing /\ [Next]_vars => Standing'
  BY StandingStep
<1> QED
  BY <1>1, StandingInit, PTL DEF Spec

(* Whoever has a session is verified: no interleaving of registrations, codes,
   sign-ins, resets, refreshes and provider exchanges, any of which may be
   lost between a read and a write, issues a session to anybody else. *)
THEOREM SessionsAreVerified == Spec => []SessionsNeedVerification
<1>1. Standing => SessionsNeedVerification
  BY DEF Standing, TokensStand, Vouched, SessionsNeedVerification
<1> QED
  BY <1>1, AlwaysStanding, PTL

-----------------------------------------------------------------------------
(* The calls that have read a challenge and are about to guess. *)
Guessing(c) == {h \in Handler : hand[h].at = "GUESS" /\ hand[h].row = c}

(* Attempts counted and attempts under way; every call under way has read
   fewer than Limit. *)
AttemptsCounted ==
  \A c \in Challenge :
    challenge[c].attempts + Cardinality(Guessing(c)) <= Limit - 1 + Cardinality(Handler)

CountInv == RowsOK /\ AttemptsCounted

LEMMA GuessingIsFinite ==
  ASSUME NEW c
  PROVE  /\ IsFiniteSet(Guessing(c)) /\ Cardinality(Guessing(c)) \in Nat
         /\ Cardinality(Guessing(c)) <= Cardinality(Handler) /\ Cardinality(Handler) \in Nat
<1>1. Guessing(c) \in SUBSET Handler
  BY DEF Guessing
<1> QED
  BY <1>1, AuthAssumption, FS_Subset, FS_CardinalityType

(* A step that counts no attempt and begins no guess. *)
Calm ==
  /\ \A c \in Challenge : challenge'[c].attempts <= challenge[c].attempts
  /\ \A h \in Handler : hand'[h].at = "GUESS" => hand'[h] = hand[h]

LEMMA CalmCounts ==
  ASSUME CountInv, RowsOK', Calm
  PROVE  AttemptsCounted'
<1> SUFFICES ASSUME NEW c \in Challenge
             PROVE  challenge'[c].attempts + Cardinality(Guessing(c)')
                      <= Limit - 1 + Cardinality(Handler)
  BY DEF AttemptsCounted
<1>1. IsFiniteSet(Guessing(c)) /\ Cardinality(Guessing(c)) \in Nat /\ Cardinality(Handler) \in Nat
  BY GuessingIsFinite
<1>2. Guessing(c)' \in SUBSET Guessing(c)
  BY DEF Guessing, Calm
<1>3. Cardinality(Guessing(c)') \in Nat /\ Cardinality(Guessing(c)') <= Cardinality(Guessing(c))
  BY <1>1, <1>2, FS_Subset, FS_CardinalityType
<1>4. challenge'[c].attempts \in Nat /\ challenge[c].attempts \in Nat
  BY DEF CountInv, RowsOK, ChallengeRow
<1>5. challenge[c].attempts + Cardinality(Guessing(c)) <= Limit - 1 + Cardinality(Handler)
  BY DEF CountInv, AttemptsCounted
<1> QED
  BY <1>1, <1>3, <1>4, <1>5, AuthAssumption DEF Calm

(* A guess begins on a challenge with attempts left. *)
LEMMA GuessReadsCounts ==
  ASSUME CountInv, RowsOK', NEW h \in Handler, NEW d \in Challenge, GuessReads(h, d)
  PROVE  AttemptsCounted'
<1> SUFFICES ASSUME NEW c \in Challenge
             PROVE  challenge'[c].attempts + Cardinality(Guessing(c)')
                      <= Limit - 1 + Cardinality(Handler)
  BY DEF AttemptsCounted
<1>1. challenge' = challenge /\ challenge[d].attempts < Limit
  BY DEF GuessReads, Guessable
<1>2. PICK x \in Call : x.row = d /\ hand' = [hand EXCEPT ![h] = x]
  <2>1. challenge[d] \in ChallengeRow
    BY DEF CountInv, RowsOK
  <2>2. PICK x \in Call : x = [Idle EXCEPT !.at = "GUESS", !.row = d,
                                          !.flag = challenge[d].told,
                                          !.purpose = challenge[d].purpose]
    BY <2>1 DEF Call, ChallengeRow, Account, Idle
  <2>3. x.row = d
    BY <2>2 DEF Idle
  <2> QED
    BY <2>2, <2>3 DEF GuessReads, Goes
<1>3. challenge[c].attempts \in Nat
  BY DEF CountInv, RowsOK, ChallengeRow
<1>4. IsFiniteSet(Guessing(c)) /\ Cardinality(Guessing(c)) \in Nat /\ Cardinality(Handler) \in Nat
  BY GuessingIsFinite
<1>5. CASE c = d
  <2>1. Guessing(c)' \in SUBSET Handler
    BY DEF Guessing
  <2>2. Cardinality(Guessing(c)') \in Nat /\ Cardinality(Guessing(c)') <= Cardinality(Handler)
    BY <2>1, AuthAssumption, FS_Subset, FS_CardinalityType
  <2> QED
    BY <1>1, <1>3, <1>4, <1>5, <2>2, AuthAssumption
<1>6. CASE c # d
  <2>1. Guessing(c)' \in SUBSET Guessing(c)
    BY <1>2, <1>6 DEF Guessing, CountInv, RowsOK
  <2>2. Cardinality(Guessing(c)') \in Nat /\ Cardinality(Guessing(c)') <= Cardinality(Guessing(c))
    BY <1>4, <2>1, FS_Subset, FS_CardinalityType
  <2>3. challenge[c].attempts + Cardinality(Guessing(c)) <= Limit - 1 + Cardinality(Handler)
    BY DEF CountInv, AttemptsCounted
  <2> QED
    BY <1>1, <1>3, <1>4, <2>2, <2>3, AuthAssumption
<1> QED
  BY <1>5, <1>6

(* A wrong guess that is counted is no longer under way. *)
LEMMA GuessWrongCounts ==
  ASSUME CountInv, RowsOK', NEW h \in Handler, GuessWrong(h)
  PROVE  AttemptsCounted'
<1> SUFFICES ASSUME NEW c \in Challenge
             PROVE  challenge'[c].attempts + Cardinality(Guessing(c)')
                      <= Limit - 1 + Cardinality(Handler)
  BY DEF AttemptsCounted
<1>1. challenge[c].attempts \in Nat /\ challenge'[c].attempts \in Nat
  BY DEF CountInv, RowsOK, ChallengeRow
<1>2. IsFiniteSet(Guessing(c)) /\ Cardinality(Guessing(c)) \in Nat /\ Cardinality(Handler) \in Nat
  BY GuessingIsFinite
<1>3. Guessing(c)' = Guessing(c) \ {h}
  BY DEF GuessWrong, Guessing, Ends, Goes, Idle, CountInv, RowsOK
<1>4. challenge[c].attempts + Cardinality(Guessing(c)) <= Limit - 1 + Cardinality(Handler)
  BY DEF CountInv, AttemptsCounted
<1>5. CASE c = hand[h].row
  <2>1. h \in Guessing(c)
    BY <1>5 DEF Guessing, GuessWrong
  <2>2. Cardinality(Guessing(c)') = Cardinality(Guessing(c)) - 1
    BY <1>2, <1>3, <2>1, FS_RemoveElement
  <2>3. challenge'[c].attempts <= challenge[c].attempts + 1
    <3>1. challenge[c] \in ChallengeRow
      BY DEF CountInv, RowsOK
    <3>2. PICK x \in ChallengeRow : x = [challenge[c] EXCEPT !.attempts = @ + 1]
      <4>1. [challenge[c] EXCEPT !.attempts = @ + 1] \in ChallengeRow
        BY DEF CountInv, RowsOK, ChallengeRow
      <4> QED
        BY <4>1
    <3>3. x.attempts = challenge[c].attempts + 1
      BY <3>1, <3>2 DEF ChallengeRow
    <3>4. challenge'[c] \in {challenge[c], x}
      BY <1>5, <3>2 DEF GuessWrong, CountInv, RowsOK
    <3> QED
      BY <1>1, <3>3, <3>4
  <2> QED
    BY <1>1, <1>2, <1>4, <2>2, <2>3, AuthAssumption
<1>6. CASE c # hand[h].row
  <2>1. challenge'[c] = challenge[c]
    BY <1>6 DEF GuessWrong, CountInv, RowsOK
  <2>2. Cardinality(Guessing(c)') \in Nat /\ Cardinality(Guessing(c)') <= Cardinality(Guessing(c))
    BY <1>2, <1>3, FS_Subset, FS_CardinalityType
  <2> QED
    BY <1>1, <1>2, <1>4, <2>1, <2>2, AuthAssumption
<1> QED
  BY <1>5, <1>6

(* Storing and consuming challenges starts their counts again. *)
LEMMA ChallengedCalm ==
  ASSUME RowsOK, NEW c \in Challenge, NEW p \in Purpose, Challenged(c, p)
  PROVE  \A d \in Challenge : challenge'[d].attempts <= challenge[d].attempts
<1>1. PICK x \in ChallengeRow : x.attempts = 0 /\ challenge' = [challenge EXCEPT ![c] = x]
  BY ChallengedRow
<1>2. \A d \in Challenge : challenge[d].attempts \in Nat
  BY DEF RowsOK, ChallengeRow
<1> QED
  BY <1>1, <1>2 DEF RowsOK

LEMMA ConsumedCalm ==
  ASSUME RowsOK, NEW S, Consume(S)
  PROVE  \A d \in Challenge : challenge'[d].attempts <= challenge[d].attempts
<1>1. \A d \in Challenge : challenge[d].attempts \in Nat
  BY DEF RowsOK, ChallengeRow
<1> QED
  BY <1>1, Consumed DEF NoChallenge

(* All other steps of a call count no attempt and begin no guess. *)
LEMMA CallsAreCalm ==
  ASSUME RowsOK, NEW h \in Handler,
         RegisterReads(h) \/ RegisterCreates(h) \/ RegisterFails(h) \/ Tells(h) \/
            TellFails(h) \/ Renews(h) \/ Codes(h) \/ Login(h) \/ Issues(h) \/ Resend(h) \/
            RequestReset(h) \/ GuessVerifies(h) \/ GuessResets(h) \/ CompleteReads(h) \/
            CompleteWrites(h) \/ RefreshReads(h) \/ RefreshRevokes(h) \/ Logout(h) \/
            SayariReads(h) \/ SayariLooks(h) \/ SayariLinks(h) \/ SayariEnrols(h) \/
            SayariFails(h) \/ Lose(h)
  PROVE  Calm
<1> USE DEF Calm, RowsOK, ChallengeRow, Call, Idle, Goes, Ends
<1>1. CASE RegisterReads(h)
  BY <1>1 DEF RegisterReads
<1>2. CASE RegisterCreates(h)
  <2>1. PICK c \in Challenge : /\ Challenged(c, "ACCOUNT_VERIFICATION")
                              /\ hand' = [hand EXCEPT ![h] =
                                   [Idle EXCEPT !.at = "TELL", !.row = c]]
    BY <1>2 DEF RegisterCreates
  <2>2. \A d \in Challenge : challenge'[d].attempts <= challenge[d].attempts
    BY <2>1, ChallengedCalm DEF Purpose
  <2>3. PICK y \in Call : y = [Idle EXCEPT !.at = "TELL", !.row = c] /\ y.at = "TELL"
    BY Telling
  <2> QED
    BY <2>1, <2>2, <2>3
<1>3. CASE RegisterFails(h)
  BY <1>3 DEF RegisterFails
<1>4. CASE Tells(h)
  BY <1>4 DEF Tells
<1>5. CASE TellFails(h)
  BY <1>5 DEF TellFails
<1>6. CASE Renews(h)
  BY <1>6, ConsumedCalm DEF Renews
<1>7. CASE Codes(h)
  <2>1. PICK c \in Challenge : /\ Challenged(c, hand[h].purpose)
                              /\ hand' = [hand EXCEPT ![h] =
                                   [Idle EXCEPT !.at = "TELL", !.row = c]]
    BY <1>7 DEF Codes
  <2>2. \A d \in Challenge : challenge'[d].attempts <= challenge[d].attempts
    <3>1. hand[h].purpose \in Purpose
      OBVIOUS
    <3> QED
      BY <2>1, <3>1, ChallengedCalm
  <2>3. PICK y \in Call : y = [Idle EXCEPT !.at = "TELL", !.row = c] /\ y.at = "TELL"
    BY Telling
  <2> QED
    BY <2>1, <2>2, <2>3
<1>8. CASE Login(h)
  BY <1>8 DEF Login
<1>9. CASE Issues(h)
  BY <1>9 DEF Issues
<1>10. CASE Resend(h)
  BY <1>10 DEF Resend
<1>11. CASE RequestReset(h)
  BY <1>11 DEF RequestReset
<1>12. CASE GuessVerifies(h)
  BY <1>12, ConsumedCalm DEF GuessVerifies
<1>13. CASE GuessResets(h)
  BY <1>13, ConsumedCalm DEF GuessResets
<1>14. CASE CompleteReads(h)
  <2>1. PICK r \in ResetToken :
          hand' = [hand EXCEPT ![h] =
            [Idle EXCEPT !.at = "SPEND", !.row = r, !.account = reset[r]]]
    BY <1>14 DEF CompleteReads
  <2>2. reset[r] \in Account \cup {"FREE"}
    OBVIOUS
  <2>3. PICK x \in Call : x = [Idle EXCEPT !.at = "SPEND", !.row = r, !.account = reset[r]]
    BY <2>2 DEF Purpose
  <2>4. x.at = "SPEND"
    BY <2>3
  <2>5. challenge' = challenge /\ hand' = [hand EXCEPT ![h] = x]
    BY <1>14, <2>1, <2>3 DEF CompleteReads
  <2> QED
    BY <2>4, <2>5
<1>15. CASE CompleteWrites(h)
  BY <1>15 DEF CompleteWrites
<1>16. CASE RefreshReads(h)
  <2>1. PICK t \in Token :
          hand' = [hand EXCEPT ![h] =
            [Idle EXCEPT !.at = "REVOKE", !.row = t, !.account = token[t]]]
    BY <1>16 DEF RefreshReads
  <2>2. token[t] \in Account \cup {"FREE"}
    OBVIOUS
  <2>3. PICK x \in Call : x = [Idle EXCEPT !.at = "REVOKE", !.row = t, !.account = token[t]]
    BY <2>2 DEF Purpose
  <2>4. x.at = "REVOKE"
    BY <2>3
  <2>5. challenge' = challenge /\ hand' = [hand EXCEPT ![h] = x]
    BY <1>16, <2>1, <2>3 DEF RefreshReads
  <2> QED
    BY <2>4, <2>5
<1>17. CASE RefreshRevokes(h)
  BY <1>17 DEF RefreshRevokes
<1>18. CASE Logout(h)
  BY <1>18 DEF Logout
<1>19. CASE SayariReads(h)
  BY <1>19 DEF SayariReads
<1>20. CASE SayariLooks(h)
  BY <1>20 DEF SayariLooks
<1>21. CASE SayariLinks(h)
  BY <1>21 DEF SayariLinks
<1>22. CASE SayariEnrols(h)
  BY <1>22 DEF SayariEnrols
<1>23. CASE SayariFails(h)
  BY <1>23 DEF SayariFails
<1>24. CASE Lose(h)
  BY <1>24 DEF Lose
<1> QED
  BY <1>1, <1>2, <1>3, <1>4, <1>5, <1>6, <1>7, <1>8, <1>9, <1>10, <1>11, <1>12, <1>13, <1>14,
     <1>15, <1>16, <1>17, <1>18, <1>19, <1>20, <1>21, <1>22, <1>23, <1>24

LEMMA ExpiryIsCalm ==
  ASSUME RowsOK, ChallengeExpires \/ TokenExpires
  PROVE  Calm
<1>1. \A d \in Challenge : challenge[d] \in ChallengeRow /\ challenge[d].attempts \in Nat
  BY DEF RowsOK, ChallengeRow
<1>2. CASE ChallengeExpires
  <2>1. PICK c \in Challenge :
          \/ Consume({c})
          \/ challenge' = [challenge EXCEPT ![c].state = "EXPIRED", ![c].attempts = 0]
    BY <1>2 DEF ChallengeExpires
  <2>2. CASE Consume({c})
    BY <1>2, <2>2, ConsumedCalm DEF ChallengeExpires, Calm
  <2>3. CASE challenge' = [challenge EXCEPT ![c].state = "EXPIRED", ![c].attempts = 0]
    <3>1. \A d \in Challenge : challenge'[d].attempts \in {0, challenge[d].attempts}
      BY <1>1, <2>3 DEF RowsOK, ChallengeRow
    <3> QED
      BY <1>1, <1>2, <3>1 DEF ChallengeExpires, Calm
  <2> QED
    BY <2>1, <2>2, <2>3
<1>3. CASE TokenExpires
  BY <1>1, <1>3 DEF TokenExpires, Calm
<1> QED
  BY <1>2, <1>3

LEMMA CountInit == Init => CountInv
<1> SUFFICES ASSUME Init PROVE AttemptsCounted
  BY StandingInit DEF CountInv, Standing
<1>1. \A c \in Challenge : challenge[c].attempts = 0 /\ Guessing(c) = {}
  BY DEF Init, Guessing, NoChallenge, Idle
<1> QED
  BY <1>1, GuessingIsFinite, AuthAssumption DEF AttemptsCounted

LEMMA CountStep == Standing /\ CountInv /\ [Next]_vars => AttemptsCounted'
<1> SUFFICES ASSUME Standing, CountInv, [Next]_vars PROVE AttemptsCounted'
  OBVIOUS
<1>1. RowsOK /\ RowsOK'
  BY StandingStep DEF Standing
<1>2. CASE UNCHANGED vars
  BY <1>2 DEF vars, CountInv, AttemptsCounted, Guessing
<1>3. CASE ChallengeExpires \/ TokenExpires
  BY <1>1, <1>3, ExpiryIsCalm, CalmCounts
<1>4. ASSUME NEW h \in Handler, Begin(h) \/ Continue(h) \/ Lose(h)
      PROVE  AttemptsCounted'
  <2>1. CASE \E d \in Challenge : GuessReads(h, d)
    BY <1>1, <2>1, GuessReadsCounts
  <2>2. CASE GuessWrong(h)
    BY <1>1, <2>2, GuessWrongCounts
  <2>3. CASE ~(\E d \in Challenge : GuessReads(h, d)) /\ ~GuessWrong(h)
    BY <1>1, <1>4, <2>3, CallsAreCalm, CalmCounts DEF Begin, Continue
  <2> QED
    BY <2>1, <2>2, <2>3
<1> QED
  BY <1>2, <1>3, <1>4 DEF Next

(* The attempts of one code are bounded for any number of calls: Limit wrong
   guesses, and one more for each other call that had read the same count. *)
THEOREM AttemptsAreBounded == Spec => []AttemptsBounded
<1>1. CountInv => AttemptsBounded
  <2> SUFFICES ASSUME CountInv, NEW c \in Challenge
               PROVE  challenge[c].attempts <= Limit - 1 + Cardinality(Handler)
    BY DEF AttemptsBounded
  <2>1. challenge[c].attempts \in Nat
    BY DEF CountInv, RowsOK, ChallengeRow
  <2> QED
    BY <2>1, GuessingIsFinite, AuthAssumption DEF CountInv, AttemptsCounted
<1>2. Standing /\ CountInv /\ [Next]_vars => CountInv'
  BY StandingStep, CountStep DEF CountInv, Standing
<1>3. Standing /\ [Next]_vars => Standing'
  BY StandingStep
<1> QED
  BY <1>1, <1>2, <1>3, StandingInit, CountInit, PTL DEF Spec

=============================================================================
