------------------------------- MODULE SignIn -------------------------------
(***************************************************************************)
(* Sign-in as createBetterAuth configures it: phone/OTP with sign-up on    *)
(* verification, the database hooks that encrypt and index the PII of      *)
(* every user written, the unique blind indexes, and the session cookie    *)
(* with its cache; then POST /auth/check-registration.                     *)
(*                                                                         *)
(* better-auth itself is external. It finds a user by phone_number and     *)
(* creates one if there is none, in separate queries;                      *)
(* BetterAuthController.handleAuth passes its answer on.                   *)
(***************************************************************************)
EXTENDS Integers, FiniteSets

CONSTANTS Flows,        \* sign-ins, one device each
          Phones,
          NewEmails,    \* addresses a user may change to
          Null,
          CookieCache,  \* cookieCache.maxAge
          MaxUsers, MaxSignTime  \* bounds

\* Addresses: getTempEmail's, which is made of a phone, and those changed to.
Emails == NewEmails \cup Phones \X {"placeholder"}

ASSUME SignAssumption ==
  /\ CookieCache \in Nat \ {0}
  /\ Null \notin Phones \cup Emails
  /\ \A v \in Phones \cup Emails : Null \notin {<<"aes", v>>, <<"hmac", v>>}

VARIABLES users,   \* rows: [id, phoneNumber, phone, phoneHash, email, emailHash]
          flow,    \* flow -> [stage, by, user]
          otp,     \* phones with a valid code
          device,  \* flow -> [cachedUntil, live, revokedAt, servedAt]
          signClock,
          check    \* check-registration: how far it is, or its answer

signVars == <<users, flow, otp, device, signClock, check>>

NoDevice == [cachedUntil |-> 0, live |-> FALSE, revokedAt |-> 0, servedAt |-> 0]

SignInit ==
  /\ users = {} /\ otp = {}
  /\ flow = [f \in Flows |-> [stage |-> "idle", by |-> Null, user |-> 0]]
  /\ device = [f \in Flows |-> NoDevice]
  /\ signClock = 0
  /\ check = "unasked"

-----------------------------------------------------------------------------
\* PiiEncryptionService: a ciphertext is decryptable and never repeats, a blind
\* index is a function of the plaintext. Both are null for a missing value.
EncryptIfNeeded(value) == IF value = Null THEN Null ELSE <<"aes", value>>
HashIfNeeded(value) == IF value = Null THEN Null ELSE <<"hmac", value>>
DecryptIfNeeded(cipher) == IF cipher = Null THEN Null ELSE cipher[2]

\* The plugin puts the phone in phoneNumber.
ReadPhone(user) == user.phoneNumber

\* databaseHooks.user.create.before
CreateBefore(id, user) ==
  [id |-> id, phoneNumber |-> user.phoneNumber,
   phone |-> EncryptIfNeeded(ReadPhone(user)), phoneHash |-> HashIfNeeded(ReadPhone(user)),
   email |-> EncryptIfNeeded(user.email), emailHash |-> HashIfNeeded(user.email)]

\* databaseHooks.user.update.before: a field that is not in the update (Null here)
\* keeps its column, its ciphertext and its index.
UpdateBefore(row, user) ==
  [row EXCEPT !.phoneNumber = IF user.phoneNumber = Null THEN @ ELSE user.phoneNumber,
              !.phone = IF user.phoneNumber = Null THEN @ ELSE EncryptIfNeeded(ReadPhone(user)),
              !.phoneHash = IF user.phoneNumber = Null THEN @ ELSE HashIfNeeded(ReadPhone(user)),
              !.email = IF user.email = Null THEN @ ELSE EncryptIfNeeded(user.email),
              !.emailHash = IF user.email = Null THEN @ ELSE HashIfNeeded(user.email)]

\* idx_users_phone_hash and idx_users_email_hash; nulls do not collide.
Collides(row) ==
  \E u \in users : u.id # row.id /\ ((row.phoneHash # Null /\ u.phoneHash = row.phoneHash)
                                     \/ (row.emailHash # Null /\ u.emailHash = row.emailHash))

-----------------------------------------------------------------------------
\* POST /phone-number/send-otp. sendOTP swallows a failed delivery: the caller
\* hears "sent" with no code on the way; flow.by then stays Null.
SendOtp(f) ==
  /\ flow[f].stage = "idle"
  /\ \E p \in Phones, delivered \in BOOLEAN :
       /\ otp' = otp \cup {p}
       /\ flow' = [flow EXCEPT ![f] = [stage |-> "sent", by |-> IF delivered THEN p ELSE Null, user |-> 0]]
  /\ UNCHANGED <<users, device, signClock, check>>

\* The code expires (expiresIn), or too many wrong ones were tried.
OtpExpires ==
  /\ \E p \in otp : otp' = otp \ {p}
  /\ UNCHANGED <<users, flow, device, signClock, check>>

\* POST /phone-number/verify reads the row; it is deleted only in the next query,
\* so a second verify may pass with the same code.
VerifyOtp(f) ==
  /\ flow[f].stage = "sent"
  /\ flow' = [flow EXCEPT ![f].stage = IF flow[f].by \in otp THEN "proved" ELSE "idle"]
  /\ UNCHANGED <<users, otp, device, signClock, check>>

Owners(phone) == {u.id : u \in {w \in users : w.phoneNumber = phone}}

\* Is there a user? The code is used up here.
FindUser(f) ==
  /\ flow[f].stage = "proved"
  /\ otp' = otp \ {flow[f].by}
  /\ flow' = [flow EXCEPT ![f] =
       IF Owners(@.by) = {} THEN [@ EXCEPT !.stage = "new"]
       ELSE [@ EXCEPT !.stage = "known", !.user = CHOOSE i \in Owners(flow[f].by) : TRUE]]
  /\ UNCHANGED <<users, device, signClock, check>>

\* signUpOnVerification. getTempEmail makes an address no other phone has; a
\* collision on a blind index fails the INSERT, and with it the sign-in.
CreateUser(f) ==
  LET by == flow[f].by
      id == Cardinality(users) + 1
      row == CreateBefore(id, [phoneNumber |-> by, email |-> <<by, "placeholder">>])
  IN /\ flow[f].stage = "new" /\ Cardinality(users) < MaxUsers
     /\ IF Collides(row)
        THEN flow' = [flow EXCEPT ![f].stage = "idle"] /\ UNCHANGED users
        ELSE /\ users' = users \cup {row}
             /\ flow' = [flow EXCEPT ![f].stage = "known", ![f].user = id]
     /\ UNCHANGED <<otp, device, signClock, check>>

\* The session row and its cookie.
OpenSession(f) ==
  /\ flow[f].stage = "known"
  /\ flow' = [flow EXCEPT ![f].stage = "in"]
  /\ device' = [device EXCEPT ![f] = [cachedUntil |-> signClock + CookieCache, live |-> TRUE,
                                      revokedAt |-> 0, servedAt |-> signClock]]
  /\ UNCHANGED <<users, otp, signClock, check>>

\* A signed-in user changes the e-mail address, or the phone (OTP proved), or
\* something without PII.
UpdateUser(f) ==
  /\ flow[f].stage = "in" /\ device[f].live
  /\ \E row \in users, phone \in Phones \cup {Null}, email \in NewEmails \cup {Null} :
       /\ row.id = flow[f].user
       /\ LET new == UpdateBefore(row, [phoneNumber |-> phone, email |-> email])
          IN users' = IF Collides(new) THEN users ELSE (users \ {row}) \cup {new}
  /\ UNCHANGED <<flow, otp, device, signClock, check>>

-----------------------------------------------------------------------------
\* Sign-out on another device, or revocation by an administrator: the row goes,
\* the cookie of this device does not.
Revoke(f) ==
  /\ flow[f].stage = "in" /\ device[f].live
  /\ device' = [device EXCEPT ![f].live = FALSE, ![f].revokedAt = signClock]
  /\ UNCHANGED <<users, flow, otp, signClock, check>>

\* Mutant: serving from the cached cookie renews it.
GetSessionSliding(f) ==
  /\ flow[f].stage = "in"
  /\ device' = [device EXCEPT ![f] =
       IF signClock < @.cachedUntil \/ @.live
       THEN [@ EXCEPT !.servedAt = signClock, !.cachedUntil = signClock + CookieCache] ELSE @]
  /\ UNCHANGED <<users, flow, otp, signClock, check>>

\* auth.api.getSession of the guards: the signed cookie alone within its maxAge,
\* then the row, which renews the cookie.
GetSession(f) ==
  /\ flow[f].stage = "in"
  /\ device' = [device EXCEPT ![f] =
       IF signClock < @.cachedUntil THEN [@ EXCEPT !.servedAt = signClock]
       ELSE IF @.live THEN [@ EXCEPT !.servedAt = signClock, !.cachedUntil = signClock + CookieCache]
       ELSE @]
  /\ UNCHANGED <<users, flow, otp, signClock, check>>

SignTick ==
  /\ signClock < MaxSignTime /\ signClock' = signClock + 1
  /\ UNCHANGED <<users, flow, otp, device, check>>

-----------------------------------------------------------------------------
\* checkRegistration reads the phone; without one the user is not registered.
CheckRegistration(f) ==
  /\ flow[f].stage = "in" /\ check = "unasked"
  /\ \E row \in users : row.id = flow[f].user
       /\ check' = IF row.phoneNumber = Null THEN "not registered" ELSE "asked"
  /\ UNCHANGED <<users, flow, otp, device, signClock>>

\* resolveFromCustomerService denies several matches.
Registered(matches) == matches = 1

\* An error and a timeout are "not registered", too.
Resolved ==
  /\ check = "asked"
  /\ \E matches \in 0..2, failed \in BOOLEAN :
       check' = IF ~failed /\ Registered(matches) THEN "registered" ELSE "not registered"
  /\ UNCHANGED <<users, flow, otp, device, signClock>>

SignNext ==
  \/ \E f \in Flows : \/ SendOtp(f) \/ VerifyOtp(f) \/ FindUser(f)
                      \/ CreateUser(f) \/ OpenSession(f) \/ UpdateUser(f)
                      \/ Revoke(f) \/ GetSession(f) \/ CheckRegistration(f)
  \/ OtpExpires \/ SignTick \/ Resolved

SignSpec == SignInit /\ [][SignNext]_signVars

-----------------------------------------------------------------------------
\* Two verifications of one phone at once, or a phone changed to one in use, never
\* leave two users with it: better-auth's look-up and INSERT race, the blind index
\* decides.
OneUserPerPhone == \A u, w \in users : u.phoneNumber = w.phoneNumber => u = w

\* What a row's indexes find is what its ciphertexts decrypt to, after every
\* create and every partial update, and the plugin's own column agrees.
IndexFindsRow ==
  \A u \in users :
    /\ u.phoneHash = HashIfNeeded(DecryptIfNeeded(u.phone))
    /\ u.emailHash = HashIfNeeded(DecryptIfNeeded(u.email))
    /\ DecryptIfNeeded(u.phone) = u.phoneNumber

\* A revoked session is served at most until its cookie cache runs out.
RevokedSoonRefused ==
  \A f \in Flows : flow[f].stage = "in" /\ ~device[f].live =>
                     device[f].servedAt < device[f].revokedAt + CookieCache

\* A phone leads to one user, by index and by ciphertext alike, and a sign-out
\* reaches every device within the cookie cache's time.
SignInSafe == OneUserPerPhone /\ IndexFindsRow /\ RevokedSoonRefused
=============================================================================
