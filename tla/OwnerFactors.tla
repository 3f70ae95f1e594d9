---------------------------- MODULE OwnerFactors ----------------------------
(***************************************************************************)
(* The evidence behind the pairing chain: where the owner's credentials    *)
(* come from (--setup-owner, the environment file, NewOwner) and how the   *)
(* three verifiers of daemon/internal/identity judge what a request        *)
(* presents.  What the chain makes of a verdict is the module Pairing.     *)
(*                                                                         *)
(* Every pairing handler does its work under Owner.mu, which it unlocks    *)
(* with a plain statement and not with a deferred one.  A verifier that    *)
(* panics ends the goroutine inside the critical section; net/http         *)
(* recovers the panic and the daemon goes on with the mutex locked.        *)
(*                                                                         *)
(* A hash is the record of what decodeArgon2id reads from it, with the     *)
(* password it was made of in place of salt and key.  Its parallelism is   *)
(* an int in the text and a uint8 in the call.  A TOTP code is CodeAt of a *)
(* secret and a time step; two steps may have the same digits.             *)
(***************************************************************************)
EXTENDS Integers

CONSTANTS
    Requests,      \* requests to /owner/pair/*, each sent at most once
    Padded,        \* those that send a code with white space around it
    None,
    Passwords,     \* passwords that are typed, the empty one aside
    PastedHashes,  \* hashes an operator may put into the file by hand
    Secrets,       \* TOTP secrets, numbered from 1 as they are generated
    CodeAt,        \* Secrets -> time steps -> digits
    Domains,       \* values of --public-domain: "", "host", "ip", "url"
    MaxStep        \* time steps that are explored

ASSUME RequestsAssumption == None \notin Requests
ASSUME StepsAssumption == MaxStep \in Nat
ASSUME SecretsAssumption == Secrets \subseteq Nat \ {None}
ASSUME DomainsAssumption == Domains \subseteq {"", "host", "ip", "url"}

VARIABLES
    env,           \* the operator's file: hash and secret
    conf,          \* what the running daemon was started with
    filed,         \* history: the passwords whose hashes were in the file
    phone,         \* the secret in the owner's authenticator
    step,          \* time in periods of the TOTP
    lastAccepted,  \* TOTPVerifier.lastAccepted
    mu,            \* the request that holds Owner.mu, or None
    phase,         \* Requests -> where its handler is, or its answer
    kind,          \* Requests -> route
    evidence,      \* Requests -> password or code
    read,          \* history: Requests -> the step its code was read for
    arrived        \* history: Requests -> when its code came in

requestVars == <<phase, kind, evidence, read, arrived>>
vars == <<env, conf, filed, phone, step, lastAccepted, mu, requestVars>>

Argon2Version == 19

\* The routes that look up an attempt.  /owner/pair/complete judges nothing
\* here, its "200" is any answer other than 404; /owner/pair/start is like it.
Kinds == {"password", "totp", "passkey", "complete"}

Answered == {"200", "401", "404", "aborted", "lost"}

\* Codes are shown by phones that are a period early or late.
Steps == -1 .. MaxStep + 1
Digits == {CodeAt[k][s] : k \in Secrets, s \in Steps}
Codes == [digits : Digits, padded : BOOLEAN]

\* HashPassword: the parameters travel with the hash.
HashPassword(pw) ==
    [wellFormed |-> TRUE, version |-> Argon2Version, t |-> 2, p |-> 1, of |-> pw]

Hashes == {HashPassword(pw) : pw \in Passwords} \cup PastedHashes

ASSUME HashesAssumption == None \notin Hashes

\* validatePublicDomain: nothing or a bare host name.
ValidPublicDomain(domain) == domain \in {"", "host"}

TypeOK ==
    /\ env \in [hash : Hashes \cup {None}, secret : Secrets \cup {None}]
    /\ conf \in [hash : Hashes \cup {None}, secret : Secrets \cup {None},
                 domain : Domains]
    /\ filed \in SUBSET Passwords
    /\ phone \in Secrets \cup {None}
    /\ step \in 0 .. MaxStep
    /\ lastAccepted \in Codes \cup {None}
    /\ mu \in Requests \cup {None}
    /\ phase \in [Requests -> {"new", "waiting", "inside"} \cup Answered]
    /\ kind \in [Requests -> Kinds]
    /\ evidence \in [Requests -> Passwords \cup Codes \cup {None}]
    /\ read \in [Requests -> Steps]
    /\ arrived \in [Requests -> 0 .. MaxStep]

\* A fresh installation: no credentials, the daemon fails closed.
Init ==
    /\ env = [hash |-> None, secret |-> None]
    /\ \E d \in Domains : /\ ValidPublicDomain(d)
                          /\ conf = [hash |-> None, secret |-> None, domain |-> d]
    /\ filed = {}
    /\ phone = None
    /\ step = 0
    /\ lastAccepted = None
    /\ mu = None
    /\ phase = [r \in Requests |-> "new"]
    /\ kind = [r \in Requests |-> "complete"]
    /\ evidence = [r \in Requests |-> None]
    /\ read = [r \in Requests |-> 0]
    /\ arrived = [r \in Requests |-> 0]

-----------------------------------------------------------------------------
(***************************************************************************)
(* The verifiers.  Each yields "ok", "fail" or "panic".                    *)
(***************************************************************************)

\* decodeArgon2id: six fields, the tag, the version, numbers, base64, and
\* neither salt nor key empty.  The parameters are not judged.
Decodes(hash) == hash.wellFormed /\ hash.version = Argon2Version

\* uint8(parallelism).
Parallelism(hash) == hash.p % 2^8

\* argon2.IDKey panics without a round or without a thread.
IDKeyPanics(hash) == hash.t < 1 \/ Parallelism(hash) < 1

\* Mutant: a hash that cannot be read is taken for a new installation.
ComparePasswordOpen(pw, hash) ==
    IF ~Decodes(hash) THEN "ok"
    ELSE IF IDKeyPanics(hash) THEN "panic"
    ELSE IF hash.of = pw THEN "ok" ELSE "fail"

ComparePassword(pw, hash) ==
    IF ~Decodes(hash) THEN "fail"
    ELSE IF IDKeyPanics(hash) THEN "panic"
    ELSE IF hash.of = pw THEN "ok" ELSE "fail"

\* Mutant: no skew.
TotpWindowExact(now) == {now}

\* totp.ValidateCustom with Skew 1: the steps whose codes validate.
TotpWindow(now) == {now - 1, now, now + 1}

\* TOTPVerifier.Verify: the code as it was sent is compared with the last one,
\* and ValidateCustom trims it.
VerifyTOTP(code, secret) ==
    IF /\ code # lastAccepted
       /\ code.digits \in {CodeAt[secret][s] : s \in TotpWindow(step)}
    THEN "ok" ELSE "fail"

\* WebAuthnVerifier.Configured: a relying party was named at start-up.
Configured == conf.domain # ""

\* Nothing in the daemon calls BindSession.
SessionBound == FALSE

\* WebAuthnVerifier.Verify; a bound assertion would be judged by the library.
VerifyPasskey == IF Configured /\ SessionBound THEN "ok" ELSE "fail"

\* Owner.verifiers and NewAttempt: a factor that is not configured gets
\* notImplemented, never a nil verifier.
Verdict(r) ==
    CASE kind[r] = "password" -> IF conf.hash = None THEN "fail"
                                 ELSE ComparePassword(evidence[r], conf.hash)
      [] kind[r] = "totp" -> IF conf.secret = None THEN "fail"
                             ELSE VerifyTOTP(evidence[r], conf.secret)
      [] kind[r] = "passkey" -> VerifyPasskey
      [] OTHER -> "ok"

-----------------------------------------------------------------------------
(***************************************************************************)
(* The handlers, up to and from Owner.mu.                                  *)
(***************************************************************************)

\* A request with a password, or with the digits of some step of a secret.
Arrive(r, k) ==
    /\ phase[r] = "new"
    /\ phase' = [phase EXCEPT ![r] = "waiting"]
    /\ kind' = [kind EXCEPT ![r] = k]
    /\ \/ /\ k = "password"
          /\ \E pw \in Passwords : evidence' = [evidence EXCEPT ![r] = pw]
          /\ UNCHANGED <<read, arrived>>
       \/ /\ k = "totp"
          /\ phone # None
          /\ \E s \in {t \in Steps : step - 2 <= t /\ t <= step + 1} :
                /\ evidence' = [evidence EXCEPT ![r] =
                                   [digits |-> CodeAt[phone][s], padded |-> r \in Padded]]
                /\ read' = [read EXCEPT ![r] = s]
          /\ arrived' = [arrived EXCEPT ![r] = step]
       \/ /\ k \notin {"password", "totp"}
          /\ UNCHANGED <<evidence, read, arrived>>
    /\ UNCHANGED <<env, conf, filed, phone, step, lastAccepted, mu>>

\* o.mu.Lock().
Enter(r) ==
    /\ phase[r] = "waiting"
    /\ mu = None
    /\ mu' = r
    /\ phase' = [phase EXCEPT ![r] = "inside"]
    /\ UNCHANGED <<env, conf, filed, phone, step, lastAccepted, kind, evidence, read,
                   arrived>>

\* Leaving the critical section with an answer.
Leave(r, answer) ==
    /\ phase[r] = "inside"
    /\ mu' = None
    /\ phase' = [phase EXCEPT ![r] = answer]
    /\ UNCHANGED <<env, conf, filed, phone, step, kind, evidence, read, arrived>>

\* Mutant: the answer of an unknown attempt is written before the Unlock.
UnknownAttemptLocked(r) ==
    /\ phase[r] = "inside"
    /\ phase' = [phase EXCEPT ![r] = "404"]
    /\ UNCHANGED <<env, conf, filed, phone, step, lastAccepted, mu, kind, evidence,
                   read, arrived>>

\* The pairing id is unknown, swept or used up.
UnknownAttempt(r) ==
    /\ Leave(r, "404")
    /\ UNCHANGED lastAccepted

\* The verifier accepts; TOTPVerifier remembers the code.
Accept(r) ==
    /\ Verdict(r) = "ok"
    /\ Leave(r, "200")
    /\ lastAccepted' = IF kind[r] = "totp" THEN evidence[r] ELSE lastAccepted

Refuse(r) ==
    /\ Verdict(r) = "fail"
    /\ Leave(r, "401")
    /\ UNCHANGED lastAccepted

\* The verifier panics: the connection is dropped and Unlock is not reached.
Panic(r) ==
    /\ phase[r] = "inside"
    /\ Verdict(r) = "panic"
    /\ phase' = [phase EXCEPT ![r] = "aborted"]
    /\ UNCHANGED <<env, conf, filed, phone, step, lastAccepted, mu, kind, evidence,
                   read, arrived>>

HandlerStep(r) ==
    Enter(r) \/ UnknownAttempt(r) \/ Accept(r) \/ Refuse(r) \/ Panic(r)

-----------------------------------------------------------------------------
(***************************************************************************)
(* The operator, the clock and systemd.                                    *)
(***************************************************************************)

\* --setup-owner: the hash of the typed line without its end, and a new
\* secret, which the owner puts into the file and the authenticator.  An empty
\* password is refused.
SetupOwner(pw) ==
    LET next == IF env.secret = None THEN 1 ELSE env.secret + 1 IN
    /\ next \in Secrets
    /\ env' = [hash |-> HashPassword(pw), secret |-> next]
    /\ filed' = filed \cup {pw}
    /\ phone' = next
    /\ UNCHANGED <<conf, step, lastAccepted, mu, requestVars>>

\* The operator puts another hash into the file.
PasteHash(hash) ==
    /\ env' = [env EXCEPT !.hash = hash]
    /\ filed' = IF Decodes(hash) THEN filed \cup {hash.of} ELSE filed
    /\ UNCHANGED <<conf, phone, step, lastAccepted, mu, requestVars>>

Tick ==
    /\ step < MaxStep
    /\ step' = step + 1
    /\ UNCHANGED <<env, conf, filed, phone, lastAccepted, mu, requestVars>>

\* NewOwner from the flags; the memory of codes, the mutex and the requests
\* under way are gone.
DaemonRestart ==
    /\ conf' = [conf EXCEPT !.hash = env.hash, !.secret = env.secret]
    /\ lastAccepted' = None
    /\ mu' = None
    /\ phase' = [r \in Requests |->
          IF phase[r] \in {"waiting", "inside"} THEN "lost" ELSE phase[r]]
    /\ UNCHANGED <<env, filed, phone, step, kind, evidence, read, arrived>>

Next ==
    \/ \E r \in Requests :
          \/ \E k \in Kinds : Arrive(r, k)
          \/ HandlerStep(r)
    \/ \E pw \in Passwords : SetupOwner(pw)
    \/ \E hash \in PastedHashes : PasteHash(hash)
    \/ Tick
    \/ DaemonRestart

\* The scheduler runs the handlers, and a mutex that is free is given to one
\* that waits for it.  Nobody has to restart the daemon.
Spec ==
    /\ Init
    /\ [][Next]_vars
    /\ \A r \in Requests : WF_vars(HandlerStep(r))

-----------------------------------------------------------------------------
(***************************************************************************)
(* Properties.                                                             *)
(***************************************************************************)

\* Pairing fails closed across set-up, pasted hashes and restarts: a password
\* that is accepted was hashed into the file by somebody, a code that is
\* accepted belongs to a configured secret and to a step next to the time the
\* request was under way, and no passkey is accepted (owner.go, OwnerConfig:
\* a zero-valued factor field leaves that factor unsatisfiable).
AcceptedMeansProved ==
    \A r \in Requests : phase[r] = "200" =>
        /\ kind[r] = "password" => evidence[r] \in filed
        /\ kind[r] = "totp" =>
              \E k \in Secrets, s \in arrived[r] - 1 .. step + 1 :
                  env.secret # None /\ k <= env.secret /\ evidence[r].digits = CodeAt[k][s]
        /\ kind[r] # "passkey"

\* The request shows what the running daemon was configured for: the password
\* of the set-up, or a code of the right secret, read from a phone that is one
\* period off and judged at once, or from one in time and judged a period
\* later, and other than the last one accepted.  Earlier ones are not
\* remembered, nor is the last one over a restart or with other white space.
Honest(r) ==
    \/ /\ kind[r] = "password"
       /\ conf.hash = HashPassword(evidence[r])
    \/ /\ kind[r] = "totp"
       /\ conf.secret # None
       /\ evidence[r].digits = CodeAt[conf.secret][read[r]]
       /\ evidence[r] # lastAccepted
       /\ \/ read[r] = arrived[r] /\ step <= arrived[r] + 1
          \/ read[r] \in arrived[r] - 1 .. arrived[r] + 1 /\ step = arrived[r]

\* The owner gets in: a request with honest evidence is never answered by
\* "invalid credentials", however long it waited for the mutex within that
\* period (totp.go, totpSkew: tolerates a clock that has drifted a little).
HonestEvidenceIsAccepted ==
    [][\A r \in Requests :
         phase[r] = "inside" /\ phase'[r] = "401" => ~Honest(r)]_vars

\* Nobody waits for Owner.mu for ever, unless a verifier has panicked: every
\* other way out of the critical section unlocks it.
EveryRequestIsAnswered ==
    \A r \in Requests :
        phase[r] = "waiting" ~> \/ phase[r] \in Answered
                                \/ \E q \in Requests : phase[q] = "aborted"

=============================================================================
