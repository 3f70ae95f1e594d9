------------------------- MODULE OwnerFactorsProofs -------------------------
(***************************************************************************)
(* Machine-checked proofs about OwnerFactors, for any number of requests,  *)
(* any passwords, pasted hashes, secrets and codes, and any length of time.*)
(***************************************************************************)
EXTENDS OwnerFactors, TLAPS

\* The types the argument needs.
FactorTypes ==
    /\ env \in [hash : Hashes \cup {None}, secret : Secrets \cup {None}]
    /\ conf \in [hash : Hashes \cup {None}, secret : Secrets \cup {None},
                 domain : Domains]
    /\ step \in Nat
    /\ mu \in Requests \cup {None}
    /\ phase \in [Requests -> {"new", "waiting", "inside"} \cup Answered]
    /\ kind \in [Requests -> Kinds]
    /\ evidence = [r \in Requests |-> evidence[r]]
    /\ read \in [Requests -> Int]
    /\ arrived \in [Requests -> Nat]

\* A hash that can be read, in the file or in the running daemon, is of a
\* password that was put there.
HashesAreFiled ==
    /\ env.hash # None /\ Decodes(env.hash) => env.hash.of \in filed
    /\ conf.hash # None /\ Decodes(conf.hash) => conf.hash.of \in filed

\* Secrets are counted up in the file, and the daemon has one of them.
SecretsGrow ==
    conf.secret # None => env.secret # None /\ conf.secret <= env.secret

\* What a request has brought with it.
RequestKnows ==
    \A r \in Requests :
        /\ arrived[r] <= step
        /\ phase[r] # "new" /\ kind[r] = "password" => evidence[r] \in Passwords

Inv ==
    /\ FactorTypes
    /\ HashesAreFiled
    /\ SecretsGrow
    /\ RequestKnows
    /\ AcceptedMeansProved

USE RequestsAssumption, SecretsAssumption, HashesAssumption, StepsAssumption
    DEF Answered, Kinds

\* Without credentials nothing is accepted.
LEMMA InitInv == Init => Inv
BY DEF Init, Inv, FactorTypes, HashesAreFiled, SecretsGrow, RequestKnows,
    AcceptedMeansProved

\* The secret in the file and that of the daemon are numbers, where there are
\* any.
LEMMA SecretsAreNumbers ==
    ASSUME FactorTypes
    PROVE  /\ env.secret # None => env.secret \in Nat
           /\ conf.secret # None => conf.secret \in Nat
<1>1. env.secret \in Secrets \cup {None} /\ conf.secret \in Secrets \cup {None}
  BY DEF FactorTypes
<1>2. QED
  BY <1>1

\* What a verifier accepts was proved: by the password of a configured hash,
\* or by a code next to the present step (ComparePassword, TOTPVerifier).
LEMMA OkIsProved ==
    ASSUME Inv, NEW r \in Requests, phase[r] = "inside", Verdict(r) = "ok"
    PROVE  /\ kind[r] = "password" => evidence[r] \in filed
           /\ kind[r] = "totp" =>
                 /\ conf.secret \in Secrets
                 /\ \E s \in step - 1 .. step + 1 : evidence[r].digits = CodeAt[conf.secret][s]
           /\ kind[r] # "passkey"
<1> USE DEF Inv, FactorTypes, HashesAreFiled
<1>1. CASE kind[r] = "password"
  <2>1. conf.hash # None /\ ComparePassword(evidence[r], conf.hash) = "ok"
    BY <1>1 DEF Verdict
  <2>2. Decodes(conf.hash) /\ conf.hash.of = evidence[r]
    BY <2>1 DEF ComparePassword
  <2>3. QED
    BY <1>1, <2>1, <2>2
<1>2. CASE kind[r] = "totp"
  <2>1. conf.secret # None /\ VerifyTOTP(evidence[r], conf.secret) = "ok"
    BY <1>2 DEF Verdict
  <2>2. conf.secret \in Secrets
    BY <2>1
  <2>3. PICK s \in TotpWindow(step) : evidence[r].digits = CodeAt[conf.secret][s]
    BY <2>1 DEF VerifyTOTP
  <2>4. s \in step - 1 .. step + 1
    BY <2>3 DEF TotpWindow
  <2>5. QED
    BY <1>2, <2>2, <2>3, <2>4
<1>3. CASE kind[r] = "passkey"
  BY <1>3 DEF Verdict, VerifyPasskey, SessionBound
<1>4. QED
  BY <1>1, <1>2, <1>3

\* Every step of a request, of the owner or of the daemon preserves it.
LEMMA NextInv == Inv /\ [Next]_vars => Inv'
<1> SUFFICES ASSUME Inv, [Next]_vars PROVE Inv'
  OBVIOUS
<1> USE DEF Inv, FactorTypes, HashesAreFiled, SecretsGrow, RequestKnows,
        AcceptedMeansProved, requestVars
<1>1. ASSUME NEW r \in Requests, NEW k \in Kinds, Arrive(r, k) PROVE Inv'
  <2>1. /\ phase[r] = "new" /\ phase' = [phase EXCEPT ![r] = "waiting"]
        /\ kind' = [kind EXCEPT ![r] = k]
        /\ UNCHANGED <<env, conf, filed, phone, step, lastAccepted, mu>>
    BY <1>1 DEF Arrive
  <2>2. /\ evidence' = [q \in Requests |-> evidence'[q]]
        /\ read' \in [Requests -> Int] /\ arrived' \in [Requests -> Nat]
        /\ \A q \in Requests : arrived'[q] <= step
        /\ \A q \in Requests : q # r =>
              evidence'[q] = evidence[q] /\ arrived'[q] = arrived[q]
        /\ k = "password" => evidence'[r] \in Passwords
    <3>1. CASE k = "password"
      <4>1. PICK pw \in Passwords : evidence' = [evidence EXCEPT ![r] = pw]
        BY <1>1, <3>1 DEF Arrive
      <4>2. UNCHANGED <<read, arrived>>
        BY <1>1, <3>1 DEF Arrive
      <4>3. QED
        BY <3>1, <4>1, <4>2
    <3>2. CASE k = "totp"
      <4>1. \E s \in Steps : \E code :
               /\ evidence' = [evidence EXCEPT ![r] = code]
               /\ read' = [read EXCEPT ![r] = s]
        BY <1>1, <3>2, Zenon DEF Arrive
      <4>2. PICK s \in Steps : \E code :
               /\ evidence' = [evidence EXCEPT ![r] = code]
               /\ read' = [read EXCEPT ![r] = s]
        BY <4>1
      <4>3. s \in Int
        BY DEF Steps
      <4>4. arrived' = [arrived EXCEPT ![r] = step]
        BY <1>1, <3>2 DEF Arrive
      <4>5. QED
        BY <3>2, <4>2, <4>3, <4>4
    <3>3. CASE k \notin {"password", "totp"}
      BY <1>1, <3>3 DEF Arrive
    <3>4. QED
      BY <3>1, <3>2, <3>3
  <2>3. FactorTypes' /\ HashesAreFiled' /\ SecretsGrow'
    BY <2>1, <2>2
  <2>4. RequestKnows'
    BY <2>1, <2>2
  <2>5. AcceptedMeansProved'
    BY <2>1, <2>2
  <2>6. QED
    BY <2>3, <2>4, <2>5
<1>2. ASSUME NEW r \in Requests, Enter(r) PROVE Inv'
  BY <1>2 DEF Enter
<1>3. ASSUME NEW r \in Requests, UnknownAttempt(r) \/ Refuse(r) PROVE Inv'
  BY <1>3 DEF UnknownAttempt, Refuse, Leave
<1>4. ASSUME NEW r \in Requests, Accept(r) PROVE Inv'
  <2>1. /\ phase[r] = "inside" /\ phase' = [phase EXCEPT ![r] = "200"]
        /\ mu' = None /\ Verdict(r) = "ok"
        /\ UNCHANGED <<env, conf, filed, phone, step, kind, evidence, read, arrived>>
    BY <1>4 DEF Accept, Leave
  <2>2. FactorTypes' /\ HashesAreFiled' /\ SecretsGrow' /\ RequestKnows'
    BY <2>1
  <2>3. kind[r] = "totp" =>
          \E k \in Secrets, s \in arrived[r] - 1 .. step + 1 :
              env.secret # None /\ k <= env.secret /\ evidence[r].digits = CodeAt[k][s]
    <3>1. SUFFICES ASSUME kind[r] = "totp"
                   PROVE  \E k \in Secrets, s \in arrived[r] - 1 .. step + 1 :
                              /\ env.secret # None /\ k <= env.secret
                              /\ evidence[r].digits = CodeAt[k][s]
      OBVIOUS
    <3>2. PICK s \in step - 1 .. step + 1 : evidence[r].digits = CodeAt[conf.secret][s]
      BY <2>1, <3>1, OkIsProved
    <3>3. conf.secret \in Secrets /\ env.secret # None /\ conf.secret <= env.secret
      BY <2>1, <3>1, OkIsProved
    <3>4. s \in arrived[r] - 1 .. step + 1
      BY <3>2
    <3>5. QED
      BY <3>2, <3>3, <3>4
  <2>4. (kind[r] = "password" => evidence[r] \in filed) /\ kind[r] # "passkey"
    BY <2>1, OkIsProved
  <2>5. AcceptedMeansProved'
    BY <2>1, <2>3, <2>4
  <2>6. QED
    BY <2>2, <2>5
<1>5. ASSUME NEW r \in Requests, Panic(r) PROVE Inv'
  BY <1>5 DEF Panic
<1>6. ASSUME NEW pw \in Passwords, SetupOwner(pw) PROVE Inv'
  <2> DEFINE next == IF env.secret = None THEN 1 ELSE env.secret + 1
  <2>1. /\ next \in Secrets /\ env' = [hash |-> HashPassword(pw), secret |-> next]
        /\ filed' = filed \cup {pw}
        /\ UNCHANGED <<conf, step, lastAccepted, mu, requestVars>>
    BY <1>6 DEF SetupOwner
  <2>2. HashPassword(pw) \in Hashes /\ HashPassword(pw).of = pw
    BY DEF Hashes, HashPassword
  <2>3. /\ env'.hash = HashPassword(pw) /\ env'.secret = next
        /\ env' \in [hash : Hashes \cup {None}, secret : Secrets \cup {None}]
    BY <2>1, <2>2
  <2>4. env.secret # None => env.secret \in Nat /\ env.secret <= next /\ next # None
    <3>1. next \in Nat /\ next # None
      BY <2>1
    <3>2. QED
      BY <3>1, SecretsAreNumbers
  <2>5. FactorTypes' /\ HashesAreFiled' /\ RequestKnows'
    BY <2>1, <2>2, <2>3
  <2>6. SecretsGrow'
    <3>1. next \in Nat /\ next # None
      BY <2>1
    <3>2. ASSUME conf.secret # None PROVE conf.secret <= next
      BY <2>4, <3>1, <3>2, SecretsAreNumbers
    <3>3. QED
      BY <2>1, <2>3, <3>1, <3>2
  <2>7. AcceptedMeansProved'
    BY <2>1, <2>3, <2>4
  <2>8. QED
    BY <2>5, <2>6, <2>7
<1>7. ASSUME NEW hash \in PastedHashes, PasteHash(hash) PROVE Inv'
  BY <1>7 DEF PasteHash, Hashes
<1>8. CASE Tick
  BY <1>8 DEF Tick
<1>9. CASE DaemonRestart
  <2>1. /\ conf'.hash = env.hash /\ conf'.secret = env.secret
        /\ conf' \in [hash : Hashes \cup {None}, secret : Secrets \cup {None},
                      domain : Domains]
    BY <1>9 DEF DaemonRestart
  <2>2. env.secret # None => env.secret <= env.secret
    BY SecretsAreNumbers
  <2>3. QED
    BY <1>9, <2>1, <2>2 DEF DaemonRestart
<1>10. CASE UNCHANGED vars
  BY <1>10 DEF vars
<1>11. QED
  BY <1>1, <1>2, <1>3, <1>4, <1>5, <1>6, <1>7, <1>8, <1>9, <1>10
     DEF Next, HandlerStep

\* The invariant holds throughout.
LEMMA InvHolds == Spec => []Inv
BY InitInv, NextInv, PTL DEF Spec

\* Pairing fails closed: what is accepted was proved, whatever was pasted into
\* the file and however often the daemon was restarted (OwnerConfig).
THEOREM AcceptanceIsProved == Spec => []AcceptedMeansProved
<1>1. Inv => AcceptedMeansProved
  BY DEF Inv
<1>2. QED
  BY <1>1, InvHolds, PTL

\* The verifiers accept honest evidence: a hash that HashPassword made decodes
\* and does not make argon2.IDKey panic, and the code of a phone that is one
\* period off, or of a request that waited for one period, is in the window.
LEMMA HonestIsOk ==
    ASSUME Inv, NEW r \in Requests, phase[r] = "inside", Honest(r)
    PROVE  Verdict(r) = "ok"
<1> USE DEF Inv, FactorTypes, RequestKnows
<1>1. CASE kind[r] = "password"
  <2> DEFINE hash == HashPassword(evidence[r])
  <2>1. conf.hash = hash
    BY <1>1 DEF Honest
  <2>2. conf.hash # None
    <3>1. hash \in Hashes
      BY <1>1 DEF Hashes
    <3>2. QED
      BY <2>1, <3>1
  <2>3. Decodes(hash) /\ hash.of = evidence[r]
    BY DEF HashPassword, Decodes
  <2>4. ~IDKeyPanics(hash)
    <3>1. 1 % 2^8 >= 1 /\ 1 % 2^8 \in Nat
      OBVIOUS
    <3>2. QED
      BY <3>1 DEF IDKeyPanics, Parallelism, HashPassword
  <2>5. ComparePassword(evidence[r], hash) = "ok"
    BY <2>3, <2>4 DEF ComparePassword
  <2>6. QED
    BY <1>1, <2>1, <2>2, <2>5 DEF Verdict
<1>2. CASE kind[r] = "totp"
  <2>1. /\ conf.secret # None /\ evidence[r] # lastAccepted
        /\ evidence[r].digits = CodeAt[conf.secret][read[r]]
        /\ \/ read[r] = arrived[r] /\ step <= arrived[r] + 1
           \/ read[r] \in arrived[r] - 1 .. arrived[r] + 1 /\ step = arrived[r]
    BY <1>2 DEF Honest
  <2>2. read[r] \in TotpWindow(step)
    BY <2>1 DEF TotpWindow
  <2>3. VerifyTOTP(evidence[r], conf.secret) = "ok"
    BY <2>1, <2>2 DEF VerifyTOTP
  <2>4. QED
    BY <1>2, <2>1, <2>3 DEF Verdict
<1>3. QED
  BY <1>1, <1>2 DEF Honest

\* The owner gets in: honest evidence is never answered by 401, whatever the
\* other requests, the clock and the operator did while it waited for Owner.mu
\* (ComparePassword, TOTPVerifier.Verify, totpSkew).
THEOREM HonestIsAccepted == Spec => HonestEvidenceIsAccepted
<1>1. ASSUME Inv, [Next]_vars, NEW r \in Requests, phase[r] = "inside",
             phase'[r] = "401"
      PROVE  ~Honest(r)
  <2> USE <1>1 DEF Inv, FactorTypes, requestVars
  <2>1. PICK q \in Requests : phase' = [phase EXCEPT ![q] = "401"] /\ Refuse(q)
    <3>1. ASSUME NEW q \in Requests,
                 \/ \E k \in Kinds : Arrive(q, k)
                 \/ Enter(q) \/ UnknownAttempt(q) \/ Accept(q) \/ Panic(q)
          PROVE  FALSE
      BY <3>1 DEF Arrive, Enter, UnknownAttempt, Accept, Panic, Leave
    <3>2. ASSUME \/ \E pw \in Passwords : SetupOwner(pw)
                 \/ \E hash \in PastedHashes : PasteHash(hash)
                 \/ Tick \/ DaemonRestart \/ UNCHANGED vars
          PROVE  FALSE
      BY <3>2 DEF SetupOwner, PasteHash, Tick, DaemonRestart, vars
    <3>3. QED
      BY <3>1, <3>2 DEF Next, HandlerStep, Refuse, Leave
  <2>2. Verdict(r) = "fail"
    BY <2>1 DEF Refuse
  <2>3. QED
    BY <2>2, HonestIsOk
<1>2. Inv /\ [Next]_vars
        => [\A r \in Requests :
              phase[r] = "inside" /\ phase'[r] = "401" => ~Honest(r)]_vars
  BY <1>1
<1>3. QED
  BY <1>2, InvHolds, PTL DEF Spec, HonestEvidenceIsAccepted

\* Owner.mu is held by the one request inside the critical section, or by one
\* whose verifier has panicked there.
HeldInsideOnly ==
    /\ \A r \in Requests : phase[r] = "inside" => mu = r
    /\ mu # None => phase[mu] \in {"inside", "aborted"}

\* Every way out of the critical section but a panic unlocks Owner.mu: a
\* request that has its answer never holds it, and two are never inside.
\* EveryRequestIsAnswered rests on this.
THEOREM AnswersUnlock == Spec => []HeldInsideOnly
<1>1. Init => HeldInsideOnly
  BY DEF Init, HeldInsideOnly
<1>2. Inv /\ HeldInsideOnly /\ [Next]_vars => HeldInsideOnly'
  <2> SUFFICES ASSUME Inv, HeldInsideOnly, [Next]_vars PROVE HeldInsideOnly'
    OBVIOUS
  <2> USE DEF Inv, FactorTypes, HeldInsideOnly, requestVars
  <2>1. ASSUME NEW r \in Requests, NEW k \in Kinds, Arrive(r, k)
        PROVE  HeldInsideOnly'
    BY <2>1 DEF Arrive
  <2>2. ASSUME NEW r \in Requests, Enter(r) PROVE HeldInsideOnly'
    BY <2>2 DEF Enter
  <2>3. ASSUME NEW r \in Requests, UnknownAttempt(r) \/ Accept(r) \/ Refuse(r)
        PROVE  HeldInsideOnly'
    BY <2>3 DEF UnknownAttempt, Accept, Refuse, Leave
  <2>4. ASSUME NEW r \in Requests, Panic(r) PROVE HeldInsideOnly'
    BY <2>4 DEF Panic
  <2>5. CASE DaemonRestart
    BY <2>5 DEF DaemonRestart
  <2>6. CASE UNCHANGED <<mu, phase>>
    BY <2>6
  <2>7. QED
    BY <2>1, <2>2, <2>3, <2>4, <2>5, <2>6
    DEF Next, HandlerStep, SetupOwner, PasteHash, Tick, vars
<1>3. QED
  BY <1>1, <1>2, InvHolds, PTL DEF Spec

=============================================================================
