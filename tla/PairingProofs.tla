--------------------------- MODULE PairingProofs ---------------------------
(***************************************************************************)
(* PairingInv is inductive for any clients, PINs, attempts and crashes,    *)
(* provided that none of the Faults happens and the state is not fresh: no *)
(* crash while the state file is written, no two changes at a time.        *)
(***************************************************************************)
EXTENDS Pairing, TLAPS

\* The part about the lists and the file.
ListInv == ChangesGoThrough /\ PromiseKept /\ CopiesAgree

\* Init.
LEMMA InitInv == ASSUME Fresh = FALSE, Init PROVE PairingInv
<1>1. TypeOK
  BY DEF Init, TypeOK, Loaded
<1>2. KeysAreEarned
  BY DEF Init, KeysAreEarned
<1>3. ListInv
  <2>1. /\ torn = FALSE /\ devices = file /\ chain = file /\ told = file
        /\ \A t \in Threads : job[t] = "none"
    BY DEF Init, Loaded
  <2> QED
    BY <2>1 DEF ListInv, ChangesGoThrough, PromiseKept, CopiesAgree, Threads
<1>4. OnlyByPin
  BY DEF Init, Loaded, OnlyByPin
<1> QED
  BY <1>1, <1>2, <1>3, <1>4 DEF PairingInv, ListInv

\* Steps that leave the lists, the jobs and the promises alone.
LEMMA Unlisted ==
  ASSUME PairingInv, UNCHANGED <<listVars, jobVars, told>>, entered \subseteq entered'
  PROVE  ListInv' /\ OnlyByPin'
<1>1. ListInv'
  BY DEF PairingInv, ListInv, ChangesGoThrough, PromiseKept, CopiesAgree, listVars, jobVars
<1>2. OnlyByPin'
  BY DEF PairingInv, OnlyByPin, listVars
<1> QED
  BY <1>1, <1>2

\* What getservercert makes of a session.
LEMMA WithKeyType ==
  ASSUME NEW s \in Session, NEW p \in Pins \cup {None}
  PROVE  WithKey(s, p) \in Session \cup {None}
  BY DEF WithKey, Session, Keys

\* It is in the second phase, with a key made from the salt, or gone.
LEMMA WithKeyFields ==
  ASSUME NEW s \in Session, NEW p \in Pins \cup {None}, WithKey(s, p) # None
  PROVE  /\ s.phase = "none"
         /\ WithKey(s, p).phase = "servercert" /\ WithKey(s, p).salt = s.salt
         /\ WithKey(s, p).key = <<p, s.salt>>
  BY DEF WithKey, Session

\* What emplace leaves in the map.
LEMMA EmplacedType ==
  ASSUME TypeOK, KeysAreEarned, NEW c \in Clients
  PROVE  /\ Emplaced(c) \in Session /\ Emplaced(c).salt = tries[c] + 1
         /\ Emplaced(c).phase # "none" =>
              Emplaced(c).key \in Keys /\ Emplaced(c).key[2] <= tries[c]
         /\ Emplaced(c).phase = "response" /\ Emplaced(c).proof = Emplaced(c).key => c \in entered
<1>1. CASE sess[c] = None
  BY <1>1 DEF TypeOK, Emplaced, NewSession, Session
<1>2. CASE sess[c] # None
  <2>1. sess[c] \in Session
    BY <1>2 DEF TypeOK
  <2> QED
    BY <1>2, <2>1 DEF Emplaced, Session, KeysAreEarned, SameHash, TypeOK
<1> QED
  BY <1>1, <1>2

\* Phase 1.
LEMMA AskStep ==
  ASSUME PairingInv, NEW c \in Clients, NEW p \in Pins, Ask(c, p)
  PROVE  PairingInv'
<1> USE DEF PairingInv
<1>1. TypeOK'
  BY EmplacedType DEF TypeOK, Ask, Asks, Goes, listVars, jobVars, ghostVars
<1>2. KeysAreEarned'
  <2> SUFFICES ASSUME NEW d \in Clients, sess'[d] # None
      PROVE /\ sess'[d].salt = tries'[d]
            /\ sess'[d].phase # "none" =>
                 /\ sess'[d].key \in Keys /\ sess'[d].key[2] <= tries'[d]
                 /\ sess'[d].key = ClientKey(d)' => d \in entered'
            /\ sess'[d].phase = "response" /\ SameHash(d)' => d \in entered'
    BY DEF KeysAreEarned
  <2>1. CASE d = c
    <3>1. sess'[c] = Emplaced(c) /\ tries'[c] = tries[c] + 1 /\ entered' = entered
      BY DEF TypeOK, Ask, Asks, ghostVars
    <3>2. tries[c] \in Nat
      BY DEF TypeOK
    <3>3. ClientKey(c)'[2] = tries[c] + 1
      BY <3>1 DEF ClientKey
    <3>4. Emplaced(c).phase # "none" => Emplaced(c).key \in Keys /\ Emplaced(c).key[2] <= tries[c]
      BY EmplacedType
    <3>5. Emplaced(c).key \in Keys /\ Emplaced(c).key[2] <= tries[c] => Emplaced(c).key # ClientKey(c)'
      BY <3>2, <3>3 DEF Keys
    <3>6. Emplaced(c).key \in Keys /\ Emplaced(c).key[2] <= tries[c] => Emplaced(c).key[2] <= tries[c] + 1
      BY <3>2 DEF Keys
    <3>7. Emplaced(c).salt = tries'[c]
      BY <3>1, EmplacedType
    <3>8. Emplaced(c).phase = "response" /\ SameHash(c)' => c \in entered'
      BY <3>1, EmplacedType DEF SameHash
    <3> QED
      BY <2>1, <3>1, <3>4, <3>5, <3>6, <3>7, <3>8
  <2>2. CASE d # c
    <3>1. sess'[d] = sess[d] /\ tries'[d] = tries[d] /\ pin'[d] = pin[d] /\ entered' = entered
      BY <2>2 DEF TypeOK, Ask, Asks, ghostVars
    <3> QED
      BY <3>1 DEF KeysAreEarned, SameHash, ClientKey
  <2> QED
    BY <2>1, <2>2
<1> QED
  BY <1>1, <1>2, Unlisted DEF Ask, ghostVars, ListInv

\* The same with a one-time PIN.
LEMMA AskOtpStep ==
  ASSUME PairingInv, NEW c \in Clients, NEW p \in Pins, AskOtp(c, p)
  PROVE  PairingInv'
<1> USE DEF PairingInv
<1> DEFINE k == IF otp = p THEN p ELSE None
           s == WithKey(Emplaced(c), k)
<1>0. /\ Emplaced(c) \in Session /\ Emplaced(c).salt = tries[c] + 1
      /\ k \in Pins \cup {None}
  BY EmplacedType
<1>1. /\ s \in Session \cup {None}
      /\ sess' = [sess EXCEPT ![c] = s] /\ tries' = [tries EXCEPT ![c] = @ + 1]
      /\ pin' = [pin EXCEPT ![c] = p] /\ match' = [match EXCEPT ![c] = FALSE]
      /\ step' = [step EXCEPT ![c] = IF s = None THEN "failed" ELSE "challenge"]
      /\ entered' = (IF otp = p THEN entered \cup {c} ELSE entered)
      /\ otp' = (IF otp = p THEN None ELSE otp)
      /\ UNCHANGED <<listVars, jobVars, told, crashes>>
  <2>1. s \in Session \cup {None}
    <3> HIDE DEF k, PairingInv
    <3> QED
      BY <1>0, WithKeyType
  <2> QED
    BY <2>1 DEF AskOtp, Asks, Goes
<1>2. TypeOK'
  BY <1>1 DEF TypeOK, listVars, jobVars
<1>3. KeysAreEarned'
  <2> SUFFICES ASSUME NEW d \in Clients, sess'[d] # None
      PROVE /\ sess'[d].salt = tries'[d]
            /\ sess'[d].phase # "none" =>
                 /\ sess'[d].key \in Keys /\ sess'[d].key[2] <= tries'[d]
                 /\ sess'[d].key = ClientKey(d)' => d \in entered'
            /\ sess'[d].phase = "response" /\ SameHash(d)' => d \in entered'
    BY DEF KeysAreEarned
  <2>1. CASE d = c
    <3>1. sess'[c] = s /\ tries'[c] = tries[c] + 1 /\ tries[c] \in Nat /\ pin'[c] = p
      BY <1>1 DEF TypeOK
    <3>2. s # None
      BY <2>1, <3>1
    <3>3. s.salt = tries[c] + 1 /\ s.phase = "servercert" /\ s.key = <<k, tries[c] + 1>>
      <4> HIDE DEF k, PairingInv
      <4> QED
        BY <1>0, <3>2, WithKeyFields
    <3>5. ClientKey(c)' = <<p, tries[c] + 1>>
      BY <3>1 DEF ClientKey
    <3>6. s.key = ClientKey(c)' => c \in entered'
      <4> SUFFICES ASSUME s.key = ClientKey(c)' PROVE c \in entered'
        OBVIOUS
      <4>2. k = p
        BY <3>3, <3>5
      <4>1. otp = p
        BY <4>2, PairingAssumption
      <4> QED
        BY <1>1, <4>1
    <3>7. s.key \in Keys /\ s.key[2] <= tries[c] + 1
      <4>1. k \in Pins \cup {None}
        BY <1>1
      <4> HIDE DEF k
      <4> QED
        BY <3>1, <3>3, <4>1 DEF Keys
    <3> QED
      BY <2>1, <3>1, <3>3, <3>6, <3>7
  <2>2. CASE d # c
    <3>1. /\ sess'[d] = sess[d] /\ tries'[d] = tries[d] /\ pin'[d] = pin[d]
          /\ entered \subseteq entered'
      BY <1>1, <2>2 DEF TypeOK
    <3> QED
      BY <3>1 DEF KeysAreEarned, SameHash, ClientKey
  <2> QED
    BY <2>1, <2>2
<1> QED
  BY <1>1, <1>2, <1>3, Unlisted DEF ListInv

\* The PIN.
LEMMA EnterPinStep ==
  ASSUME PairingInv, NEW p \in Pins, EnterPin(p)
  PROVE  PairingInv'
<1> USE DEF PairingInv
<1> PICK c \in Clients :
       /\ sess[c] # None
       /\ sess' = [sess EXCEPT ![c] = WithKey(@, p)]
       /\ IF step[c] = "pin"
          THEN Goes(c, IF sess'[c] = None THEN "failed" ELSE "challenge")
          ELSE UNCHANGED step
       /\ entered' = IF p = pin[c] THEN entered \cup {c} ELSE entered
  BY DEF EnterPin
<1>1. sess[c] \in Session /\ sess'[c] = WithKey(sess[c], p)
  BY DEF TypeOK
<1>2. UNCHANGED <<pin, tries, match, otp, listVars, jobVars, told, crashes>>
  BY DEF EnterPin
<1>3. TypeOK'
  <2>1. sess' \in [Clients -> Session \cup {None}]
    <3>1. WithKey(sess[c], p) \in Session \cup {None}
      BY <1>1, WithKeyType, Zenon
    <3>2. sess' = [sess EXCEPT ![c] = WithKey(sess[c], p)] /\ sess \in [Clients -> Session \cup {None}]
      BY DEF TypeOK
    <3> HIDE DEF PairingInv
    <3> QED
      BY <3>1, <3>2
  <2>2. step' \in [Clients -> {"idle", "pin", "challenge", "response", "secret",
                               "verify", "paired", "failed"}]
    BY DEF TypeOK, Goes
  <2> QED
    BY <1>2, <2>1, <2>2 DEF TypeOK, listVars, jobVars
<1>4. KeysAreEarned'
  <2> SUFFICES ASSUME NEW d \in Clients, sess'[d] # None
      PROVE /\ sess'[d].salt = tries'[d]
            /\ sess'[d].phase # "none" =>
                 /\ sess'[d].key \in Keys /\ sess'[d].key[2] <= tries'[d]
                 /\ sess'[d].key = ClientKey(d)' => d \in entered'
            /\ sess'[d].phase = "response" /\ SameHash(d)' => d \in entered'
    BY DEF KeysAreEarned
  <2>1. CASE d = c
    <3>1. WithKey(sess[c], p) # None /\ sess[c].salt = tries[c]
      BY <1>1, <2>1 DEF KeysAreEarned
    <3>2. /\ sess'[c].salt = tries[c] /\ sess'[c].phase = "servercert"
          /\ sess'[c].key = <<p, tries[c]>>
      <4> HIDE DEF PairingInv
      <4> QED
        BY <1>1, <3>1, WithKeyFields
    <3>3. tries[c] \in Nat /\ ClientKey(c)' = <<pin[c], tries[c]>> /\ tries'[c] = tries[c]
      BY <1>2 DEF TypeOK, ClientKey
    <3>4. sess'[c].key \in Keys /\ sess'[c].key[2] <= tries[c]
      BY <3>2, <3>3 DEF Keys
    <3>5. sess'[c].key = ClientKey(c)' => c \in entered'
      BY <3>2, <3>3
    <3> QED
      BY <2>1, <3>2, <3>3, <3>4, <3>5
  <2>2. CASE d # c
    <3>1. /\ sess'[d] = sess[d] /\ tries'[d] = tries[d] /\ pin'[d] = pin[d]
          /\ entered \subseteq entered'
      BY <1>2, <2>2 DEF TypeOK
    <3> QED
      BY <3>1 DEF KeysAreEarned, SameHash, ClientKey
  <2> QED
    BY <2>1, <2>2
<1> QED
  BY <1>2, <1>3, <1>4, Unlisted DEF ListInv

\* Phases 2 to 4 without Secret: sessions and clients only.
LEMMA PhaseStep ==
  ASSUME PairingInv, NEW c \in Clients,
         \/ Refused(c, "challenge", "servercert") \/ Challenge(c)
         \/ Refused(c, "response", "challenge") \/ Response(c)
         \/ Refused(c, "secret", "response") \/ WrongSecret(c)
         \/ PairChallenge(c) \/ GiveUp(c)
  PROVE  PairingInv'
<1> USE DEF PairingInv
<1>1. UNCHANGED <<pin, tries, otp, listVars, jobVars, ghostVars>>
  BY DEF Refused, Challenge, Response, WrongSecret, PairChallenge, GiveUp
<1>2. CASE Refused(c, "challenge", "servercert") \/ Refused(c, "response", "challenge")
           \/ Refused(c, "secret", "response") \/ WrongSecret(c)
  <2>1. /\ sess' = [sess EXCEPT ![c] = None] /\ step' = [step EXCEPT ![c] = "failed"]
        /\ UNCHANGED match
    BY <1>2 DEF Refused, WrongSecret, Goes
  <2>2. TypeOK'
    BY <1>1, <2>1 DEF TypeOK, listVars, jobVars, ghostVars
  <2>3. KeysAreEarned'
    BY <1>1, <2>1 DEF TypeOK, KeysAreEarned, SameHash, ClientKey, ghostVars
  <2> QED
    BY <1>1, <2>2, <2>3, Unlisted DEF ListInv, ghostVars
<1>3. CASE PairChallenge(c) \/ GiveUp(c)
  <2>1. UNCHANGED <<sess, match>> /\ step' \in [Clients -> {"idle", "pin", "challenge",
          "response", "secret", "verify", "paired", "failed"}]
    BY <1>3 DEF PairChallenge, GiveUp, Goes, TypeOK
  <2>2. TypeOK'
    BY <1>1, <2>1 DEF TypeOK, listVars, jobVars, ghostVars
  <2>3. KeysAreEarned'
    BY <1>1, <2>1 DEF TypeOK, KeysAreEarned, SameHash, ClientKey, ghostVars
  <2> QED
    BY <1>1, <2>2, <2>3, Unlisted DEF ListInv, ghostVars
<1>4. CASE Challenge(c)
  <2>1. /\ sess[c] # None /\ sess[c] \in Session /\ sess[c].phase = "servercert"
        /\ sess' = [sess EXCEPT ![c] = [sess[c] EXCEPT !.phase = "challenge"]]
        /\ match' = [match EXCEPT ![c] = sess[c].key = ClientKey(c)]
        /\ step' = [step EXCEPT ![c] = "response"]
    BY <1>4 DEF Challenge, InOrder, Goes, TypeOK
  <2>2. TypeOK'
    <3>1. sess' \in [Clients -> Session \cup {None}]
      BY <2>1 DEF TypeOK, Session
    <3>2. match' \in [Clients -> BOOLEAN]
      BY <2>1 DEF TypeOK
    <3> QED
      BY <1>1, <2>1, <3>1, <3>2 DEF TypeOK, listVars, jobVars, ghostVars
  <2>3. KeysAreEarned'
    <3>1. /\ sess'[c].salt = sess[c].salt /\ sess'[c].key = sess[c].key
          /\ sess'[c].phase = "challenge"
      BY <2>1 DEF TypeOK, Session
    <3>2. \A d \in Clients \ {c} : sess'[d] = sess[d]
      BY <2>1 DEF TypeOK
    <3> QED
      BY <1>1, <2>1, <3>1, <3>2 DEF KeysAreEarned, SameHash, ClientKey, ghostVars
  <2> QED
    BY <1>1, <2>2, <2>3, Unlisted DEF ListInv, ghostVars
<1>5. CASE Response(c)
  <2>1. /\ sess[c] # None /\ sess[c] \in Session /\ sess[c].phase = "challenge"
        /\ sess' = [sess EXCEPT ![c] = [sess[c] EXCEPT !.phase = "response", !.proof = ClientKey(c)]]
        /\ step' = [step EXCEPT ![c] = IF match[c] \/ c \in Careless THEN "secret" ELSE "failed"]
        /\ UNCHANGED match
    BY <1>5 DEF Response, InOrder, Goes, TypeOK
  <2>2. TypeOK'
    <3>1. ClientKey(c) \in Keys
      BY DEF ClientKey, Keys, TypeOK
    <3>2. sess' \in [Clients -> Session \cup {None}]
      BY <2>1, <3>1 DEF TypeOK, Session
    <3> QED
      BY <1>1, <2>1, <3>2 DEF TypeOK, listVars, jobVars, ghostVars
  <2>3. KeysAreEarned'
    <3>1. /\ sess'[c].salt = sess[c].salt /\ sess'[c].key = sess[c].key
          /\ sess'[c].phase = "response" /\ sess'[c].proof = ClientKey(c)
      BY <2>1 DEF TypeOK, Session
    <3>2. \A d \in Clients \ {c} : sess'[d] = sess[d]
      BY <2>1 DEF TypeOK
    <3>3. SameHash(c)' => c \in entered'
      BY <1>1, <2>1, <3>1 DEF KeysAreEarned, SameHash, ghostVars
    <3> QED
      BY <1>1, <2>1, <3>1, <3>2, <3>3 DEF KeysAreEarned, SameHash, ClientKey, ghostVars
  <2> QED
    BY <1>1, <2>2, <2>3, Unlisted DEF ListInv, ghostVars
<1> QED
  BY <1>2, <1>3, <1>4, <1>5

\* Changes of the list, which no other change overlaps.
LEMMA ChangeStep ==
  ASSUME PairingInv, "overlap" \notin Faults, Fresh = FALSE,
         EraseAll \/ \E c \in Clients : Secret(c) \/ Unpair(c)
  PROVE  PairingInv'
<1> USE DEF PairingInv
<1>0. /\ \A t \in Threads : job[t] = "none"
      /\ ~torn /\ devices = chain /\ devices = file /\ told \subseteq devices
  BY DEF Secret, Unpair, EraseAll, MayChange, CopiesAgree, ChangesGoThrough
<1>1. ASSUME NEW c \in Clients, Secret(c) PROVE PairingInv'
  <2>1. /\ sess' = [sess EXCEPT ![c] = None] /\ devices' = devices \cup {c} /\ newcomer' = c
        /\ job' = [job EXCEPT !["http"] = "save"]
        /\ UNCHANGED <<clientVars, otp, chain, file, torn, snap, ghostVars>>
    BY <1>1 DEF Secret
  <2>2. c \in entered
    BY <1>1 DEF Secret, InOrder, KeysAreEarned
  <2>3. TypeOK'
    BY <2>1 DEF TypeOK, Threads, clientVars, ghostVars
  <2>4. KeysAreEarned'
    BY <2>1 DEF TypeOK, KeysAreEarned, SameHash, ClientKey, clientVars, ghostVars
  <2>5. job'["http"] = "save" /\ \A t \in Threads : t # "http" => job'[t] = "none"
    BY <1>0, <2>1 DEF TypeOK, Threads
  <2>6. ListInv'
    BY <1>0, <2>1, <2>5 DEF ListInv, ChangesGoThrough, PromiseKept, CopiesAgree, Threads, ghostVars
  <2>7. OnlyByPin'
    BY <2>1, <2>2 DEF OnlyByPin, ghostVars
  <2> QED
    BY <2>3, <2>4, <2>6, <2>7 DEF ListInv
<1>2. CASE EraseAll \/ \E c \in Clients : Unpair(c)
  <2>1. /\ job' = [job EXCEPT !["config"] = "save"]
        /\ devices' \subseteq devices /\ chain' \subseteq chain
        /\ told' \subseteq told /\ told' \subseteq devices' /\ told' \subseteq chain'
        /\ UNCHANGED <<clientVars, sess, otp, file, torn, snap, newcomer, entered, crashes>>
    BY <1>0, <1>2 DEF Unpair, EraseAll
  <2>2. TypeOK'
    BY <2>1 DEF TypeOK, Threads, clientVars
  <2>3. KeysAreEarned'
    BY <2>1 DEF TypeOK, KeysAreEarned, SameHash, ClientKey, clientVars
  <2>4. job'["config"] = "save" /\ \A t \in Threads : t # "config" => job'[t] = "none"
    BY <1>0, <2>1 DEF TypeOK, Threads
  <2>5. ListInv'
    BY <1>0, <2>1, <2>4 DEF ListInv, ChangesGoThrough, PromiseKept, CopiesAgree, Threads
  <2>6. OnlyByPin'
    BY <2>1 DEF OnlyByPin
  <2> QED
    BY <2>2, <2>3, <2>5, <2>6 DEF ListInv
<1> QED
  BY <1>1, <1>2

\* save_state and load_state.
LEMMA SaveStep ==
  ASSUME PairingInv, NEW t \in Threads, Save(t) \/ Write(t) \/ Load(t)
  PROVE  PairingInv'
<1> USE DEF PairingInv
<1>0. /\ job[t] # "none" /\ \A u \in Threads : u # t => job[u] = "none"
      /\ torn <=> job[t] = "write"
      /\ UNCHANGED <<clientVars, sess, otp, newcomer, ghostVars>>
  BY DEF Save, Write, Load, ChangesGoThrough
<1>1. KeysAreEarned'
  BY <1>0 DEF KeysAreEarned, SameHash, ClientKey, clientVars, ghostVars
<1>2. CASE Save(t)
  <2>1. /\ job' = [job EXCEPT ![t] = "write"] /\ torn' = TRUE
        /\ snap' = [snap EXCEPT ![t] = devices] /\ UNCHANGED <<devices, chain, file>>
    BY <1>0, <1>2 DEF Save
  <2>2. TypeOK'
    BY <1>0, <2>1 DEF TypeOK, clientVars, ghostVars
  <2>3. job'[t] = "write" /\ snap'[t] = devices /\ \A u \in Threads : u # t => job'[u] = "none"
    BY <1>0, <2>1 DEF TypeOK
  <2>4. ListInv'
    BY <1>0, <2>1, <2>3 DEF ListInv, ChangesGoThrough, PromiseKept, CopiesAgree, Threads, ghostVars
  <2>5. OnlyByPin'
    BY <1>0, <2>1 DEF OnlyByPin, ghostVars
  <2> QED
    BY <1>1, <2>2, <2>4, <2>5 DEF ListInv
<1>3. CASE Write(t)
  <2>1. /\ job' = [job EXCEPT ![t] = "load"] /\ torn' = FALSE /\ file' = devices
        /\ snap' = [snap EXCEPT ![t] = {}] /\ UNCHANGED <<devices, chain>>
    BY <1>3 DEF Write, ChangesGoThrough
  <2>2. TypeOK'
    BY <1>0, <2>1 DEF TypeOK, clientVars, ghostVars
  <2>3. job'[t] = "load" /\ \A u \in Threads : u # t => job'[u] = "none"
    BY <1>0, <2>1 DEF TypeOK
  <2>4. ListInv'
    BY <1>0, <2>1, <2>3 DEF ListInv, ChangesGoThrough, PromiseKept, CopiesAgree, Threads, ghostVars
  <2>5. OnlyByPin'
    BY <1>0, <2>1 DEF OnlyByPin, ghostVars
  <2> QED
    BY <1>1, <2>2, <2>4, <2>5 DEF ListInv
<1>4. CASE Load(t)
  <2>1. /\ file = devices /\ devices' = devices /\ chain' = devices
        /\ job' = [job EXCEPT ![t] = IF t = "http" THEN "answer" ELSE "none"]
        /\ UNCHANGED <<file, torn, snap>> /\ ~torn
    BY <1>0, <1>4 DEF Load, ChangesGoThrough
  <2>2. TypeOK'
    BY <1>0, <2>1 DEF TypeOK, clientVars, ghostVars
  <2>3. job'[t] = (IF t = "http" THEN "answer" ELSE "none")
        /\ \A u \in Threads : u # t => job'[u] = "none"
    BY <1>0, <2>1 DEF TypeOK
  <2>4. ListInv'
    BY <1>0, <2>1, <2>3 DEF ListInv, ChangesGoThrough, PromiseKept, CopiesAgree, Threads, ghostVars
  <2>5. OnlyByPin'
    BY <1>0, <2>1 DEF OnlyByPin, ghostVars
  <2> QED
    BY <1>1, <2>2, <2>4, <2>5 DEF ListInv
<1> QED
  BY <1>2, <1>3, <1>4

\* The answer that makes the promise.
LEMMA AnswerStep ==
  ASSUME PairingInv, Answer
  PROVE  PairingInv'
<1> USE DEF PairingInv
<1>1. /\ job["http"] = "answer" /\ job' = [job EXCEPT !["http"] = "none"] /\ newcomer' = None
      /\ told' = told \cup {newcomer}
      /\ UNCHANGED <<pin, tries, match, sess, otp, listVars, snap, entered, crashes>>
      /\ newcomer \in devices /\ file = devices /\ chain = devices
      /\ \A t \in Threads : t # "http" => job[t] = "none"
  BY DEF Answer, ChangesGoThrough, Threads
<1>2. TypeOK'
  <2>1. step' \in [Clients -> {"idle", "pin", "challenge", "response", "secret",
                               "verify", "paired", "failed"}]
    BY DEF Answer, TypeOK
  <2> QED
    BY <1>1, <2>1 DEF TypeOK, listVars, Threads
<1>3. KeysAreEarned'
  BY <1>1 DEF KeysAreEarned, SameHash, ClientKey
<1>4. \A t \in Threads : job'[t] = "none"
  BY <1>1 DEF TypeOK, Threads
<1>5. ~torn
  BY <1>1 DEF ChangesGoThrough, Threads
<1>6. ListInv'
  BY <1>1, <1>4, <1>5 DEF ListInv, ChangesGoThrough, PromiseKept, CopiesAgree, listVars, Threads
<1>7. OnlyByPin'
  BY <1>1 DEF OnlyByPin, listVars
<1> QED
  BY <1>2, <1>3, <1>6, <1>7 DEF ListInv

\* A crash finds the file whole, and the next start reads it.
LEMMA CrashStep ==
  ASSUME PairingInv, "torn" \notin Faults, Fresh = FALSE, Crash
  PROVE  PairingInv'
<1> USE DEF PairingInv
<1>1. /\ ~torn /\ devices' = file /\ chain' = file /\ UNCHANGED <<file, torn, told, entered>>
      /\ job' = [t \in Threads |-> "none"] /\ snap' = [t \in Threads |-> {}] /\ newcomer' = None
      /\ sess' = [c \in Clients |-> None] /\ otp' = None
      /\ UNCHANGED <<pin, tries, match>>
  BY DEF Crash, Loaded, ChangesGoThrough
<1>2. TypeOK'
  <2>1. step' \in [Clients -> {"idle", "pin", "challenge", "response", "secret",
                               "verify", "paired", "failed"}]
    BY DEF Crash, TypeOK
  <2>2. crashes' \in Nat
    BY DEF Crash, TypeOK
  <2> QED
    BY <1>1, <2>1, <2>2 DEF TypeOK, Threads
<1>3. KeysAreEarned'
  BY <1>1 DEF KeysAreEarned
<1>4. ListInv'
  BY <1>1 DEF ListInv, ChangesGoThrough, PromiseKept, CopiesAgree, Threads
<1>5. OnlyByPin'
  BY <1>1 DEF OnlyByPin
<1> QED
  BY <1>2, <1>3, <1>4, <1>5 DEF ListInv

\* The one-time PIN is requested or expires.
LEMMA OtpStep ==
  ASSUME PairingInv, ExpireOtp \/ (\E p \in Pins : RequestOtp(p))
  PROVE  PairingInv'
<1> USE DEF PairingInv
<1>1. otp' \in Pins \cup {None} /\ UNCHANGED <<clientVars, sess, listVars, jobVars, ghostVars>>
  BY DEF ExpireOtp, RequestOtp
<1>2. TypeOK'
  BY <1>1 DEF TypeOK, clientVars, listVars, jobVars, ghostVars
<1>3. KeysAreEarned'
  BY <1>1 DEF KeysAreEarned, SameHash, ClientKey, clientVars, ghostVars
<1> QED
  BY <1>1, <1>2, <1>3, Unlisted DEF ListInv, ghostVars

\* The keys, the lists, the file and the promises go together in every state.
THEOREM PairingInvariance ==
  ASSUME Fresh = FALSE, Faults = {} PROVE Spec => []PairingInv
<1>1. Init => PairingInv
  BY InitInv
<1>2. PairingInv /\ [Next]_vars => PairingInv'
  <2> SUFFICES ASSUME PairingInv, [Next]_vars PROVE PairingInv'
    OBVIOUS
  <2>1. CASE UNCHANGED vars
    <3>1. UNCHANGED <<clientVars, sess, otp, listVars, jobVars, ghostVars>>
      BY <2>1 DEF vars
    <3>2. TypeOK'
      BY <3>1 DEF PairingInv, TypeOK, clientVars, listVars, jobVars, ghostVars
    <3>3. KeysAreEarned'
      BY <3>1 DEF PairingInv, KeysAreEarned, SameHash, ClientKey, clientVars, ghostVars
    <3> QED
      BY <3>1, <3>2, <3>3, Unlisted DEF PairingInv, ListInv, ghostVars
  <2>2. CASE Next
    <3>1. ASSUME NEW c \in Clients, NEW p \in Pins, Ask(c, p) \/ AskOtp(c, p) PROVE PairingInv'
      BY <3>1, AskStep, AskOtpStep
    <3>2. ASSUME NEW c \in Clients, Secret(c) \/ Unpair(c) PROVE PairingInv'
      BY <3>2, ChangeStep
    <3>3. CASE EraseAll
      BY <3>3, ChangeStep
    <3>4. ASSUME NEW p \in Pins, RequestOtp(p) \/ EnterPin(p) PROVE PairingInv'
      BY <3>4, EnterPinStep, OtpStep
    <3>5. CASE ExpireOtp \/ Answer \/ Crash
      BY <3>5, OtpStep, AnswerStep, CrashStep
    <3>6. ASSUME NEW t \in Threads, Save(t) \/ Write(t) \/ Load(t) PROVE PairingInv'
      BY <3>6, SaveStep
    <3> QED
      BY <2>2, <3>1, <3>2, <3>3, <3>4, <3>5, <3>6, PhaseStep DEF Next
  <2> QED
    BY <2>1, <2>2
<1> QED
  BY <1>1, <1>2, PTL DEF Spec

\* Only clients whose PIN the user has entered are let in (nvhttp.cpp:619).
THEOREM PinIsNeeded ==
  ASSUME Fresh = FALSE, Faults = {} PROVE Spec => []OnlyByPin
<1>1. PairingInv => OnlyByPin
  BY DEF PairingInv
<1> QED
  BY <1>1, PairingInvariance, PTL

\* A client that was told it is paired is let in until it is unpaired.
THEOREM PairedStaysPaired ==
  ASSUME Fresh = FALSE, Faults = {} PROVE Spec => []PromiseKept
<1>1. PairingInv => PromiseKept
  BY DEF PairingInv
<1> QED
  BY <1>1, PairingInvariance, PTL

\* Between two requests list, certificates and file agree.
THEOREM CopiesAgreeAlways ==
  ASSUME Fresh = FALSE, Faults = {} PROVE Spec => []CopiesAgree
<1>1. PairingInv => CopiesAgree
  BY DEF PairingInv
<1> QED
  BY <1>1, PairingInvariance, PTL

=============================================================================
