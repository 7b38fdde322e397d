------------------------------ MODULE Pairing ------------------------------
(***************************************************************************)
(* Pairing: the four phases between NvPairingManager::pair of the client   *)
(* and the handlers of src/src/nvhttp.cpp, the PIN and the one-time PIN of *)
(* the web interface, and what the host keeps of a paired client: its      *)
(* entry in client_root.named_devices, its certificate in cert_chain, and  *)
(* both in the state file, which is written and read back at each change.  *)
(*                                                                         *)
(* A key is the PIN and the salt it was made from. What is encrypted under *)
(* one key and decrypted under another one is taken to be worthless, and   *)
(* hashes and signatures to be as good as what they are made of. A client  *)
(* has a uniqueid and a certificate of its own.                            *)
(*                                                                         *)
(* Nothing is locked. Threads: the HTTP server, which answers one request  *)
(* after the other, and the configuration server.                          *)
(***************************************************************************)
EXTENDS Naturals

CONSTANTS
  Clients,
  Careless,    (* clients that leave it to the host to check the PIN        *)
  Pins,
  None,        (* no PIN, no key, no session, no client                     *)
  MaxTries,    (* bound on the attempts of a client                         *)
  MaxCrashes,  (* bound on the crashes of the host                          *)
  Fresh,       (* the flag FRESH_STATE                                      *)
  Faults       (* a subset of AllFaults                                     *)

(***************************************************************************)
(* "torn": the host dies while it writes the state file. "overlap": one    *)
(* thread changes the list of clients while the other one saves it.        *)
(***************************************************************************)
AllFaults == {"torn", "overlap"}

ASSUME PairingAssumption ==
  /\ Careless \subseteq Clients
  /\ None \notin Clients \cup Pins
  /\ MaxTries \in Nat /\ MaxCrashes \in Nat
  /\ Fresh \in BOOLEAN /\ Faults \subseteq AllFaults

Threads == {"http", "config"}

VARIABLES
  step,      (* where the client is in pair()                               *)
  pin,       (* the PIN it shows                                            *)
  tries,     (* its attempts so far, the salt of the current one            *)
  match,     (* it could read the answer to its challenge                   *)
  sess,      (* map_id_sess                                                 *)
  otp,       (* one_time_pin                                                *)
  devices,   (* client_root.named_devices                                   *)
  chain,     (* cert_chain                                                  *)
  file,      (* named_devices in the state file                             *)
  torn,      (* the state file cannot be parsed                             *)
  job,       (* what a thread is in: "none", "save", "write", "load"        *)
  snap,      (* the list of clients it is writing                           *)
  newcomer,  (* the client whose pairing the HTTP thread saves              *)
  told,      (* clients the host has told that they are paired, and has     *)
             (* not unpaired since                                          *)
  entered,   (* clients whose PIN the user has entered                      *)
  crashes    (* crashes so far                                              *)

clientVars == <<step, pin, tries, match>>
listVars   == <<devices, chain, file, torn>>
jobVars    == <<job, snap, newcomer>>
ghostVars  == <<told, entered, crashes>>
vars == <<clientVars, sess, otp, listVars, jobVars, ghostVars>>

ClientKey(c) == <<pin[c], tries[c]>>

NewSession(n) == [phase |-> "none", salt |-> n, key |-> None, proof |-> None]

\* What load_state makes of the state file. FRESH_STATE does not call it.
Loaded == IF torn \/ Fresh THEN {} ELSE file

\* The clients in the file were paired in an earlier run.
Init ==
  /\ file \in SUBSET Clients /\ torn = FALSE
  /\ devices = Loaded /\ chain = Loaded /\ told = Loaded /\ entered = file
  /\ step = [c \in Clients |-> IF c \in told THEN "paired" ELSE "idle"]
  /\ pin = [c \in Clients |-> None]
  /\ tries = [c \in Clients |-> 0] /\ match = [c \in Clients |-> FALSE]
  /\ sess = [c \in Clients |-> None] /\ otp = None
  /\ job = [t \in Threads |-> "none"] /\ snap = [t \in Threads |-> {}]
  /\ newcomer = None /\ crashes = 0

\* A thread may take up a request that changes the list of clients.
MayChange(t) ==
  /\ job[t] = "none"
  /\ "overlap" \in Faults \/ \A u \in Threads : job[u] = "none"

Goes(c, l) == step' = [step EXCEPT ![c] = l]

(***************************************************************************)
(* Phase 1. The client sends its salt and its certificate and waits for    *)
(* the host, which waits for the PIN. A session the host still has is kept *)
(* by emplace, all but its salt and the request it is to answer.           *)
(***************************************************************************)

Asks(c, p) ==
  /\ job["http"] = "none"
  /\ step[c] \in {"idle", "failed"} \/ (step[c] = "paired" /\ c \notin told)
  /\ tries[c] < MaxTries
  /\ tries' = [tries EXCEPT ![c] = @ + 1]
  /\ pin' = [pin EXCEPT ![c] = p] /\ match' = [match EXCEPT ![c] = FALSE]

Emplaced(c) ==
  IF sess[c] = None THEN NewSession(tries[c] + 1)
  ELSE [sess[c] EXCEPT !.salt = tries[c] + 1]

Ask(c, p) ==
  /\ Asks(c, p)
  /\ Goes(c, "pin") /\ sess' = [sess EXCEPT ![c] = Emplaced(c)]
  /\ UNCHANGED <<otp, listVars, jobVars, ghostVars>>

\* getservercert: out of order the session is deleted.
WithKey(s, p) ==
  IF s.phase # "none" THEN None
  ELSE [s EXCEPT !.phase = "servercert", !.key = <<p, s.salt>>]

\* With a one-time PIN the answer is immediate, and positive even if it is wrong:
\* the key is made from something the client cannot know.
AskOtp(c, p) ==
  /\ Asks(c, p)
  /\ LET s == WithKey(Emplaced(c), IF otp = p THEN p ELSE None) IN
     /\ sess' = [sess EXCEPT ![c] = s]
     /\ Goes(c, IF s = None THEN "failed" ELSE "challenge")
  /\ otp' = IF otp = p THEN None ELSE otp
  /\ entered' = IF otp = p THEN entered \cup {c} ELSE entered
  /\ UNCHANGED <<listVars, jobVars, told, crashes>>

RequestOtp(p) ==
  /\ job["config"] = "none" /\ otp' = p
  /\ UNCHANGED <<clientVars, sess, listVars, jobVars, ghostVars>>

\* OTP_EXPIRE_DURATION is over.
ExpireOtp ==
  /\ otp # None /\ otp' = None
  /\ UNCHANGED <<clientVars, sess, listVars, jobVars, ghostVars>>

(***************************************************************************)
(* pin(): the PIN is for the session that comes first in the map. What the *)
(* code reads of a session it has just deleted is not followed.            *)
(***************************************************************************)
EnterPin(p) ==
  /\ job["config"] = "none"
  /\ \E c \in Clients :
       /\ sess[c] # None
       /\ sess' = [sess EXCEPT ![c] = WithKey(@, p)]
       /\ IF step[c] = "pin"
          THEN Goes(c, IF sess'[c] = None THEN "failed" ELSE "challenge")
          ELSE UNCHANGED step
       /\ entered' = IF p = pin[c] THEN entered \cup {c} ELSE entered
  /\ UNCHANGED <<pin, tries, match, otp, listVars, jobVars, told, crashes>>

(***************************************************************************)
(* Phases 2 to 4. A request without a session, or out of order, is refused *)
(* and the session is deleted.                                             *)
(***************************************************************************)

InOrder(c, phase) == sess[c] # None /\ sess[c].phase = phase

Refused(c, l, phase) ==
  /\ job["http"] = "none" /\ step[c] = l /\ ~InOrder(c, phase)
  /\ sess' = [sess EXCEPT ![c] = None] /\ Goes(c, "failed")
  /\ UNCHANGED <<pin, tries, match, otp, listVars, jobVars, ghostVars>>

\* clientchallenge: the answer is encrypted under the key of the session.
Challenge(c) ==
  /\ job["http"] = "none" /\ step[c] = "challenge" /\ InOrder(c, "servercert")
  /\ sess' = [sess EXCEPT ![c].phase = "challenge"]
  /\ match' = [match EXCEPT ![c] = sess[c].key = ClientKey(c)]
  /\ Goes(c, "response")
  /\ UNCHANGED <<pin, tries, otp, listVars, jobVars, ghostVars>>

\* serverchallengeresp: the hash of the client. The client finds out whether the
\* PIN was right; if not it gives up (the host knows no "unpair" request).
Response(c) ==
  /\ job["http"] = "none" /\ step[c] = "response" /\ InOrder(c, "challenge")
  /\ sess' = [sess EXCEPT ![c].phase = "response", ![c].proof = ClientKey(c)]
  /\ Goes(c, IF match[c] \/ c \in Careless THEN "secret" ELSE "failed")
  /\ UNCHANGED <<pin, tries, match, otp, listVars, jobVars, ghostVars>>

\* Mutant: the hash of the client is not compared.
AnyHash(c) == TRUE

SameHash(c) == sess[c].proof = sess[c].key

WrongSecret(c) ==
  /\ job["http"] = "none" /\ step[c] = "secret" /\ InOrder(c, "response") /\ ~SameHash(c)
  /\ sess' = [sess EXCEPT ![c] = None] /\ Goes(c, "failed")
  /\ UNCHANGED <<pin, tries, match, otp, listVars, jobVars, ghostVars>>

\* clientpairingsecret, and add_authorized_client up to save_state. With
\* FRESH_STATE neither save_state nor load_state is called.
Secret(c) ==
  /\ MayChange("http") /\ step[c] = "secret" /\ InOrder(c, "response") /\ SameHash(c)
  /\ sess' = [sess EXCEPT ![c] = None]
  /\ devices' = devices \cup {c} /\ newcomer' = c
  /\ job' = [job EXCEPT !["http"] = IF Fresh THEN "answer" ELSE "save"]
  /\ UNCHANGED <<clientVars, otp, chain, file, torn, snap, ghostVars>>

\* The answer of clientpairingsecret.
Answer ==
  /\ job["http"] = "answer"
  /\ job' = [job EXCEPT !["http"] = "none"] /\ newcomer' = None
  /\ told' = told \cup {newcomer}
  /\ step' = [c \in Clients |-> IF c = newcomer /\ step[c] = "secret" THEN "verify" ELSE step[c]]
  /\ UNCHANGED <<pin, tries, match, sess, otp, listVars, snap, entered, crashes>>

\* pairchallenge, over HTTPS: the certificate of the client is looked for.
PairChallenge(c) ==
  /\ step[c] = "verify"
  /\ Goes(c, IF c \in chain THEN "paired" ELSE "failed")
  /\ UNCHANGED <<pin, tries, match, sess, otp, listVars, jobVars, ghostVars>>

\* A request or an answer is lost or late, or the client is closed.
GiveUp(c) ==
  /\ step[c] \in {"pin", "challenge", "response", "secret", "verify"}
  /\ Goes(c, "failed")
  /\ UNCHANGED <<pin, tries, match, sess, otp, listVars, jobVars, ghostVars>>

(***************************************************************************)
(* The web interface removes clients.                                      *)
(***************************************************************************)

\* unpair_client up to save_state.
Unpair(c) ==
  /\ MayChange("config") /\ c \in devices
  /\ devices' = devices \ {c} /\ told' = told \ {c}
  /\ job' = [job EXCEPT !["config"] = "save"]
  /\ UNCHANGED <<clientVars, sess, otp, chain, file, torn, snap, newcomer, entered, crashes>>

\* erase_all_clients up to save_state.
EraseAll ==
  /\ MayChange("config")
  /\ devices' = {} /\ chain' = {} /\ told' = {}
  /\ job' = [job EXCEPT !["config"] = "save"]
  /\ UNCHANGED <<clientVars, sess, otp, file, torn, snap, newcomer, entered, crashes>>

(***************************************************************************)
(* save_state and load_state                                               *)
(***************************************************************************)

\* A file that cannot be read is not written either.
Save(t) ==
  /\ job[t] = "save"
  /\ IF torn
     THEN job' = [job EXCEPT ![t] = "load"] /\ UNCHANGED <<snap, torn>>
     ELSE /\ job' = [job EXCEPT ![t] = "write"]
          /\ snap' = [snap EXCEPT ![t] = devices] /\ torn' = TRUE
  /\ UNCHANGED <<clientVars, sess, otp, devices, chain, file, newcomer, ghostVars>>

\* Mutant: the file keeps what it had.
WriteNothing(t) ==
  /\ job[t] = "write"
  /\ torn' = FALSE
  /\ job' = [job EXCEPT ![t] = "load"] /\ snap' = [snap EXCEPT ![t] = {}]
  /\ UNCHANGED <<clientVars, sess, otp, devices, chain, file, newcomer, ghostVars>>

Write(t) ==
  /\ job[t] = "write"
  /\ file' = snap[t] /\ torn' = FALSE
  /\ job' = [job EXCEPT ![t] = "load"] /\ snap' = [snap EXCEPT ![t] = {}]
  /\ UNCHANGED <<clientVars, sess, otp, devices, chain, newcomer, ghostVars>>

\* Mutant: cert_chain is not rebuilt.
LoadDevices(t) ==
  /\ job[t] = "load"
  /\ IF torn THEN UNCHANGED devices ELSE devices' = file
  /\ job' = [job EXCEPT ![t] = IF t = "http" THEN "answer" ELSE "none"]
  /\ UNCHANGED <<clientVars, sess, otp, chain, file, torn, snap, newcomer, ghostVars>>

Load(t) ==
  /\ job[t] = "load"
  /\ IF torn THEN UNCHANGED <<devices, chain>> ELSE devices' = file /\ chain' = file
  /\ job' = [job EXCEPT ![t] = IF t = "http" THEN "answer" ELSE "none"]
  /\ UNCHANGED <<clientVars, sess, otp, file, torn, snap, newcomer, ghostVars>>

\* The host dies and is started again. The clients that were pairing notice.
Crash ==
  /\ crashes < MaxCrashes
  /\ (\E t \in Threads : job[t] = "write") => "torn" \in Faults
  /\ crashes' = crashes + 1
  /\ devices' = Loaded /\ chain' = Loaded
  /\ job' = [t \in Threads |-> "none"] /\ snap' = [t \in Threads |-> {}] /\ newcomer' = None
  /\ sess' = [c \in Clients |-> None] /\ otp' = None
  /\ step' = [c \in Clients |-> IF step[c] \in {"idle", "paired"} THEN step[c] ELSE "failed"]
  /\ UNCHANGED <<pin, tries, match, file, torn, told, entered>>

Next ==
  \/ \E c \in Clients :
       \/ \E p \in Pins : Ask(c, p) \/ AskOtp(c, p)
       \/ Refused(c, "challenge", "servercert") \/ Challenge(c)
       \/ Refused(c, "response", "challenge") \/ Response(c)
       \/ Refused(c, "secret", "response") \/ WrongSecret(c) \/ Secret(c)
       \/ PairChallenge(c) \/ GiveUp(c) \/ Unpair(c)
  \/ \E p \in Pins : RequestOtp(p) \/ EnterPin(p)
  \/ ExpireOtp \/ Answer \/ EraseAll \/ Crash
  \/ \E t \in Threads : Save(t) \/ Write(t) \/ Load(t)

Spec == Init /\ [][Next]_vars

-----------------------------------------------------------------------------

Keys == (Pins \cup {None}) \X Nat

Session ==
  [phase : {"none", "servercert", "challenge", "response"}, salt : Nat,
   key : Keys \cup {None}, proof : Keys \cup {None}]

TypeOK ==
  /\ step \in [Clients -> {"idle", "pin", "challenge", "response", "secret",
                           "verify", "paired", "failed"}]
  /\ pin \in [Clients -> Pins \cup {None}] /\ tries \in [Clients -> Nat]
  /\ match \in [Clients -> BOOLEAN]
  /\ sess \in [Clients -> Session \cup {None}]
  /\ otp \in Pins \cup {None}
  /\ devices \subseteq Clients /\ chain \subseteq Clients /\ file \subseteq Clients
  /\ torn \in BOOLEAN
  /\ job \in [Threads -> {"none", "save", "write", "load", "answer"}]
  /\ snap \in [Threads -> SUBSET Clients] /\ newcomer \in Clients \cup {None}
  /\ told \subseteq Clients /\ entered \subseteq Clients /\ crashes \in Nat

\* The host lets in, keeps and saves only clients whose PIN the user has
\* entered, whatever the clients check themselves: the comparison of
\* clientpairingsecret, "if hash not correct, probably MITM" (nvhttp.cpp:624).
OnlyByPin == devices \cup chain \cup file \subseteq entered

\* A client that was told it is paired is let in from then on until it is
\* unpaired, through every other pairing, unpairing, reload and crash: it is
\* in cert_chain, and in the file the next start reads.
PromiseKept == told \subseteq chain /\ told \subseteq (IF torn THEN chain ELSE file)

\* Between two requests the list of clients, the certificates the HTTPS server
\* accepts and the file say the same: an unpaired client is really out.
CopiesAgree ==
  (\A t \in Threads : job[t] = "none") => ~torn /\ devices = chain /\ devices = file

\* Why: a key that is the client's was made from the PIN that was entered, and
\* an old key is never taken for that of a new attempt.
KeysAreEarned ==
  \A c \in Clients : sess[c] # None =>
    /\ sess[c].salt = tries[c]
    /\ sess[c].phase # "none" =>
         /\ sess[c].key \in Keys /\ sess[c].key[2] <= tries[c]
         /\ sess[c].key = ClientKey(c) => c \in entered
    /\ sess[c].phase = "response" /\ SameHash(c) => c \in entered

\* What is still to be saved, or to be read back, in each step of a change.
ChangesGoThrough ==
  /\ \A t \in Threads : \A u \in Threads : job[t] # "none" /\ job[u] # "none" => t = u
  /\ torn <=> \E t \in Threads : job[t] = "write"
  /\ told \subseteq devices
  /\ \A t \in Threads :
       /\ job[t] = "write" => snap[t] = devices
       /\ job[t] = "load" => file = devices
       /\ job[t] = "answer" => file = devices /\ chain = devices
  /\ job["http"] # "none" => newcomer \in devices
  /\ job["config"] # "answer"

PairingInv ==
  /\ TypeOK /\ KeysAreEarned /\ ChangesGoThrough
  /\ OnlyByPin /\ PromiseKept /\ CopiesAgree

\* A new attempt starts with a new session, because the old one is deleted "when
\* something went wrong and force a re-pair" (nvhttp.cpp:491).
AskedIsFresh ==
  \A c \in Clients : step[c] = "pin" /\ sess[c] # None => sess[c].phase = "none"

\* FRESH_STATE is "without overwriting any pairings with your devices"
\* (logging.cpp:280).
FreshKeepsFile == [][Fresh => UNCHANGED <<file, torn>>]_vars

=============================================================================
