---------------------------- MODULE NtripStoreProofs ----------------------------
(***************************************************************************)
(* What the three settings of MCNtripStore show, for every number of slots. *)
(*                                                                         *)
(* reset: with one writer and no legacy keys, a reset brings back whole    *)
(* configurations.  IInv follows a store through its phases: what is       *)
(* copied, what is settled, and from Save on that the blob is what is in   *)
(* RAM.                                                                    *)
(*                                                                         *)
(* With any number of writers, readers and resets may mix what was asked   *)
(* for, field by field, but see nothing else (FieldsInv).                  *)
(*                                                                         *)
(* keys: OneInv adds what the legacy keys hold, and what RAM is while they *)
(* are read back.  selftest: TestInv follows the snapshot of a self-test   *)
(* that nothing disturbs to the end of its restoring.                      *)
(***************************************************************************)
EXTENDS MCNtripStore, FiniteSetTheorems, TLAPS

USE DEF Web, Tester

Copying == {"flags", "rest", "settle"}
Saved   == {"keyOn", "keyHost", "commit"}

Job == job[Web]

(* The HTTP task is the only one that stores. *)
OneJob ==
  /\ job = [w \in Writers |-> job[w]]
  /\ \A w \in Writers \ {Web} : job[w] = NoJob

Types ==
  /\ ram \in [Slots -> Config] /\ loaded \in BOOLEAN
  /\ blob \in [Slots -> Config] /\ kind \in {"none", "bad", "valid"}
  /\ legacy \in [LegacySlots -> [on: BOOLEAN, host: Hosts]]
  /\ legit \in [Slots -> SUBSET Config]
  /\ OneJob
  /\ Job = [at |-> Job.at, slot |-> Job.slot, req |-> Job.req]
  /\ Job.at \in {"idle", "save"} \cup Copying \cup Saved
  /\ Job.slot \in Slots
  /\ test = "off"

(* A request that is under way has no holes, and every part of it may be *)
(* found after a reset.                                                   *)
Asked ==
  Job.at # "idle" =>
    /\ loaded
    /\ DOMAIN Job.req \subseteq Slots
    /\ \A s \in DOMAIN Job.req :
         /\ Job.req[s] \in Config
         /\ Job.req[s] \in legit[s]
         /\ Sanitize(Job.req[s]) \in legit[s]
    /\ \A s, t \in DOMAIN Job.req : s < t => s + 1 \in DOMAIN Job.req
    /\ Job.at \in Copying => Job.slot \in DOMAIN Job.req

Copied ==
  /\ loaded => \A s \in Slots :
       /\ ram[s] \in legit[s] \/ (Job.at = "rest" /\ s = Job.slot)
       /\ ram[s].named        \/ (Job.at = "settle" /\ s = Job.slot)
  /\ Job.at = "rest" =>
       /\ ram[Job.slot].on = Job.req[Job.slot].on
       /\ ram[Job.slot].tls = Job.req[Job.slot].tls
  /\ Job.at = "settle" => ram[Job.slot] = Job.req[Job.slot]
  /\ Job.at # "idle" => \A s \in DOMAIN Job.req :
       Job.at \notin Copying \/ s < Job.slot => ram[s] = Sanitize(Job.req[s])

Flashed ==
  /\ loaded => Valid
  /\ Job.at \in Saved => blob = ram
  /\ \A s \in Slots :
       (IF Valid THEN Sanitize(blob[s]) ELSE LegacyConfig(s)) \in legit[s]

IInv == Types /\ Asked /\ Copied /\ Flashed

LEMMA SlotFacts == (\A s \in Slots : s \in Int) /\ LegacySlots \subseteq Slots
BY StoreAssumption DEF Slots, LegacySlots

LEMMA DefaultIsConfig == Default \in Config /\ Default.named
BY StoreAssumption DEF Default, Config

LEMMA SanitizeFacts ==
  ASSUME NEW c \in Config
  PROVE  /\ Sanitize(c) \in Config
         /\ Sanitize(c).named
         /\ Sanitize(Sanitize(c)) = Sanitize(c)
         /\ c.named => Sanitize(c) = c
BY DefaultIsConfig DEF Sanitize, Config

LEMMA LegacyConfigType ==
  ASSUME Types, NEW s \in Slots
  PROVE  LegacyConfig(s) \in Config /\ LegacyConfig(s).named
BY DefaultIsConfig, SlotFacts DEF Types, LegacyConfig, Default, Config

(* What is lost of a configuration leaves one, with the name it had; and the *)
(* history has everything it had before, and what is left.                  *)
LEMMA WithoutFacts ==
  ASSUME NEW c \in Config, NEW lost
  PROVE  /\ Without(c, lost) \in Config
         /\ Without(c, lost).named = c.named
         /\ "on" \in lost => Without(c, lost).on = Default.on
         /\ "host" \in lost => Without(c, lost).host = NoHost
BY DefaultIsConfig DEF Without, Config, Default

LEMMA LossFacts ==
  ASSUME legit \in [Slots -> SUBSET Config], NEW s \in Slots, NEW lost
  PROVE  /\ WithLoss(s, lost) \in SUBSET Config
         /\ legit[s] \subseteq WithLoss(s, lost)
         /\ \A c \in legit[s] : c \in Config /\ Without(c, lost) \in WithLoss(s, lost)
BY WithoutFacts DEF WithLoss

(* A store that is rebuilt with what was lost. *)
LEMMA RebuiltFacts ==
  ASSUME legit \in [Slots -> SUBSET Config], NEW store \in [Slots -> Config],
         NEW lost \in Misreads,
         legit' = [s \in Slots |-> IF s \in LegacySlots THEN WithLoss(s, lost[s])
                                                      ELSE legit[s]]
  PROVE  /\ AllWithout(store, lost) \in [Slots -> Config]
         /\ legit' \in [Slots -> SUBSET Config]
         /\ \A s \in Slots : /\ legit[s] \subseteq legit'[s]
                             /\ AllWithout(store, lost)[s].named = store[s].named
                             /\ store[s] \in legit[s] =>
                                  AllWithout(store, lost)[s] \in legit'[s]
<1>1. ASSUME NEW s \in Slots
      PROVE  /\ AllWithout(store, lost)[s] \in Config
             /\ AllWithout(store, lost)[s].named = store[s].named
             /\ legit'[s] \in SUBSET Config /\ legit[s] \subseteq legit'[s]
             /\ store[s] \in legit[s] => AllWithout(store, lost)[s] \in legit'[s]
  <2>1. CASE s \in LegacySlots
    <3>1. AllWithout(store, lost)[s] = Without(store[s], lost[s])
      BY <2>1 DEF AllWithout
    <3>2. legit'[s] = WithLoss(s, lost[s])
      BY <2>1
    <3> QED BY <3>1, <3>2, WithoutFacts, LossFacts
  <2>2. CASE s \notin LegacySlots
    BY <2>2 DEF AllWithout
  <2> QED BY <2>1, <2>2
<1>2. AllWithout(store, lost) = [s \in Slots |-> AllWithout(store, lost)[s]]
  BY DEF AllWithout
<1>3. legit' = [s \in Slots |-> legit'[s]]
  OBVIOUS
<1> QED BY <1>1, <1>2, <1>3

(* What is read from flash is among what was asked for. *)
LEMMA FromFlashFacts ==
  ASSUME Types, Flashed, NEW s \in Slots
  PROVE  /\ FromFlash \in [Slots -> Config]
         /\ FromFlash[s] \in legit[s]
         /\ FromFlash[s] \in Config /\ FromFlash[s].named
<1>1. CASE Valid
  <2>1. FromFlash = [t \in Slots |-> Sanitize(blob[t])]
    BY <1>1 DEF FromFlash, Valid
  <2> QED BY <2>1, <1>1, SanitizeFacts DEF Types, Flashed
<1>2. CASE ~Valid /\ (kind = "none" => LegacyInUse)
  <2>1. FromFlash = [t \in Slots |-> LegacyConfig(t)]
    BY <1>2 DEF FromFlash, Valid, Migrated, Types
  <2> QED BY <2>1, <1>2, LegacyConfigType DEF Flashed
<1>3. CASE kind = "none" /\ ~LegacyInUse
  <2>1. FromFlash = [t \in Slots |-> Default]
    BY <1>3 DEF FromFlash
  <2>2. \A t \in Slots : LegacyConfig(t) = Default
    BY <1>3 DEF LegacyInUse, LegacyConfig, Default, Types
  <2> QED BY <2>1, <2>2, <1>3, DefaultIsConfig DEF Flashed, Valid
<1> QED BY <1>1, <1>2, <1>3 DEF Types, Valid

LEMMA FirstConfigs ==
  ASSUME Init
  PROVE  ram \in [Slots -> Config] /\ blob \in [Slots -> Config]
<1>1. [Default EXCEPT !.named = FALSE] \in Config
  BY DefaultIsConfig DEF Config
<1>2. ram \in [Slots -> Config]
  BY <1>1 DEF Init
<1>3. [s \in Slots |-> Default] \in [Slots -> Config]
  BY DefaultIsConfig
<1>4. blob \in Posts \cup {[s \in Slots |-> Default]}
  BY DEF Init
<1> QED BY <1>2, <1>3, <1>4, StoreAssumption

LEMMA Initially ==
  ASSUME Init
  PROVE  IInv
<1>1. ram \in [Slots -> Config] /\ blob \in [Slots -> Config]
  BY FirstConfigs
<1>2. OneJob /\ Job = NoJob
  <2>1. job = [w \in Writers |-> NoJob] /\ Web \in Writers
    BY StoreAssumption DEF Init
  <2> QED BY <2>1 DEF Job, OneJob, NoJob
<1>3. \A s \in Slots : LegacyConfig(s) \in Config
  BY DefaultIsConfig, SlotFacts DEF Init, LegacyConfig, Default, Config
<1>4. legit \in [Slots -> SUBSET Config]
  BY <1>1, <1>3, SanitizeFacts DEF Init
<1>5. Types
  <2>1. /\ legacy \in [LegacySlots -> [on: BOOLEAN, host: Hosts]]
        /\ loaded \in BOOLEAN /\ kind \in {"none", "bad", "valid"} /\ test = "off"
    BY DEF Init
  <2>2. /\ Job = [at |-> Job.at, slot |-> Job.slot, req |-> Job.req]
        /\ Job.at = "idle" /\ Job.slot = 1
    BY <1>2 DEF NoJob
  <2>3. 1 \in Slots
    BY StoreAssumption DEF Slots
  <2> QED BY <1>1, <1>2, <1>4, <2>1, <2>2, <2>3 DEF Types
<1>6. Flashed
  BY <1>2 DEF Init, Flashed, NoJob, Saved, Default
<1> QED BY <1>2, <1>5, <1>6 DEF IInv, Asked, Copied, NoJob, Init, Copying, Default

-----------------------------------------------------------------------------
(* A step of the writer moves its job and nothing else of it. *)
LEMMA OneStepJob ==
  ASSUME OneJob, Job = [at |-> Job.at, slot |-> Job.slot, req |-> Job.req],
         NEW from, NEW to, NEW slot, Step(Web, from, to, slot)
  PROVE  /\ Job.at = from
         /\ OneJob'
         /\ Job' = [at |-> to, slot |-> slot, req |-> Job.req]
<1>1. Web \in Writers
  BY StoreAssumption
<1>2. Job' = [Job EXCEPT !.at = to, !.slot = slot]
  BY <1>1 DEF OneJob, Step, Job
<1>3. OneJob'
  BY <1>1 DEF OneJob, Step
<1> QED BY <1>2, <1>3 DEF Step, Job

LEMMA StepMovesJob ==
  ASSUME Types, NEW from, NEW to, NEW slot, Step(Web, from, to, slot)
  PROVE  /\ Job.at = from
         /\ OneJob'
         /\ Job' = [at |-> to, slot |-> slot, req |-> Job.req]
BY OneStepJob DEF Types

(* What loading brings into RAM, of which some may be lost. *)
LEMMA LoadFacts ==
  ASSUME Load, FromFlash \in [Slots -> Config], legit \in [Slots -> SUBSET Config],
         \A s \in Slots : FromFlash[s].named
  PROVE  /\ ram' \in [Slots -> Config] /\ legit' \in [Slots -> SUBSET Config]
         /\ ~Valid => blob' = ram'
         /\ Valid => ram' = FromFlash /\ blob' = blob /\ legit' = legit
         /\ \A s \in Slots : /\ legit[s] \subseteq legit'[s]
                             /\ ram'[s].named
                             /\ FromFlash[s] \in legit[s] => ram'[s] \in legit'[s]
<1>1. CASE Valid
  BY <1>1 DEF Load
<1>2. CASE ~Valid
  <2>1. PICK lost \in Misreads :
          /\ ram' = AllWithout(FromFlash, lost) /\ blob' = ram'
          /\ legit' = [s \in Slots |-> IF s \in LegacySlots THEN WithLoss(s, lost[s])
                                                          ELSE legit[s]]
    BY <1>2 DEF Load
  <2> QED BY <1>2, <2>1, RebuiltFacts
<1> QED BY <1>1, <1>2

LEMMA LoadFailsFacts ==
  ASSUME LoadFails, FromFlash \in [Slots -> Config], ram \in [Slots -> Config]
  PROVE  ram' \in [Slots -> Config]
<1>1. CASE ram' = ram
  BY <1>1
<1>2. CASE ram' # ram
  <2>1. PICK lost \in Misreads : ram' = AllWithout(FromFlash, lost)
    BY <1>2 DEF LoadFails
  <2>2. \A s \in Slots : (IF s \in LegacySlots THEN Without(FromFlash[s], lost[s])
                                              ELSE FromFlash[s]) \in Config
    BY WithoutFacts
  <2> QED BY <2>1, <2>2 DEF AllWithout
<1> QED BY <1>1, <1>2

LEMMA LoadKeeps ==
  ASSUME IInv, Load
  PROVE  IInv'
<1> USE DEF IInv
<1>1. /\ \A s \in Slots : FromFlash[s] \in legit[s] /\ FromFlash[s].named
      /\ FromFlash \in [Slots -> Config] /\ legit \in [Slots -> SUBSET Config]
  <2>1. 1 \in Slots
    BY StoreAssumption DEF Slots
  <2> QED BY <2>1, FromFlashFacts DEF Types
<1>2. /\ Job' = Job /\ OneJob' /\ Job.at = "idle" /\ loaded' = TRUE /\ kind' = "valid"
      /\ UNCHANGED <<legacy, test>>
  BY DEF Load, Job, OneJob, Types, Asked, tests
<1>3. /\ ram' \in [Slots -> Config] /\ legit' \in [Slots -> SUBSET Config]
      /\ ~Valid => blob' = ram'
      /\ Valid => blob' = blob /\ legit' = legit
      /\ \A s \in Slots : ram'[s] \in legit'[s] /\ ram'[s].named
  BY <1>1, LoadFacts
<1>4. Types'
  BY <1>2, <1>3 DEF Types
<1>5. Asked' /\ Copied'
  BY <1>2, <1>3 DEF Asked, Copied
<1>6. Flashed'
  <2>1. \A s \in Slots : Sanitize(blob[s])' \in legit'[s]
    <3>1. CASE Valid
      BY <1>3, <3>1 DEF Flashed, Sanitize
    <3>2. CASE ~Valid
      BY <1>3, <3>2 DEF Sanitize
    <3> QED BY <3>1, <3>2
  <2> QED BY <1>2, <2>1 DEF Flashed, Valid, Saved
<1> QED BY <1>4, <1>5, <1>6

LEMMA LoadFailsKeeps ==
  ASSUME IInv, LoadFails
  PROVE  IInv'
<1> USE DEF IInv
<1>1. \A s \in Slots : FromFlash \in [Slots -> Config]
  BY FromFlashFacts
<1>2. Job' = Job /\ OneJob' /\ Job.at = "idle"
  BY DEF LoadFails, Job, OneJob, Types, Asked
<1>3. Types'
  <2>1. ram' \in [Slots -> Config]
    BY <1>1, StoreAssumption, LoadFailsFacts DEF Types, Slots
  <2> QED BY <2>1, <1>2 DEF LoadFails, Types, tests, flash
<1>4. Asked' /\ Copied'
  BY <1>1, <1>2 DEF LoadFails, Asked, Copied
<1>5. \A s : LegacyConfig(s)' = LegacyConfig(s)
  BY DEF LoadFails, flash, LegacyConfig
<1>6. Flashed'
  BY <1>2, <1>5 DEF LoadFails, Flashed, Valid, flash, Saved
<1> QED BY <1>3, <1>4, <1>6

(* A store begins, with any request that names its slots without holes. *)
LEMMA BeginSetKeeps ==
  ASSUME IInv, NEW first \in Slots, NEW req,
         BeginSet(Web, first, req), UNCHANGED tests,
         DOMAIN req \subseteq Slots, first \in DOMAIN req,
         \A s \in DOMAIN req : req[s] \in Config,
         \A s, t \in DOMAIN req : s < t => s + 1 \in DOMAIN req,
         \A s \in DOMAIN req : s >= first
  PROVE  IInv'
<1> USE DEF IInv
<1>1. /\ Job.at = "idle" /\ loaded /\ loaded' = loaded /\ ram' = ram
      /\ blob' = blob /\ kind' = kind /\ legacy' = legacy /\ test' = test
  BY DEF BeginSet, Begin, Idle, Job, tests
<1>2. /\ Job' = [at |-> "flags", slot |-> first, req |-> req]
      /\ OneJob'
  <2>1. Web \in Writers /\ job' = [job EXCEPT ![Web] = [at |-> "flags", slot |-> first, req |-> req]]
    BY DEF BeginSet, Begin
  <2> QED BY <2>1 DEF OneJob, Types, Job
<1>3. \A s \in Slots : legit'[s] = IF s \in DOMAIN req
                                     THEN legit[s] \cup {req[s], Sanitize(req[s])}
                                     ELSE legit[s]
  BY DEF BeginSet
<1>4. legit' \in [Slots -> SUBSET Config]
  BY SanitizeFacts DEF BeginSet, Types
<1>5. Types'
  BY <1>1, <1>2, <1>4 DEF Types, Copying
<1>6. Asked'
  <2>1. \A s \in DOMAIN req : req[s] \in legit'[s] /\ Sanitize(req[s]) \in legit'[s]
    BY <1>3
  <2>2. /\ Job'.at = "flags" /\ Job'.req = req /\ Job'.slot = first
        /\ loaded' = TRUE
    BY <1>1, <1>2 DEF Types
  <2> QED BY <2>1, <2>2 DEF Asked
<1>7. Copied'
  <2>1. \A s \in Slots : ram'[s] \in legit'[s] /\ ram'[s].named
    BY <1>1, <1>3 DEF Copied
  <2>2. \A s \in DOMAIN req : ~(s < first)
    BY SlotFacts
  <2>3. Job'.at = "flags" /\ Job'.req = req /\ Job'.slot = first
    BY <1>2
  <2> QED BY <2>1, <2>2, <2>3 DEF Copied, Copying
<1>8. \A s : LegacyConfig(s)' = LegacyConfig(s)
  BY <1>1 DEF LegacyConfig
<1>9. Flashed'
  BY <1>1, <1>2, <1>3, <1>8 DEF Flashed, Valid, Saved
<1> QED BY <1>5, <1>6, <1>7, <1>9

LEMMA PostSlotsKeeps ==
  ASSUME IInv, NEW req \in Posts, PostSlots(req)
  PROVE  IInv'
<1>1. req \in [Slots -> Config] /\ 1 \in Slots
  BY StoreAssumption DEF Slots
<1>2. \A s, t \in Slots : s < t => s + 1 \in Slots
  BY StoreAssumption DEF Slots
<1>3. \A s \in Slots : s >= 1
  BY DEF Slots
<1>4. BeginSet(Web, 1, req) /\ UNCHANGED tests
  BY DEF PostSlots
<1> QED BY <1>1, <1>2, <1>3, <1>4, BeginSetKeeps

LEMMA SlotEnableKeeps ==
  ASSUME IInv, NEW s \in Enables, NEW on \in BOOLEAN,
         SlotEnable(s, on)
  PROVE  IInv'
<1> DEFINE req == [t \in {s} |-> [ram[t] EXCEPT !.on = on]]
<1>1. s \in Slots /\ s \in Int
  BY StoreAssumption, SlotFacts
<1>2. DOMAIN req = {s} /\ \A t \in DOMAIN req : req[t] \in Config
  BY <1>1 DEF IInv, Types, Config
<1>3. BeginSet(Web, s, req) /\ UNCHANGED tests
  BY DEF SlotEnable
<1>4. \A t, u \in DOMAIN req : ~(t < u) /\ t >= s
  BY <1>1, <1>2
<1> HIDE DEF req
<1> QED BY <1>1, <1>2, <1>3, <1>4, BeginSetKeeps

-----------------------------------------------------------------------------
(* The steps of a store.  In each, only the slot the job is at can change. *)
LEMMA CopyFlagsKeeps ==
  ASSUME IInv, CopyFlags(Web)
  PROVE  IInv'
<1> USE DEF IInv
<1> DEFINE k == Job.slot
<1>1. /\ Job.at = "flags" /\ OneJob'
      /\ Job' = [at |-> "rest", slot |-> k, req |-> Job.req]
  BY StepMovesJob DEF CopyFlags, Job
<1>2. /\ loaded' = loaded /\ blob' = blob /\ kind' = kind /\ legacy' = legacy
      /\ legit' = legit /\ test' = test
      /\ ram' = [ram EXCEPT ![k].on = Job.req[k].on, ![k].tls = Job.req[k].tls]
  BY DEF CopyFlags, Step, Job, tests
<1>3. k \in Slots /\ k \in DOMAIN Job.req /\ Job.req[k] \in Config
  BY <1>1 DEF Types, Asked, Copying
<1>4. /\ ram' \in [Slots -> Config]
      /\ \A s \in Slots \ {k} : ram'[s] = ram[s]
      /\ ram'[k].on = Job.req[k].on /\ ram'[k].tls = Job.req[k].tls
      /\ ram'[k].named = ram[k].named /\ loaded
  BY <1>1, <1>2, <1>3 DEF Types, Config, Asked
<1>5. Types'
  BY <1>1, <1>2, <1>4 DEF Types, Copying
<1>6. Asked'
  BY <1>1, <1>2, <1>3 DEF Asked, Copying
<1>7. Copied'
  <2>1. \A s \in Slots \ {k} : ram'[s] \in legit'[s] /\ ram'[s].named
    BY <1>1, <1>2, <1>4 DEF Copied
  <2>2. ram'[k].named
    BY <1>1, <1>3, <1>4 DEF Copied
  <2>3. \A s \in DOMAIN Job.req : s < k => ram'[s] = Sanitize(Job.req[s])
    BY <1>1, <1>3, <1>4, SlotFacts DEF Copied, Copying, Asked
  <2>4. Job'.at = "rest" /\ Job'.slot = k /\ Job'.req = Job.req
    BY <1>1
  <2> QED BY <1>4, <2>1, <2>2, <2>3, <2>4 DEF Copied, Copying
<1>8. Flashed'
  BY <1>1, <1>2 DEF Flashed, Valid, Saved, LegacyConfig
<1> QED BY <1>5, <1>6, <1>7, <1>8

LEMMA CopyRestKeeps ==
  ASSUME IInv, CopyRest(Web)
  PROVE  IInv'
<1> USE DEF IInv
<1> DEFINE k == Job.slot
<1>1. /\ Job.at = "rest" /\ OneJob'
      /\ Job' = [at |-> "settle", slot |-> k, req |-> Job.req]
  BY StepMovesJob DEF CopyRest, Job
<1>2. /\ loaded' = loaded /\ blob' = blob /\ kind' = kind /\ legacy' = legacy
      /\ legit' = legit /\ test' = test
      /\ ram' = [ram EXCEPT ![k].host = Job.req[k].host,
                            ![k].named = Job.req[k].named]
  BY DEF CopyRest, Step, Job, tests
<1>3. k \in Slots /\ k \in DOMAIN Job.req /\ Job.req[k] \in Config
  BY <1>1 DEF Types, Asked, Copying
<1>4. /\ ram' \in [Slots -> Config]
      /\ \A s \in Slots \ {k} : ram'[s] = ram[s]
      /\ ram'[k] = Job.req[k]
  <2>1. /\ ram \in [Slots -> Config] /\ ram[k].on = Job.req[k].on
        /\ ram[k].tls = Job.req[k].tls
    BY <1>1 DEF Types, Copied
  <2>2. [ram[k] EXCEPT !.host = Job.req[k].host, !.named = Job.req[k].named] = Job.req[k]
    BY <1>3, <2>1 DEF Config
  <2>3. ram' = [ram EXCEPT ![k] = Job.req[k]]
    BY <1>2, <2>2
  <2> QED BY <1>3, <2>1, <2>3
<1>5. Types'
  BY <1>1, <1>2, <1>4 DEF Types, Copying
<1>6. Asked'
  BY <1>1, <1>2, <1>3 DEF Asked, Copying
<1>7. Copied'
  <2>1. \A s \in Slots \ {k} : ram'[s] \in legit'[s] /\ ram'[s].named
    BY <1>1, <1>2, <1>4 DEF Copied, Asked
  <2>2. ram'[k] \in legit'[k]
    BY <1>1, <1>2, <1>3, <1>4 DEF Asked
  <2>3. \A s \in DOMAIN Job.req : s < k => ram'[s] = Sanitize(Job.req[s])
    BY <1>1, <1>3, <1>4, SlotFacts DEF Copied, Copying, Asked
  <2>4. Job'.at = "settle" /\ Job'.slot = k /\ Job'.req = Job.req
    BY <1>1
  <2> QED BY <1>4, <2>1, <2>2, <2>3, <2>4 DEF Copied, Copying
<1>8. Flashed'
  BY <1>1, <1>2 DEF Flashed, Valid, Saved, LegacyConfig
<1> QED BY <1>5, <1>6, <1>7, <1>8

LEMMA SettleKeeps ==
  ASSUME IInv, Settle(Web)
  PROVE  IInv'
<1> USE DEF IInv
<1> DEFINE k == Job.slot
<1> DEFINE more == k + 1 \in DOMAIN Job.req
<1>1. /\ Job.at = "settle" /\ OneJob'
      /\ Job' = [at |-> IF more THEN "flags" ELSE "save",
                 slot |-> IF more THEN k + 1 ELSE 1, req |-> Job.req]
  <2>1. CASE more
    BY <2>1, StepMovesJob DEF Settle, Job
  <2>2. CASE ~more
    BY <2>2, StepMovesJob DEF Settle, Job
  <2> QED BY <2>1, <2>2
<1>2. /\ loaded' = loaded /\ blob' = blob /\ kind' = kind /\ legacy' = legacy
      /\ legit' = legit /\ test' = test
      /\ ram' = [ram EXCEPT ![k] = Sanitize(@)]
  BY DEF Settle, Step, Job, tests
<1>3. /\ k \in Slots /\ k \in DOMAIN Job.req /\ Job.req[k] \in Config
      /\ loaded /\ DOMAIN Job.req \subseteq Slots
  BY <1>1 DEF Types, Asked, Copying
<1>4. ram[k] = Job.req[k] /\ Sanitize(ram[k]) \in legit[k] /\ ram[k] \in Config
  BY <1>1, <1>3 DEF Copied, Asked, Types
<1>5. /\ ram' \in [Slots -> Config]
      /\ \A s \in Slots \ {k} : ram'[s] = ram[s]
      /\ ram'[k] = Sanitize(Job.req[k]) /\ ram'[k].named
  BY <1>2, <1>3, <1>4, SanitizeFacts DEF Types
<1>6. Types'
  BY <1>1, <1>2, <1>3, <1>5, StoreAssumption DEF Types, Copying, Slots
<1>7. Asked'
  BY <1>1, <1>2, <1>3 DEF Asked, Copying
<1>8. Copied'
  <2>1. \A s \in DOMAIN Job.req : s # k => (s < k \/ (more /\ k + 1 <= s))
    <3>1. SUFFICES ASSUME NEW s \in DOMAIN Job.req, k < s
                   PROVE  more /\ k + 1 <= s
      BY <1>3, SlotFacts
    <3>2. more
      BY <1>1, <1>3, <3>1 DEF Asked
    <3> HIDE DEF more
    <3> QED BY <1>3, <3>1, <3>2, SlotFacts
  <2>2. \A s \in Slots : ram'[s] \in legit'[s] /\ ram'[s].named
    BY <1>1, <1>2, <1>3, <1>4, <1>5 DEF Copied
  <2>3. \A s \in DOMAIN Job.req :
          s < k \/ s = k => ram'[s] = Sanitize(Job.req[s])
    BY <1>1, <1>3, <1>5, SlotFacts DEF Copied
  <2>4. \A s \in DOMAIN Job.req : s \in Int
    BY <1>3, SlotFacts
  <2>5. \A s \in DOMAIN Job'.req :
          Job'.at \notin Copying \/ s < Job'.slot => ram'[s] = Sanitize(Job'.req[s])
    BY <1>1, <2>1, <2>3, <2>4, <1>3 DEF Copying
  <2> QED BY <1>1, <2>2, <2>5 DEF Copied
<1>9. Flashed'
  BY <1>1, <1>2 DEF Flashed, Valid, Saved, LegacyConfig
<1> QED BY <1>6, <1>7, <1>8, <1>9

LEMMA SaveKeeps ==
  ASSUME IInv, Save(Web)
  PROVE  IInv'
<1> USE DEF IInv
<1>1. /\ Job.at = "save" /\ OneJob'
      /\ Job' = [at |-> "keyOn", slot |-> 1, req |-> Job.req]
  BY StepMovesJob DEF Save, Job
<1>2. /\ loaded' = loaded /\ blob' = ram /\ kind' = kind /\ legacy' = legacy
      /\ legit' = legit /\ test' = test /\ ram' = ram
  BY DEF Save, Step, tests
<1>3. loaded /\ \A s \in Slots : Sanitize(ram[s]) \in legit[s]
  BY <1>1, SanitizeFacts DEF Asked, Copied, Types
<1>4. Types'
  BY <1>1, <1>2, StoreAssumption DEF Types, Saved, Slots
<1>5. Asked' /\ Copied'
  BY <1>1, <1>2 DEF Asked, Copied, Copying
<1>6. Flashed'
  BY <1>1, <1>2, <1>3 DEF Flashed, Valid, Saved
<1> QED BY <1>4, <1>5, <1>6

(* Once the blob is saved, the steps on the keys touch nothing else. *)
LEMMA KeysKeep ==
  ASSUME IInv, SetKeyOn(Web) \/ SetKeyHost(Web)
  PROVE  IInv'
<1> USE DEF IInv
<1>1. /\ Job.at \in {"keyOn", "keyHost"} /\ OneJob'
      /\ Job'.req = Job.req /\ Job'.at \in Saved /\ Job'.slot \in Slots
      /\ Job' = [at |-> Job'.at, slot |-> Job'.slot, req |-> Job'.req]
  <2>1. CASE SetKeyOn(Web)
    <3>1. Step(Web, "keyOn", "keyHost", Job.slot)
      BY <2>1 DEF SetKeyOn, Job
    <3> QED BY <3>1, StepMovesJob DEF Saved, Types
  <2>2. CASE SetKeyHost(Web) /\ Job.slot + 1 \in LegacySlots
    <3>1. Step(Web, "keyHost", "keyOn", Job.slot + 1)
      BY <2>2 DEF SetKeyHost, Job
    <3> QED BY <2>2, <3>1, StepMovesJob, SlotFacts DEF Saved, Types
  <2>3. CASE SetKeyHost(Web) /\ Job.slot + 1 \notin LegacySlots
    <3>1. Step(Web, "keyHost", "commit", 1)
      BY <2>3 DEF SetKeyHost, Job
    <3>2. 1 \in Slots
      BY StoreAssumption DEF Slots
    <3> QED BY <3>1, <3>2, StepMovesJob DEF Saved
  <2> QED BY <2>1, <2>2, <2>3
<1>2. /\ loaded' = loaded /\ blob' = blob /\ kind' = kind /\ ram' = ram
      /\ legit' = legit /\ test' = test
  BY DEF SetKeyOn, SetKeyHost, Step, tests
<1>3. loaded /\ Valid /\ blob = ram
  BY <1>1 DEF Asked, Flashed, Saved
<1>4. \A s \in Slots : ram[s].on \in BOOLEAN /\ ram[s].host \in Hosts
  BY DEF Types, Config
<1>5. legacy' \in [LegacySlots -> [on: BOOLEAN, host: Hosts]]
  BY <1>4 DEF SetKeyOn, SetKeyHost, Job, Types
<1>6. Types'
  BY <1>1, <1>2, <1>5 DEF Types
<1>7. Asked' /\ Copied'
  BY <1>1, <1>2 DEF Asked, Copied, Copying, Saved
<1>8. Flashed'
  BY <1>1, <1>2, <1>3 DEF Flashed, Valid
<1> QED BY <1>6, <1>7, <1>8

LEMMA CommitKeeps ==
  ASSUME IInv, Commit(Web)
  PROVE  IInv'
<1> USE DEF IInv
<1>1. /\ Job.at = "commit" /\ OneJob'
      /\ Job' = [at |-> "idle", slot |-> 1, req |-> Job.req]
  BY StepMovesJob DEF Commit, Job
<1>2. /\ loaded' = loaded /\ blob' = blob /\ kind' = kind /\ ram' = ram
      /\ legacy' = legacy /\ test' = test
  BY DEF Commit, Step, tests
<1>3. \A s \in DOMAIN Job.req : /\ ram[s] = Sanitize(Job.req[s])
                               /\ Job.req[s] \in Config
  BY <1>1 DEF Copied, Asked, Copying
<1>4. /\ legit' \in [Slots -> SUBSET Config]
      /\ \A s \in Slots :
           legit'[s] = legit[s] \/ (s \in DOMAIN Job.req /\ legit'[s] = {ram[s]})
  BY <1>3, SanitizeFacts DEF Commit, Types, Job
<1>5. /\ loaded /\ Valid /\ blob = ram
      /\ \A s \in Slots : /\ ram[s] \in legit[s] /\ ram[s].named
                          /\ Sanitize(ram[s]) = ram[s]
  BY <1>1, SanitizeFacts DEF Asked, Flashed, Saved, Copied, Types
<1>6. Types'
  BY <1>1, <1>2, <1>4, StoreAssumption DEF Types, Slots
<1>7. Asked' /\ Copied'
  BY <1>1, <1>2, <1>4, <1>5 DEF Asked, Copied, Copying
<1>8. Flashed'
  BY <1>1, <1>2, <1>4, <1>5 DEF Flashed, Valid, Saved
<1> QED BY <1>6, <1>7, <1>8

LEMMA FailsKeeps ==
  ASSUME IInv, Fails(Web)
  PROVE  IInv'
<1> USE DEF IInv
<1>1. /\ Job.at \in {"save"} \cup Saved /\ OneJob'
      /\ Job' = [at |-> "idle", slot |-> Job.slot, req |-> Job.req]
  <2>1. Web \in Writers
    BY StoreAssumption
  <2>2. Job' = [Job EXCEPT !.at = "idle"] /\ OneJob'
    BY <2>1 DEF Fails, Types, OneJob, Job
  <2> QED BY <2>2 DEF Fails, Types, Job, Saved, Copying
<1>2. /\ loaded' = loaded /\ kind' = kind /\ ram' = ram /\ legit' = legit
      /\ legacy' = legacy /\ test' = test /\ blob' \in {blob, ram}
  BY DEF Fails, tests
<1>3. loaded /\ Valid /\ \A s \in Slots : ram[s] \in legit[s] /\ ram[s].named
  BY <1>1 DEF Asked, Copied, Flashed, Saved
<1>4. \A s \in Slots : Sanitize(ram[s]) = ram[s]
  BY <1>3, SanitizeFacts DEF Types
<1>5. Types'
  BY <1>1, <1>2 DEF Types
<1>6. Asked' /\ Copied'
  BY <1>1, <1>2, <1>3 DEF Asked, Copied, Copying
<1>7. Flashed'
  BY <1>1, <1>2, <1>3, <1>4 DEF Flashed, Valid, Saved
<1> QED BY <1>5, <1>6, <1>7

LEMMA ResetKeeps ==
  ASSUME IInv, Reset
  PROVE  IInv'
<1> USE DEF IInv
<1>1. Job' = NoJob /\ OneJob'
  <2>1. job' = [w \in Writers |-> NoJob] /\ Web \in Writers
    BY StoreAssumption DEF Reset
  <2> QED BY <2>1 DEF Job, OneJob, NoJob
<1>2. /\ loaded' = FALSE /\ kind' = kind /\ blob' = blob /\ legit' = legit
      /\ legacy' = legacy /\ test' = "off"
  BY DEF Reset, flash, Forget
<1>3. ram' \in [Slots -> Config]
  BY StoreAssumption DEF Reset, Default, Config
<1>4. /\ Job' = [at |-> Job'.at, slot |-> Job'.slot, req |-> Job'.req]
      /\ Job'.at = "idle" /\ Job'.slot = 1
  BY <1>1 DEF NoJob
<1>5. Types'
  <2>1. 1 \in Slots
    BY StoreAssumption DEF Slots
  <2> QED BY <1>1, <1>2, <1>3, <1>4, <2>1 DEF Types
<1>6. Asked' /\ Copied' /\ Flashed'
  <2>1. \A s : LegacyConfig(s)' = LegacyConfig(s)
    BY <1>2 DEF LegacyConfig
  <2> QED BY <1>2, <1>4, <2>1 DEF Asked, Copied, Copying, Flashed, Valid, Saved
<1> QED BY <1>5, <1>6

LEMMA OnlyWeb ==
  ASSUME OneJob, NEW w \in Writers,
         \/ CopyFlags(w) \/ CopyRest(w) \/ Settle(w) \/ Save(w)
         \/ SetKeyOn(w) \/ SetKeyHost(w) \/ Commit(w) \/ Fails(w)
         \/ Blank(w) \/ ReadOn(w) \/ ReadHost(w) \/ MissHost(w) \/ SaveRead(w)
  PROVE  w = Web
<1>1. job[w].at # "idle"
  BY DEF CopyFlags, CopyRest, Settle, Save, SetKeyOn, SetKeyHost, Commit, Fails,
         Blank, ReadOn, ReadHost, MissHost, SaveRead, Step
<1> QED BY <1>1 DEF OneJob, NoJob

LEMMA Inductive ==
  ASSUME IInv, StoreSlots(Posts, Enables) \/ Failure \/ UNCHANGED vars
  PROVE  IInv'
<1>1. CASE UNCHANGED vars
  BY <1>1 DEF vars, flash, tests, IInv, Types, OneJob, Asked, Copied, Flashed, Job, Valid,
              LegacyConfig
<1>2. CASE Load \/ LoadFails \/ Reset
  BY <1>2, LoadKeeps, LoadFailsKeeps, ResetKeeps
<1>3. CASE \E req \in Posts : PostSlots(req)
  BY <1>3, PostSlotsKeeps
<1>4. CASE \E s \in Enables, on \in BOOLEAN : SlotEnable(s, on)
  BY <1>4, SlotEnableKeeps
<1>5. CASE CopyFlags(Web) \/ CopyRest(Web) \/ Settle(Web) \/ Save(Web)
  BY <1>5, CopyFlagsKeeps, CopyRestKeeps, SettleKeeps, SaveKeeps
<1>6. CASE SetKeyOn(Web) \/ SetKeyHost(Web) \/ Commit(Web) \/ Fails(Web)
  BY <1>6, KeysKeep, CommitKeeps, FailsKeeps
<1>7. ASSUME NEW w \in Writers,
             \/ CopyFlags(w) \/ CopyRest(w) \/ Settle(w) \/ Save(w)
             \/ SetKeyOn(w) \/ SetKeyHost(w) \/ Commit(w) \/ Fails(w)
      PROVE  w = Web
  BY <1>7, OnlyWeb DEF IInv, Types
<1> QED BY <1>1, <1>2, <1>3, <1>4, <1>5, <1>6, <1>7 DEF StoreSlots, Failure

(* What a part posts and enables is among what may be. *)
LEMMA PartStores ==
  ASSUME part \in Parts, StoreSlots(Settings[part].posts, Settings[part].enables)
  PROVE  StoreSlots(Posts, Enables)
<1>1. Settings[part].posts \subseteq Posts /\ Settings[part].enables \subseteq Enables
  BY SettingsAssumption
<1> QED BY <1>1 DEF StoreSlots

(* With the HTTP task as the only writer and nobody posting legacy keys, a *)
(* reset at any moment brings back, for every slot, a whole configuration   *)
(* that was acknowledged last or requested since (Recoverable): neither a   *)
(* mixture of two nor a default.                                            *)
THEOREM OneWriterRecovers == MCSpec => []WholeRecovers
<1> DEFINE Inv == part \in Parts /\ (part = "reset" => IInv)
<1>1. MCInit => Inv
  BY Initially DEF MCInit
<1>2. Inv /\ [MCNext]_<<part, vars>> => Inv'
  BY Inductive, PartStores DEF MCNext
<1>3. Inv => WholeRecovers
  BY FromFlashFacts DEF IInv, Recoverable, WholeRecovers
<1> QED BY <1>1, <1>2, <1>3, PTL DEF MCSpec

-----------------------------------------------------------------------------
(* Any number of writers.  They mix their configurations, so that whole ones  *)
(* are lost, but every field is one that was asked for.  The invariant:      *)
(* what RAM and blob hold is meant, field by field; and the writer that has   *)
(* been alone since its call began, the only one that makes the history      *)
(* forget, has done what Copied and Flashed say of a single writer.          *)
Meant(c, s) ==
  /\ \E a \in legit[s] : c.on = a.on
  /\ \E b \in legit[s] : c.host = b.host
  /\ c.named \/ Default \in legit[s]

JobTypes ==
  /\ job = [w \in Writers |-> job[w]]
  /\ \A w \in Writers :
       /\ job[w] = [at |-> job[w].at, slot |-> job[w].slot, req |-> job[w].req]
       /\ job[w].at \in {"idle", "save"} \cup Copying \cup Saved
       /\ job[w].slot \in Slots
  /\ alone \in [Writers -> BOOLEAN]

StoreTypes ==
  /\ ram \in [Slots -> Config] /\ loaded \in BOOLEAN
  /\ blob \in [Slots -> Config] /\ kind \in {"none", "bad", "valid"}
  /\ legacy \in [LegacySlots -> [on: BOOLEAN, host: Hosts]]
  /\ legit \in [Slots -> SUBSET Config]

(* The snapshot of the self-test has no holes, and is complete when used. *)
Snapshot ==
  /\ test \in {"off", "snapshot", "running", "restoring"}
  /\ test = "snapshot" => \E k \in 0..(NumSlots - 1) : backup \in [1..k -> Config]
  /\ test = "running" => backup \in [Slots -> Config]

AskedBy(w) ==
  ~Idle(w) =>
    /\ loaded
    /\ DOMAIN job[w].req \subseteq Slots
    /\ \A s \in DOMAIN job[w].req :
         /\ job[w].req[s] \in Config
         /\ job[w].req[s] \in legit[s]
         /\ Sanitize(job[w].req[s]) \in legit[s]
    /\ \A s, t \in DOMAIN job[w].req : s < t => s + 1 \in DOMAIN job[w].req
    /\ job[w].at \in Copying => job[w].slot \in DOMAIN job[w].req

DoneBy(w) ==
  alone[w] /\ ~Idle(w) =>
    /\ \A v \in Writers \ {w} : Idle(v)
    /\ job[w].at = "rest" =>
         /\ ram[job[w].slot].on = job[w].req[job[w].slot].on
         /\ ram[job[w].slot].tls = job[w].req[job[w].slot].tls
    /\ job[w].at = "settle" => ram[job[w].slot] = job[w].req[job[w].slot]
    /\ \A s \in DOMAIN job[w].req :
         job[w].at \notin Copying \/ s < job[w].slot
           => ram[s] = Sanitize(job[w].req[s])
    /\ job[w].at \in Saved => blob = ram

BlobMeant ==
  \A s \in Slots : IF Valid THEN Meant(Sanitize(blob[s]), s)
                            ELSE LegacyConfig(s) \in legit[s]

FieldsMeant ==
  /\ loaded => Valid /\ \A s \in Slots : Meant(ram[s], s)
  /\ BlobMeant

FieldsInv ==
  /\ StoreTypes /\ JobTypes /\ Snapshot /\ FieldsMeant
  /\ \A w \in Writers : AskedBy(w) /\ DoneBy(w)

(* What was meant stays so while requests are only added. *)
LEMMA MeantGrows ==
  ASSUME NEW s, NEW c, Meant(c, s), legit[s] \subseteq legit'[s]
  PROVE  /\ \E a \in legit'[s] : c.on = a.on
         /\ \E b \in legit'[s] : c.host = b.host
         /\ c.named \/ Default \in legit'[s]
BY DEF Meant

(* A whole configuration that was asked for is meant, and one whose name is   *)
(* empty is meant only where the default is, too.                            *)
LEMMA WholeIsMeant ==
  ASSUME NEW s \in Slots, NEW c \in Config, c \in legit[s],
         Sanitize(c) \in legit[s]
  PROVE  Meant(c, s)
BY DEF Meant, Sanitize

LEMMA SanitizedIsMeant ==
  ASSUME NEW s \in Slots, NEW c \in Config, Meant(c, s)
  PROVE  Meant(Sanitize(c), s)
<1>1. CASE c.named
  BY <1>1 DEF Sanitize
<1>2. CASE ~c.named
  BY <1>2, DefaultIsConfig DEF Sanitize, Meant
<1> QED BY <1>1, <1>2

LEMMA FlashMeant ==
  ASSUME StoreTypes, BlobMeant, NEW s \in Slots
  PROVE  /\ FromFlash \in [Slots -> Config] /\ Meant(FromFlash[s], s)
         /\ ~Valid => FromFlash[s] \in legit[s]
<1>0. \A t \in Slots : LegacyConfig(t) \in Config /\ LegacyConfig(t).named
  BY DefaultIsConfig, SlotFacts DEF StoreTypes, LegacyConfig, Default, Config
<1>1. CASE Valid
  <2>1. FromFlash = [t \in Slots |-> Sanitize(blob[t])]
    BY <1>1 DEF FromFlash, Valid
  <2> QED BY <2>1, <1>1, SanitizeFacts DEF StoreTypes, BlobMeant
<1>2. CASE ~Valid
  <2>1. FromFlash = [t \in Slots |-> LegacyConfig(t)]
    <3>1. CASE kind = "none" => LegacyInUse
      BY <1>2, <3>1 DEF FromFlash, Valid, Migrated, StoreTypes
    <3>2. CASE kind = "none" /\ ~LegacyInUse
      <4>1. \A t \in Slots : LegacyConfig(t) = Default
        BY <3>2 DEF LegacyInUse, LegacyConfig, Default, StoreTypes
      <4> QED BY <3>2, <4>1 DEF FromFlash
    <3> QED BY <3>1, <3>2
  <2> QED BY <2>1, <1>0, <1>2 DEF BlobMeant, Meant
<1> QED BY <1>1, <1>2

LEMMA FlashNamed ==
  ASSUME StoreTypes, NEW s \in Slots
  PROVE  FromFlash[s].named
<1>1. \A t \in Slots : LegacyConfig(t).named
  BY DefaultIsConfig, SlotFacts DEF StoreTypes, LegacyConfig, Default, Config
<1>2. CASE Valid
  BY <1>2, SanitizeFacts DEF FromFlash, Valid, StoreTypes
<1>3. CASE ~Valid
  BY <1>1, <1>3, DefaultIsConfig DEF FromFlash, Valid, Migrated, StoreTypes
<1> QED BY <1>2, <1>3

LEMMA FieldsInitially == Init => FieldsInv
<1> SUFFICES ASSUME Init PROVE FieldsInv
  OBVIOUS
<1>1. ram \in [Slots -> Config] /\ blob \in [Slots -> Config]
  BY FirstConfigs
<1>2. \A s \in Slots : LegacyConfig(s) \in Config
  BY DefaultIsConfig, SlotFacts DEF Init, LegacyConfig, Default, Config
<1>3. legit \in [Slots -> SUBSET Config]
  BY <1>1, <1>2, SanitizeFacts DEF Init
<1>4. StoreTypes
  BY <1>1, <1>3 DEF Init, StoreTypes
<1>5. JobTypes /\ Snapshot /\ \A w \in Writers : Idle(w)
  <2>1. 1 \in Slots
    BY StoreAssumption DEF Slots
  <2> QED BY <2>1 DEF Init, JobTypes, Snapshot, NoJob, Idle
<1>6. FieldsMeant
  <2>1. ASSUME NEW s \in Slots, Valid PROVE Meant(Sanitize(blob[s]), s)
    <3>1. legit[s] = {Sanitize(blob[s])} /\ Sanitize(blob[s]).named
      BY <2>1, <1>1, SanitizeFacts DEF Init
    <3> QED BY <3>1 DEF Meant
  <2>2. \A s \in Slots : ~Valid => LegacyConfig(s) \in legit[s]
    BY DEF Init
  <2> QED BY <2>1, <2>2 DEF Init, FieldsMeant, BlobMeant
<1> QED BY <1>4, <1>5, <1>6 DEF FieldsInv, AskedBy, DoneBy

(* What a step of a call does to the jobs: only w's place and slot move. *)
LEMMA FieldsStepJob ==
  ASSUME JobTypes, NEW w \in Writers, NEW from, NEW to, NEW slot,
         Step(w, from, to, slot)
  PROVE  /\ job[w].at = from
         /\ job' = [v \in Writers |-> job'[v]]
         /\ job'[w] = [at |-> to, slot |-> slot, req |-> job[w].req]
         /\ \A v \in Writers \ {w} : job'[v] = job[v]
         /\ UNCHANGED <<loaded, kind, alone, test, backup>>
<1>1. job'[w] = [job[w] EXCEPT !.at = to, !.slot = slot]
  BY DEF JobTypes, Step
<1> QED BY <1>1 DEF JobTypes, Step, tests

(* What is left to show of a step of w that is under way and goes on: the     *)
(* others are where they were, and w is not alone if one of them is in a call. *)
LEMMA FieldsGoOn ==
  ASSUME FieldsInv, NEW w \in Writers, NEW to, NEW slot, ~Idle(w),
         job' = [v \in Writers |-> job'[v]],
         job'[w] = [at |-> to, slot |-> slot, req |-> job[w].req],
         \A v \in Writers \ {w} : job'[v] = job[v],
         UNCHANGED <<loaded, kind, alone, test, backup>>,
         to \in {"idle", "save"} \cup Copying \cup Saved, slot \in Slots,
         to \in Copying => slot \in DOMAIN job[w].req,
         StoreTypes', FieldsMeant',
         \A s \in Slots : legit[s] \subseteq legit'[s]
                            \/ \A v \in Writers \ {w} : Idle(v),
         to # "idle" => \A s \in Slots : legit[s] \subseteq legit'[s],
         to # "idle" => DoneBy(w)'
  PROVE  FieldsInv'
<1>1. JobTypes'
  BY DEF FieldsInv, JobTypes
<1>2. Snapshot'
  BY DEF FieldsInv, Snapshot
<1>3. ASSUME NEW v \in Writers, v # w PROVE AskedBy(v)' /\ DoneBy(v)'
  <2>1. job'[v] = job[v] /\ (Idle(v))' = Idle(v) /\ AskedBy(v) /\ DoneBy(v)
    BY <1>3 DEF FieldsInv, Idle
  <2>2. ~Idle(v) => ~alone[v] /\ \A s \in Slots : legit[s] \subseteq legit'[s]
    BY <2>1, <1>3 DEF DoneBy
  <2>3. AskedBy(v)'
    BY <2>1, <2>2 DEF AskedBy
  <2>4. DoneBy(v)'
    BY <2>1, <2>2 DEF DoneBy
  <2> QED BY <2>3, <2>4
<1>4. AskedBy(w)'
  <2>1. CASE to = "idle"
    BY <2>1 DEF AskedBy, Idle
  <2>2. CASE to # "idle"
    <3>1. AskedBy(w)
      BY DEF FieldsInv
    <3> QED BY <2>2, <3>1 DEF AskedBy
  <2> QED BY <2>1, <2>2
<1>5. DoneBy(w)'
  <2>1. CASE to = "idle"
    BY <2>1 DEF DoneBy, Idle
  <2> QED BY <2>1
<1> QED BY <1>1, <1>2, <1>3, <1>4, <1>5 DEF FieldsInv

LEMMA FieldsCopyFlags ==
  ASSUME FieldsInv, NEW w \in Writers, CopyFlags(w) PROVE FieldsInv'
<1> DEFINE k == job[w].slot
           r == job[w].req
<1> USE DEF FieldsInv
<1>1. Step(w, "flags", "rest", k)
  BY DEF CopyFlags
<1>2. /\ job[w].at = "flags" /\ ~Idle(w) /\ job' = [v \in Writers |-> job'[v]]
      /\ job'[w] = [at |-> "rest", slot |-> k, req |-> r]
      /\ \A v \in Writers \ {w} : job'[v] = job[v]
      /\ UNCHANGED <<loaded, kind, alone, test, backup>>
  BY <1>1, FieldsStepJob DEF Idle
<1>3. /\ UNCHANGED <<blob, legacy, legit>>
      /\ ram' = [ram EXCEPT ![k].on = r[k].on, ![k].tls = r[k].tls]
  BY DEF CopyFlags
<1>4. /\ loaded /\ k \in Slots /\ k \in DOMAIN r /\ r[k] \in Config
      /\ r[k] \in legit[k] /\ DOMAIN r \subseteq Slots
  BY <1>2 DEF AskedBy, JobTypes, Copying
<1>5. /\ ram' \in [Slots -> Config]
      /\ \A s \in Slots \ {k} : ram'[s] = ram[s]
      /\ ram'[k].on = r[k].on /\ ram'[k].tls = r[k].tls
      /\ ram'[k].host = ram[k].host /\ ram'[k].named = ram[k].named
  BY <1>3, <1>4 DEF StoreTypes, Config
<1>6. StoreTypes'
  BY <1>2, <1>3, <1>5 DEF StoreTypes
<1>7. FieldsMeant'
  <2>1. \A s \in Slots : Meant(ram[s], s) /\ Valid
    BY <1>4 DEF FieldsMeant, BlobMeant
  <2>2. ASSUME NEW s \in Slots PROVE Meant(ram[s], s)'
    <3>1. CASE s = k
      <4>1. Meant(ram[k], k)
        BY <2>1, <1>4
      <4>2. \E a \in legit'[k] : ram'[k].on = a.on
        BY <1>3, <1>4, <1>5
      <4> HIDE DEF k
      <4> QED BY <3>1, <4>1, <4>2, <1>3, <1>5 DEF Meant
    <3>2. CASE s # k
      BY <2>1, <3>2, <1>3, <1>5 DEF Meant
    <3> QED BY <3>1, <3>2
  <2> QED BY <2>1, <2>2, <1>2, <1>3 DEF FieldsMeant, BlobMeant, Valid, Meant, LegacyConfig
<1>8. DoneBy(w)'
  <2> SUFFICES ASSUME alone[w], \A v \in Writers \ {w} : Idle(v)
               PROVE  DoneBy(w)'
    BY <1>2 DEF DoneBy
  <2>1. \A s \in DOMAIN r : s < k => ram'[s] = Sanitize(r[s])
    <3>1. \A s \in DOMAIN r : s < k => ram[s] = Sanitize(r[s])
      BY <1>2 DEF DoneBy
    <3>2. \A s \in DOMAIN r : s < k => s \in Slots \ {k}
      BY <1>4, SlotFacts
    <3> QED BY <1>5, <3>1, <3>2
  <2>2. \A v \in Writers \ {w} : (Idle(v))'
    BY <1>2 DEF Idle
  <2>3. ram'[k].on = r[k].on /\ ram'[k].tls = r[k].tls
    BY <1>5
  <2>4. job'[w] = [at |-> "rest", slot |-> k, req |-> r]
    BY <1>2
  <2> HIDE DEF k, r
  <2> QED BY <2>1, <2>2, <2>3, <2>4 DEF DoneBy, Copying, Saved
<1> QED BY <1>2, <1>3, <1>4, <1>6, <1>7, <1>8, FieldsGoOn DEF Copying

LEMMA FieldsCopyRest ==
  ASSUME FieldsInv, NEW w \in Writers, CopyRest(w) PROVE FieldsInv'
<1> DEFINE k == job[w].slot
           r == job[w].req
<1> USE DEF FieldsInv
<1>1. Step(w, "rest", "settle", k)
  BY DEF CopyRest
<1>2. /\ job[w].at = "rest" /\ ~Idle(w) /\ job' = [v \in Writers |-> job'[v]]
      /\ job'[w] = [at |-> "settle", slot |-> k, req |-> r]
      /\ \A v \in Writers \ {w} : job'[v] = job[v]
      /\ UNCHANGED <<loaded, kind, alone, test, backup>>
  BY <1>1, FieldsStepJob DEF Idle
<1>3. /\ UNCHANGED <<blob, legacy, legit>>
      /\ ram' = [ram EXCEPT ![k].host = r[k].host, ![k].named = r[k].named]
  BY DEF CopyRest
<1>4. /\ loaded /\ k \in Slots /\ k \in DOMAIN r /\ r[k] \in Config
      /\ r[k] \in legit[k] /\ Sanitize(r[k]) \in legit[k] /\ DOMAIN r \subseteq Slots
  BY <1>2 DEF AskedBy, JobTypes, Copying
<1>5. /\ ram' \in [Slots -> Config]
      /\ \A s \in Slots \ {k} : ram'[s] = ram[s]
      /\ ram'[k] = [ram[k] EXCEPT !.host = r[k].host, !.named = r[k].named]
      /\ ram'[k].on = ram[k].on /\ ram'[k].host = r[k].host
      /\ ram'[k].named = r[k].named
  BY <1>3, <1>4 DEF StoreTypes, Config
<1>6. StoreTypes'
  BY <1>2, <1>3, <1>5 DEF StoreTypes
<1>7. FieldsMeant'
  <2>1. \A s \in Slots : Meant(ram[s], s) /\ Valid
    BY <1>4 DEF FieldsMeant, BlobMeant
  <2>2. ASSUME NEW s \in Slots PROVE Meant(ram[s], s)'
    <3>1. CASE s = k
      <4>1. Meant(ram[k], k)
        BY <2>1, <1>4
      <4>2. \E b \in legit'[k] : ram'[k].host = b.host
        BY <1>3, <1>4, <1>5
      <4>3. ram'[k].named \/ Default \in legit'[k]
        BY <1>3, <1>4, <1>5 DEF Sanitize
      <4> HIDE DEF k
      <4> QED BY <3>1, <4>1, <4>2, <4>3, <1>3, <1>5 DEF Meant
    <3>2. CASE s # k
      BY <2>1, <3>2, <1>3, <1>5 DEF Meant
    <3> QED BY <3>1, <3>2
  <2> QED BY <2>1, <2>2, <1>2, <1>3 DEF FieldsMeant, BlobMeant, Valid, Meant, LegacyConfig
<1>8. DoneBy(w)'
  <2> SUFFICES ASSUME alone[w], \A v \in Writers \ {w} : Idle(v)
               PROVE  DoneBy(w)'
    BY <1>2 DEF DoneBy
  <2>1. \A s \in DOMAIN r : s < k => ram'[s] = Sanitize(r[s])
    <3>1. \A s \in DOMAIN r : s < k => ram[s] = Sanitize(r[s])
      BY <1>2 DEF DoneBy
    <3>2. \A s \in DOMAIN r : s < k => s \in Slots \ {k}
      BY <1>4, SlotFacts
    <3> QED BY <1>5, <3>1, <3>2
  <2>2. \A v \in Writers \ {w} : (Idle(v))'
    BY <1>2 DEF Idle
  <2>3. ram'[k] = r[k]
    <3>1. ram[k].on = r[k].on /\ ram[k].tls = r[k].tls /\ ram[k] \in Config
      BY <1>2, <1>4 DEF DoneBy, StoreTypes
    <3>2. ASSUME NEW c \in Config, NEW d \in Config, c.on = d.on, c.tls = d.tls
          PROVE  [c EXCEPT !.host = d.host, !.named = d.named] = d
      BY <3>2 DEF Config
    <3> HIDE DEF k, r
    <3> QED BY <3>1, <3>2, <1>4, <1>5
  <2> QED BY <1>2, <2>1, <2>2, <2>3 DEF DoneBy, Copying, Saved
<1> QED BY <1>2, <1>3, <1>4, <1>6, <1>7, <1>8, FieldsGoOn DEF Copying

LEMMA FieldsSettle ==
  ASSUME FieldsInv, NEW w \in Writers, Settle(w) PROVE FieldsInv'
<1> DEFINE k == job[w].slot
           r == job[w].req
           more == k + 1 \in DOMAIN r
           to == IF more THEN "flags" ELSE "save"
           next == IF more THEN k + 1 ELSE 1
<1> USE DEF FieldsInv
<1>1. Step(w, "settle", to, next)
  BY DEF Settle
<1>2. /\ job[w].at = "settle" /\ ~Idle(w) /\ job' = [v \in Writers |-> job'[v]]
      /\ job'[w] = [at |-> to, slot |-> next, req |-> r]
      /\ \A v \in Writers \ {w} : job'[v] = job[v]
      /\ UNCHANGED <<loaded, kind, alone, test, backup>>
  BY <1>1, FieldsStepJob DEF Idle
<1>3. /\ UNCHANGED <<blob, legacy, legit>>
      /\ ram' = [ram EXCEPT ![k] = Sanitize(@)]
  BY DEF Settle
<1>4. /\ loaded /\ k \in Slots /\ k \in DOMAIN r /\ r[k] \in Config
      /\ DOMAIN r \subseteq Slots /\ ram[k] \in Config
      /\ \A s, t \in DOMAIN r : s < t => s + 1 \in DOMAIN r
  BY <1>2 DEF AskedBy, JobTypes, Copying, StoreTypes
<1>5. /\ ram' \in [Slots -> Config]
      /\ \A s \in Slots \ {k} : ram'[s] = ram[s]
      /\ ram'[k] = Sanitize(ram[k])
  BY <1>3, <1>4, SanitizeFacts DEF StoreTypes
<1>6. StoreTypes'
  BY <1>2, <1>3, <1>5 DEF StoreTypes
<1>7. FieldsMeant'
  <2>1. \A s \in Slots : Meant(ram[s], s) /\ Valid
    BY <1>4 DEF FieldsMeant, BlobMeant
  <2>2. ASSUME NEW s \in Slots PROVE Meant(ram[s], s)'
    <3>1. Meant(ram'[s], s)
      BY <2>1, <1>4, <1>5, SanitizedIsMeant
    <3> QED BY <3>1, <1>3 DEF Meant
  <2> QED BY <2>1, <2>2, <1>2, <1>3 DEF FieldsMeant, BlobMeant, Valid, Meant, LegacyConfig
<1>8. DoneBy(w)'
  <2> SUFFICES ASSUME alone[w], \A v \in Writers \ {w} : Idle(v)
               PROVE  DoneBy(w)'
    BY <1>2 DEF DoneBy
  <2>1. ram'[k] = Sanitize(r[k])
    BY <1>2, <1>5 DEF DoneBy
  <2>2. \A s \in DOMAIN r : s < k => ram'[s] = Sanitize(r[s])
    BY <1>2, <1>4, <1>5, SlotFacts DEF DoneBy, Copying
  <2>3. ASSUME NEW s \in DOMAIN r, to \notin Copying \/ s < next
        PROVE  ram'[s] = Sanitize(r[s])
    <3>1. s \in Int /\ k \in Int
      BY <1>4, SlotFacts
    <3>2. CASE s > k
      <4>1. more
        BY <3>1, <3>2, <1>4
      <4>2. s < k + 1
        BY <2>3, <4>1 DEF Copying
      <4> QED BY <3>1, <3>2, <4>2
    <3> QED BY <3>1, <3>2, <2>1, <2>2
  <2>4. \A v \in Writers \ {w} : (Idle(v))'
    BY <1>2 DEF Idle
  <2>5. to \in {"flags", "save"}
    OBVIOUS
  <2> HIDE DEF to, next
  <2> QED BY <1>2, <2>3, <2>4, <2>5 DEF DoneBy, Saved
<1>9. next \in Slots /\ (to \in Copying => next \in DOMAIN r) /\ to \in {"flags", "save"}
  BY <1>4, StoreAssumption DEF Copying, Slots
<1> HIDE DEF to, next
<1> QED BY <1>2, <1>3, <1>6, <1>7, <1>8, <1>9, FieldsGoOn DEF Copying

LEMMA FieldsSave ==
  ASSUME FieldsInv, NEW w \in Writers, Save(w) PROVE FieldsInv'
<1> USE DEF FieldsInv
<1>1. Step(w, "save", "keyOn", 1) /\ blob' = ram /\ UNCHANGED <<ram, legacy, legit>>
  BY DEF Save
<1>2. /\ job[w].at = "save" /\ ~Idle(w) /\ job' = [v \in Writers |-> job'[v]]
      /\ job'[w] = [at |-> "keyOn", slot |-> 1, req |-> job[w].req]
      /\ \A v \in Writers \ {w} : job'[v] = job[v]
      /\ UNCHANGED <<loaded, kind, alone, test, backup>>
  BY <1>1, FieldsStepJob DEF Idle
<1>3. StoreTypes'
  BY <1>1, <1>2 DEF StoreTypes
<1>4. FieldsMeant'
  <2>1. loaded /\ Valid /\ \A s \in Slots : Meant(ram[s], s) /\ ram[s] \in Config
    BY <1>2 DEF AskedBy, FieldsMeant, BlobMeant, StoreTypes
  <2>2. \A s \in Slots : Meant(Sanitize(ram[s]), s)
    BY <2>1, SanitizedIsMeant
  <2> QED BY <1>1, <1>2, <2>1, <2>2 DEF FieldsMeant, BlobMeant, Valid, Meant
<1>5. DoneBy(w)'
  <2>1. \A v \in Writers \ {w} : (Idle(v))' = Idle(v)
    BY <1>2 DEF Idle
  <2> QED BY <1>1, <1>2, <2>1 DEF DoneBy, Copying, Saved
<1>6. 1 \in Slots
  BY StoreAssumption DEF Slots
<1> QED BY <1>1, <1>2, <1>3, <1>4, <1>5, <1>6, FieldsGoOn DEF Copying, Saved

LEMMA FieldsKeys ==
  ASSUME FieldsInv, NEW w \in Writers, SetKeyOn(w) \/ SetKeyHost(w)
  PROVE  FieldsInv'
<1> USE DEF FieldsInv
<1>1. PICK to \in Saved, slot \in Slots :
        Step(w, "keyOn", to, slot) \/ Step(w, "keyHost", to, slot)
  <2>1. CASE SetKeyOn(w)
    BY <2>1 DEF SetKeyOn, Saved, JobTypes
  <2>2. CASE SetKeyHost(w) /\ job[w].slot + 1 \in LegacySlots
    BY <2>2, SlotFacts DEF SetKeyHost, Saved
  <2>3. CASE SetKeyHost(w) /\ job[w].slot + 1 \notin LegacySlots
    <3>1. 1 \in Slots
      BY StoreAssumption DEF Slots
    <3> QED BY <2>3, <3>1 DEF SetKeyHost, Saved
  <2> QED BY <2>1, <2>2, <2>3
<1>2. /\ job[w].at \in Saved /\ ~Idle(w) /\ job' = [v \in Writers |-> job'[v]]
      /\ job'[w] = [at |-> to, slot |-> slot, req |-> job[w].req]
      /\ \A v \in Writers \ {w} : job'[v] = job[v]
      /\ UNCHANGED <<loaded, kind, alone, test, backup>>
  BY <1>1, FieldsStepJob DEF Idle, Saved
<1>3. /\ UNCHANGED <<ram, blob, legit>>
      /\ legacy' \in [LegacySlots -> [on: BOOLEAN, host: Hosts]]
  <2>1. ram[job[w].slot].on \in BOOLEAN /\ ram[job[w].slot].host \in Hosts
    BY DEF StoreTypes, JobTypes, Config
  <2> QED BY <2>1 DEF SetKeyOn, SetKeyHost, StoreTypes
<1>4. StoreTypes'
  BY <1>2, <1>3 DEF StoreTypes
<1>5. FieldsMeant'
  <2>1. loaded /\ Valid
    BY <1>2 DEF AskedBy, FieldsMeant, BlobMeant
  <2> QED BY <1>2, <1>3, <2>1 DEF FieldsMeant, BlobMeant, Valid, Meant
<1>6. DoneBy(w)'
  <2>1. \A v \in Writers \ {w} : (Idle(v))' = Idle(v)
    BY <1>2 DEF Idle
  <2> QED BY <1>2, <1>3, <2>1 DEF DoneBy, Copying, Saved
<1> QED BY <1>2, <1>3, <1>4, <1>5, <1>6, FieldsGoOn DEF Copying, Saved

(* The only step after which less is meant than before: the writer was alone, *)
(* and all there is of its slots is what it stored.                           *)
LEMMA FieldsCommit ==
  ASSUME FieldsInv, NEW w \in Writers, Commit(w) PROVE FieldsInv'
<1> DEFINE r == job[w].req
<1> USE DEF FieldsInv
<1>1. /\ Step(w, "commit", "idle", 1) /\ UNCHANGED <<ram, blob, legacy>>
      /\ legit' = [s \in Slots |-> IF alone[w] /\ s \in DOMAIN r
                                     THEN {Sanitize(r[s])} ELSE legit[s]]
  BY DEF Commit
<1>2. /\ job[w].at = "commit" /\ ~Idle(w) /\ job' = [v \in Writers |-> job'[v]]
      /\ job'[w] = [at |-> "idle", slot |-> 1, req |-> r]
      /\ \A v \in Writers \ {w} : job'[v] = job[v]
      /\ UNCHANGED <<loaded, kind, alone, test, backup>>
  BY <1>1, FieldsStepJob DEF Idle
<1>3. /\ loaded /\ Valid /\ \A s \in DOMAIN r : r[s] \in Config
  BY <1>2 DEF AskedBy, FieldsMeant, BlobMeant
<1>4. StoreTypes'
  BY <1>1, <1>2, <1>3, SanitizeFacts DEF StoreTypes
<1>5. FieldsMeant'
  <2>1. ASSUME NEW s \in Slots, alone[w], s \in DOMAIN r
        PROVE  Meant(ram[s], s)' /\ Meant(Sanitize(blob[s]), s)'
    <3>1. ram[s] = Sanitize(r[s]) /\ blob = ram
      BY <2>1, <1>2 DEF DoneBy, Copying, Saved
    <3>2. ram[s].named /\ Sanitize(blob[s]) = ram[s]
      BY <3>1, <2>1, <1>3, SanitizeFacts
    <3>3. legit'[s] = {ram[s]}
      BY <2>1, <3>1, <1>1
    <3> QED BY <3>2, <3>3, <1>1 DEF Meant, Sanitize
  <2>2. ASSUME NEW s \in Slots, ~(alone[w] /\ s \in DOMAIN r)
        PROVE  Meant(ram[s], s)' /\ Meant(Sanitize(blob[s]), s)'
    <3>1. legit'[s] = legit[s] /\ Meant(ram[s], s) /\ Meant(Sanitize(blob[s]), s)
      BY <2>2, <1>1, <1>3 DEF FieldsMeant, BlobMeant
    <3> QED BY <3>1, <1>1 DEF Meant, Sanitize
  <2> QED BY <2>1, <2>2, <1>2, <1>3 DEF FieldsMeant, BlobMeant, Valid
<1>6. \A s \in Slots : legit[s] \subseteq legit'[s]
                         \/ \A v \in Writers \ {w} : Idle(v)
  BY <1>1, <1>2 DEF DoneBy
<1>7. 1 \in Slots
  BY StoreAssumption DEF Slots
<1> QED BY <1>2, <1>4, <1>5, <1>6, <1>7, FieldsGoOn DEF Copying

LEMMA FieldsFails ==
  ASSUME FieldsInv, NEW w \in Writers, Fails(w) PROVE FieldsInv'
<1> USE DEF FieldsInv
<1>1. /\ job[w].at \in {"save"} \cup Saved /\ job' = [job EXCEPT ![w].at = "idle"]
      /\ UNCHANGED <<ram, loaded, kind, legacy, legit, alone, test, backup>>
      /\ blob' \in {blob, ram}
  <2>1. job[w].at # "saveRead"
    BY DEF JobTypes, Copying, Saved
  <2> QED BY <2>1 DEF Fails, tests, Saved
<1>2. /\ ~Idle(w) /\ job' = [v \in Writers |-> job'[v]]
      /\ job'[w] = [at |-> "idle", slot |-> job[w].slot, req |-> job[w].req]
      /\ \A v \in Writers \ {w} : job'[v] = job[v]
  <2>1. job'[w] = [job[w] EXCEPT !.at = "idle"]
    BY <1>1 DEF JobTypes
  <2> QED BY <2>1, <1>1 DEF JobTypes, Idle, Saved
<1>3. StoreTypes'
  BY <1>1 DEF StoreTypes
<1>4. FieldsMeant'
  <2>1. loaded /\ Valid /\ \A s \in Slots : Meant(ram[s], s) /\ ram[s] \in Config
    BY <1>2 DEF AskedBy, FieldsMeant, BlobMeant, StoreTypes
  <2>2. \A s \in Slots : Meant(Sanitize(ram[s]), s)
    BY <2>1, SanitizedIsMeant
  <2> QED BY <1>1, <2>1, <2>2 DEF FieldsMeant, BlobMeant, Valid, Meant
<1>5. job[w].slot \in Slots
  BY DEF JobTypes
<1> QED BY <1>1, <1>2, <1>3, <1>4, <1>5, FieldsGoOn DEF Copying

LEMMA FieldsLoad ==
  ASSUME FieldsInv, Load \/ LoadFails PROVE FieldsInv'
<1> USE DEF FieldsInv
<1>0. /\ FromFlash \in [Slots -> Config] /\ legit \in [Slots -> SUBSET Config]
      /\ \A s \in Slots : /\ Meant(FromFlash[s], s) /\ FromFlash[s].named
                          /\ ~Valid => FromFlash[s] \in legit[s]
  <2>1. 1 \in Slots
    BY StoreAssumption DEF Slots
  <2> QED BY <2>1, FlashMeant, FlashNamed DEF FieldsMeant, StoreTypes
<1>1. ~loaded /\ UNCHANGED <<legacy, job, alone, tests>>
  BY DEF Load, LoadFails, flash
<1>2. \A w \in Writers : Idle(w) /\ (Idle(w))'
  BY <1>1 DEF AskedBy, Idle
<1>3. JobTypes' /\ Snapshot' /\ \A w \in Writers : AskedBy(w)' /\ DoneBy(w)'
  BY <1>1, <1>2 DEF JobTypes, Snapshot, tests, AskedBy, DoneBy
<1>4. CASE Load
  <2>1. /\ ram' \in [Slots -> Config] /\ legit' \in [Slots -> SUBSET Config]
        /\ ~Valid => blob' = ram'
        /\ Valid => ram' = FromFlash /\ blob' = blob /\ legit' = legit
        /\ \A s \in Slots : /\ ram'[s].named
                            /\ ~Valid => ram'[s] \in legit'[s]
    BY <1>0, <1>4, LoadFacts
  <2>2. loaded' = TRUE /\ kind' = "valid"
    BY <1>4 DEF Load
  <2>3. StoreTypes'
    BY <1>1, <2>1, <2>2 DEF StoreTypes
  <2>4. \A s \in Slots : Meant(ram[s], s)' /\ Meant(Sanitize(blob[s]), s)'
    <3>1. CASE Valid
      <4>1. \A s \in Slots : Meant(Sanitize(blob[s]), s)
        BY <3>1 DEF FieldsMeant, BlobMeant
      <4> QED BY <1>0, <2>1, <3>1, <4>1 DEF Meant, Sanitize
    <3>2. CASE ~Valid
      <4>1. \A s \in Slots : ram'[s] \in legit'[s] /\ ram'[s].named
        BY <2>1, <3>2
      <4>2. \A s \in Slots : Sanitize(blob[s])' = ram'[s]
        BY <2>1, <3>2, <4>1 DEF Sanitize
      <4> QED BY <4>1, <4>2 DEF Meant
    <3> QED BY <3>1, <3>2
  <2>5. FieldsMeant'
    BY <2>2, <2>4 DEF FieldsMeant, BlobMeant, Valid
  <2> QED BY <1>3, <2>3, <2>5
<1>5. CASE LoadFails
  <2>1. ram' \in [Slots -> Config]
    BY <1>0, <1>5, LoadFailsFacts DEF StoreTypes
  <2>2. UNCHANGED <<loaded, blob, kind, legit>>
    BY <1>5 DEF LoadFails, flash
  <2>3. StoreTypes'
    BY <1>1, <2>1, <2>2 DEF StoreTypes
  <2>4. FieldsMeant'
    BY <1>1, <2>2 DEF FieldsMeant, BlobMeant, Valid, Meant, LegacyConfig, Sanitize
  <2> QED BY <1>3, <2>3, <2>4
<1> QED BY <1>4, <1>5

(* A call begins: what is meant grows, and a writer in the middle of a call *)
(* is no longer alone.                                                      *)
LEMMA FieldsBeginSet ==
  ASSUME FieldsInv, NEW w \in Writers, NEW first \in Slots, NEW req,
         BeginSet(w, first, req), Snapshot',
         DOMAIN req \subseteq Slots, first \in DOMAIN req,
         \A s \in DOMAIN req : req[s] \in Config,
         \A s, t \in DOMAIN req : s < t => s + 1 \in DOMAIN req,
         \A s \in DOMAIN req : s >= first
  PROVE  FieldsInv'
<1> USE DEF FieldsInv
<1>1. /\ loaded /\ Idle(w) /\ UNCHANGED <<ram, loaded, blob, kind, legacy>>
      /\ job' = [job EXCEPT ![w] = [at |-> "flags", slot |-> first, req |-> req]]
      /\ alone' = [v \in Writers |-> IF v = w THEN \A u \in Writers \ {w} : Idle(u)
                                              ELSE alone[v] /\ Idle(v)]
  BY DEF BeginSet, Begin
<1>2. /\ job' = [v \in Writers |-> job'[v]]
      /\ job'[w] = [at |-> "flags", slot |-> first, req |-> req]
      /\ \A v \in Writers \ {w} : job'[v] = job[v]
  BY <1>1 DEF JobTypes
<1>3. \A s \in Slots : /\ legit[s] \subseteq legit'[s]
                       /\ s \in DOMAIN req =>
                            req[s] \in legit'[s] /\ Sanitize(req[s]) \in legit'[s]
  BY DEF BeginSet
<1>4. legit' \in [Slots -> SUBSET Config]
  BY SanitizeFacts DEF BeginSet, StoreTypes
<1>5. StoreTypes'
  BY <1>1, <1>4 DEF StoreTypes
<1>6. JobTypes'
  <2>1. alone' \in [Writers -> BOOLEAN]
    BY <1>1
  <2> QED BY <1>2, <2>1 DEF JobTypes, Copying
<1>7. FieldsMeant'
  <2>1. Valid /\ Valid' /\ loaded'
    BY <1>1 DEF FieldsMeant, BlobMeant, Valid
  <2>2. ASSUME NEW s \in Slots PROVE Meant(ram[s], s)' /\ Meant(Sanitize(blob[s]), s)'
    <3>1. Meant(ram[s], s) /\ Meant(Sanitize(blob[s]), s)
      BY <1>1, <2>1 DEF FieldsMeant, BlobMeant
    <3> QED BY <3>1, <1>1, <1>3, MeantGrows DEF Meant, Sanitize
  <2> QED BY <2>1, <2>2 DEF FieldsMeant, BlobMeant
<1>8. AskedBy(w)' /\ DoneBy(w)'
  <2>1. AskedBy(w)'
    BY <1>1, <1>2, <1>3 DEF AskedBy
  <2>2. alone'[w] => \A v \in Writers \ {w} : (Idle(v))'
    BY <1>1, <1>2 DEF Idle
  <2>3. \A s \in DOMAIN req : ~(s < first)
    BY SlotFacts
  <2>4. DoneBy(w)'
    BY <1>2, <2>2, <2>3 DEF DoneBy, Copying, Saved
  <2> QED BY <2>1, <2>4
<1>9. ASSUME NEW v \in Writers, v # w PROVE AskedBy(v)' /\ DoneBy(v)'
  <2>1. job'[v] = job[v] /\ (Idle(v))' = Idle(v) /\ AskedBy(v)
    BY <1>2, <1>9 DEF Idle
  <2>2. AskedBy(v)'
    BY <1>1, <1>3, <2>1 DEF AskedBy
  <2>3. alone'[v] => Idle(v)
    BY <1>1, <1>9
  <2> QED BY <2>1, <2>2, <2>3 DEF DoneBy
<1> QED BY <1>5, <1>6, <1>7, <1>8, <1>9

LEMMA FieldsBeginWhole ==
  ASSUME FieldsInv, NEW w \in Writers, NEW req \in [Slots -> Config],
         BeginSet(w, 1, req), Snapshot'
  PROVE  FieldsInv'
<1>1. 1 \in Slots /\ DOMAIN req = Slots
  BY StoreAssumption DEF Slots
<1>2. \A s, t \in Slots : s < t => s + 1 \in Slots
  BY StoreAssumption DEF Slots
<1>3. \A s \in Slots : s >= 1
  BY DEF Slots
<1> QED BY <1>1, <1>2, <1>3, FieldsBeginSet

(* A call of the HTTP task's or the self-test's begins. *)
LEMMA FieldsBegin ==
  ASSUME FieldsInv,
         \/ \E req \in Posts : PostSlots(req)
         \/ \E s \in Enables, on \in BOOLEAN : SlotEnable(s, on)
         \/ \E req \in Tests : TestStores(req)
         \/ TestRestores
  PROVE  FieldsInv'
<1>1. ASSUME NEW req \in Posts, PostSlots(req) PROVE FieldsInv'
  <2>1. Web \in Writers /\ BeginSet(Web, 1, req) /\ UNCHANGED tests
    BY <1>1 DEF PostSlots, BeginSet, Begin
  <2>2. Snapshot' /\ req \in [Slots -> Config]
    BY <2>1, StoreAssumption DEF FieldsInv, Snapshot, tests
  <2> QED BY <2>1, <2>2, FieldsBeginWhole
<1>2. ASSUME NEW s \in Enables, NEW on \in BOOLEAN, SlotEnable(s, on)
      PROVE  FieldsInv'
  <2> DEFINE req == [t \in {s} |-> [ram[t] EXCEPT !.on = on]]
  <2>1. s \in Slots /\ s \in Int
    BY StoreAssumption, SlotFacts
  <2>2. DOMAIN req = {s} /\ \A t \in DOMAIN req : req[t] \in Config
    BY <2>1 DEF FieldsInv, StoreTypes, Config
  <2>3. Web \in Writers /\ BeginSet(Web, s, req) /\ UNCHANGED tests
    BY <1>2 DEF SlotEnable, BeginSet, Begin
  <2>4. Snapshot'
    BY <2>3 DEF FieldsInv, Snapshot, tests
  <2>5. \A t, u \in DOMAIN req : ~(t < u) /\ t >= s
    BY <2>1, <2>2
  <2> HIDE DEF req
  <2> QED BY <2>1, <2>2, <2>3, <2>4, <2>5, FieldsBeginSet
<1>3. ASSUME NEW req \in Tests, TestStores(req) PROVE FieldsInv'
  <2>1. Tester \in Writers /\ BeginSet(Tester, 1, req) /\ UNCHANGED tests
    BY <1>3 DEF TestStores, BeginSet, Begin
  <2>2. Snapshot' /\ req \in [Slots -> Config]
    BY <2>1, StoreAssumption DEF FieldsInv, Snapshot, tests
  <2> QED BY <2>1, <2>2, FieldsBeginWhole
<1>4. ASSUME TestRestores PROVE FieldsInv'
  <2>1. /\ Tester \in Writers /\ BeginSet(Tester, 1, backup)
        /\ test = "running" /\ test' = "restoring"
    BY <1>4 DEF TestRestores, BeginSet, Begin
  <2>2. Snapshot' /\ backup \in [Slots -> Config]
    BY <2>1 DEF FieldsInv, Snapshot
  <2> QED BY <2>1, <2>2, FieldsBeginWhole
<1> QED BY <1>1, <1>2, <1>3, <1>4

LEMMA SnapshotLength ==
  ASSUME Snapshot, test = "snapshot"
  PROVE  \E k \in 0..(NumSlots - 1) : /\ backup \in [1..k -> Config]
                                      /\ Cardinality(DOMAIN backup) = k
<1>1. PICK k \in 0..(NumSlots - 1) : backup \in [1..k -> Config]
  BY DEF Snapshot
<1>2. DOMAIN backup = 1..k /\ 1 \in Int /\ k \in Int
  BY <1>1, StoreAssumption
<1>3. Cardinality(1..k) = IF 1 > k THEN 0 ELSE k - 1 + 1
  BY <1>2, FS_Interval
<1>4. Cardinality(DOMAIN backup) = k
  BY <1>1, <1>2, <1>3, StoreAssumption
<1> QED BY <1>1, <1>4

(* The other steps of the self-test change nothing but its own variables. *)
LEMMA FieldsTest ==
  ASSUME FieldsInv, TestStarts \/ TestSnapshot \/ TestEnds
  PROVE  FieldsInv'
<1> USE DEF FieldsInv
<1>1. UNCHANGED <<ram, loaded, flash, job, legit, alone>>
  BY DEF TestStarts, TestSnapshot, TestEnds
<1>2. Snapshot'
  <2>1. CASE TestStarts
    <3>1. <<>> \in [1..0 -> Config] /\ 0 \in 0..(NumSlots - 1)
      BY StoreAssumption
    <3> QED BY <2>1, <3>1 DEF TestStarts, Snapshot
  <2>2. CASE TestSnapshot
    <3>1. PICK k \in 0..(NumSlots - 1) : /\ backup \in [1..k -> Config]
                                        /\ Cardinality(DOMAIN backup) = k
      BY <2>2, SnapshotLength DEF TestSnapshot
    <3>2. Cardinality(DOMAIN backup) = k
      BY <3>1
    <3>3. /\ backup' = [t \in 1..(k + 1) |-> IF t = k + 1 THEN ram[t] ELSE backup[t]]
          /\ test' = IF k + 1 = NumSlots THEN "running" ELSE "snapshot"
      BY <2>2, <3>2 DEF TestSnapshot
    <3>4. backup' \in [1..(k + 1) -> Config]
      <4>1. k + 1 \in Slots
        BY <3>1, StoreAssumption DEF Slots
      <4>2. ram[k + 1] \in Config
        BY <4>1 DEF StoreTypes
      <4>3. \A t \in 1..(k + 1) : t # k + 1 => t \in 1..k
        BY <3>1, StoreAssumption
      <4> QED BY <3>1, <3>3, <4>2, <4>3
    <3>5. k + 1 # NumSlots => k + 1 \in 0..(NumSlots - 1)
      BY <3>1, StoreAssumption
    <3>6. CASE k + 1 = NumSlots
      BY <3>3, <3>4, <3>6 DEF Snapshot, Slots
    <3>7. CASE k + 1 # NumSlots
      BY <3>3, <3>4, <3>5, <3>7 DEF Snapshot
    <3> QED BY <3>6, <3>7
  <2>3. CASE TestEnds
    BY <2>3 DEF TestEnds, Forget, Snapshot
  <2> QED BY <2>1, <2>2, <2>3
<1>3. StoreTypes' /\ JobTypes'
  BY <1>1 DEF StoreTypes, JobTypes, flash
<1>4. FieldsMeant'
  BY <1>1 DEF FieldsMeant, BlobMeant, Valid, Meant, Sanitize, LegacyConfig, flash
<1>5. \A w \in Writers : AskedBy(w)' /\ DoneBy(w)'
  BY <1>1 DEF AskedBy, DoneBy, Idle, flash
<1> QED BY <1>2, <1>3, <1>4, <1>5

LEMMA FieldsReset ==
  ASSUME FieldsInv, Reset PROVE FieldsInv'
<1> USE DEF FieldsInv
<1>1. /\ loaded' = FALSE /\ UNCHANGED <<blob, kind, legacy, legit>> /\ test' = "off"
      /\ ram' = [s \in Slots |-> [Default EXCEPT !.named = FALSE]]
      /\ job' = [w \in Writers |-> NoJob] /\ alone' = [w \in Writers |-> TRUE]
  BY DEF Reset, flash, Forget
<1>2. StoreTypes'
  <2>1. ram' \in [Slots -> Config]
    BY <1>1, StoreAssumption DEF Default, Config
  <2> QED BY <1>1, <2>1 DEF StoreTypes
<1>3. JobTypes' /\ Snapshot' /\ \A w \in Writers : (Idle(w))'
  <2>1. 1 \in Slots
    BY StoreAssumption DEF Slots
  <2> QED BY <1>1, <2>1 DEF JobTypes, Snapshot, NoJob, Idle
<1>4. FieldsMeant'
  BY <1>1 DEF FieldsMeant, BlobMeant, Valid, Meant, Sanitize, LegacyConfig
<1> QED BY <1>2, <1>3, <1>4 DEF AskedBy, DoneBy

LEMMA FieldsStep ==
  ASSUME FieldsInv, StoreSlots(Posts, Enables) \/ Failure \/ RunSelfTest \/ UNCHANGED vars
  PROVE  FieldsInv'
<1>1. CASE UNCHANGED vars
  <2>1. UNCHANGED <<ram, loaded, blob, kind, legacy, job, legit, alone, test, backup>>
    BY <1>1 DEF vars, flash, tests
  <2>2. StoreTypes' /\ JobTypes' /\ Snapshot'
    BY <2>1 DEF FieldsInv, StoreTypes, JobTypes, Snapshot
  <2>3. FieldsMeant'
    BY <2>1 DEF FieldsInv, FieldsMeant, BlobMeant, Valid, Meant, Sanitize, LegacyConfig
  <2>4. \A w \in Writers : AskedBy(w)' /\ DoneBy(w)'
    BY <2>1 DEF FieldsInv, AskedBy, DoneBy, Idle
  <2> QED BY <2>2, <2>3, <2>4 DEF FieldsInv
<1>2. CASE Load \/ LoadFails \/ Reset
  BY <1>2, FieldsLoad, FieldsReset
<1>3. CASE \/ \E req \in Posts : PostSlots(req)
           \/ \E s \in Enables, on \in BOOLEAN : SlotEnable(s, on)
           \/ \E req \in Tests : TestStores(req)
           \/ TestRestores
  BY <1>3, FieldsBegin
<1>4. CASE TestStarts \/ TestSnapshot \/ TestEnds
  BY <1>4, FieldsTest
<1>5. ASSUME NEW w \in Writers,
             \/ CopyFlags(w) \/ CopyRest(w) \/ Settle(w)
             \/ Save(w) \/ SetKeyOn(w) \/ SetKeyHost(w) \/ Commit(w) \/ Fails(w)
      PROVE  FieldsInv'
  BY <1>5, FieldsCopyFlags, FieldsCopyRest, FieldsSettle, FieldsSave, FieldsKeys,
     FieldsCommit, FieldsFails
<1> QED BY <1>1, <1>2, <1>3, <1>4, <1>5 DEF StoreSlots, Failure, RunSelfTest

(* What is meant of a slot, field by field, is what was requested of it. *)
LEMMA MeantIsRequested ==
  ASSUME NEW s \in Slots, NEW c \in Config, Meant(c, s)
  PROVE  [on |-> c.on, host |-> c.host] \in Requested(s)
<1> DEFINE d == [on |-> c.on, host |-> c.host]
<1>1. d \in [on: BOOLEAN, host: Hosts] /\ d.on = c.on /\ d.host = c.host
  BY DEF Config
<1>2. \E a, b \in legit[s] : d.on = a.on /\ d.host = b.host
  BY <1>1 DEF Meant
<1> HIDE DEF d
<1>3. d \in Requested(s)
  BY <1>1, <1>2 DEF Requested
<1> QED BY <1>3 DEF d

LEMMA BlobFacts ==
  ASSUME StoreTypes, BlobMeant
  PROVE  FieldsRecoverable
<1>1. ASSUME NEW s \in Slots
      PROVE  [on |-> FromFlash[s].on, host |-> FromFlash[s].host] \in Requested(s)
  <2>1. FromFlash[s] \in Config /\ Meant(FromFlash[s], s)
    BY FlashMeant
  <2> QED BY <2>1, MeantIsRequested
<1> QED BY <1>1 DEF FieldsRecoverable

LEMMA FieldsFacts ==
  ASSUME FieldsInv
  PROVE  ReadersSeeRequested /\ FieldsRecoverable
<1>1. ASSUME loaded, NEW s \in Slots
      PROVE  [on |-> ram[s].on, host |-> ram[s].host] \in Requested(s)
  <2>1. ram[s] \in Config /\ Meant(ram[s], s)
    BY <1>1 DEF FieldsInv, StoreTypes, FieldsMeant
  <2> QED BY <2>1, MeantIsRequested
<1>2. FieldsRecoverable
  BY BlobFacts DEF FieldsInv, FieldsMeant
<1> QED BY <1>1, <1>2 DEF ReadersSeeRequested

(* However the HTTP task and the self-test interleave their stores, and      *)
(* whatever NVS call fails, a configuration copied out of RAM at any instant *)
(* has in every field what was acknowledged last or requested since.         *)
THEOREM ReadersNeverInvent == MCSpec => []ReadersSee
<1> DEFINE Inv == part \in Parts /\ (part # "keys" => FieldsInv)
<1>1. MCInit => Inv
  BY FieldsInitially DEF MCInit
<1>2. Inv /\ [MCNext]_<<part, vars>> => Inv'
  BY FieldsStep, PartStores DEF MCNext, Parts
<1>3. Inv => ReadersSee
  BY FieldsFacts DEF ReadersSee
<1> QED BY <1>1, <1>2, <1>3, PTL DEF MCSpec

-----------------------------------------------------------------------------
(* One writer, which posts under the legacy keys, too.  While it reads the keys *)
(* back, the slots in RAM are torn (ReadingInv); otherwise FieldsInv holds, and *)
(* what is in the keys is meant.                                                *)
Reading == {"blank", "readOn", "readHost", "saveRead"}

LegacyMeant ==
  \A s \in LegacySlots :
    /\ \E a \in legit[s] : legacy[s].on = a.on
    /\ \E b \in legit[s] : legacy[s].host = b.host

SameFields(s) == legacy[s].on = ram[s].on /\ legacy[s].host = ram[s].host

(* After a store, the keys are set one by one to what is in RAM. *)
KeysDone ==
  /\ Job.at \in {"keyOn", "keyHost"} => Job.slot \in LegacySlots
  /\ Job.at = "keyHost" => legacy[Job.slot].on = ram[Job.slot].on
  /\ \A s \in LegacySlots :
       (Job.at \in {"keyOn", "keyHost"} /\ s < Job.slot) \/ Job.at = "commit"
         => SameFields(s)

(* A slot whose keys have been read, and that one of a slot is being. *)
IsRead(s) == s \in LegacySlots /\ (s < Job.slot \/ Job.at = "saveRead")
InRead    == Job.at \in {"readOn", "readHost"}

ReadBack ==
  /\ loaded /\ Valid /\ alone[Web]
  /\ DOMAIN Job.req \subseteq LegacySlots
  /\ \A s \in DOMAIN Job.req :
       /\ legacy[s].host = Job.req[s]
       /\ IsRead(s) => ram[s].host = Job.req[s]
  /\ Job.slot \in LegacySlots
  /\ Job.at = "readHost" => \E a \in legit[Job.slot] : ram[Job.slot].on = a.on
  /\ InRead => ram[Job.slot].named
  /\ \A s \in Slots :
       /\ IsRead(s) => ram[s].named
       /\ (InRead /\ s = Job.slot) \/ Meant(ram[s], s)

ReadingInv ==
  /\ StoreTypes /\ BlobMeant /\ ReadBack
  /\ Job = [at |-> Job.at, slot |-> Job.slot, req |-> Job.req]

OneInv ==
  /\ OneJob /\ alone \in [Writers -> BOOLEAN]
  /\ test = "off" /\ backup = <<>> /\ before = <<>> /\ calm = FALSE
  /\ LegacyMeant
  /\ Job.at \in Reading \/ (Job.at \notin Reading /\ FieldsInv /\ KeysDone)
  /\ Job.at \in Reading => ReadingInv

LEMMA OneInitially == Init => OneInv
<1> SUFFICES ASSUME Init PROVE OneInv
  OBVIOUS
<1>1. Job = NoJob /\ OneJob
  <2>1. job = [w \in Writers |-> NoJob] /\ Web \in Writers
    BY StoreAssumption DEF Init
  <2> QED BY <2>1 DEF Job, OneJob, NoJob
<1>2. FieldsInv
  BY FieldsInitially
<1>3. LegacyMeant
  <2>1. ASSUME NEW s \in LegacySlots
        PROVE  \E c \in legit[s] : legacy[s].on = c.on /\ legacy[s].host = c.host
    <3>1. s \in Slots
      BY SlotFacts
    <3>2. CASE Valid
      <4>1. legit[s] = {blob[s]} /\ legacy[s] = [on |-> blob[s].on, host |-> blob[s].host]
        BY <3>1, <3>2 DEF Init, Sanitize
      <4> QED BY <4>1
    <3>3. CASE ~Valid
      <4>1. legit[s] = {[Default EXCEPT !.on = legacy[s].on, !.host = legacy[s].host]}
        BY <3>1, <3>3 DEF Init, LegacyConfig
      <4> QED BY <4>1 DEF Default
    <3> QED BY <3>2, <3>3
  <2> QED BY <2>1 DEF LegacyMeant
<1>4. KeysDone
  BY <1>1 DEF KeysDone, NoJob
<1>5. Job.at \notin Reading
  BY <1>1 DEF NoJob, Reading
<1> QED BY <1>1, <1>2, <1>3, <1>4, <1>5 DEF OneInv, Init

(* A store goes on beside FieldsInv: what it does to the keys. *)
LEMMA OneKeys ==
  ASSUME OneInv, Job.at \notin Reading, SetKeyOn(Web) \/ SetKeyHost(Web)
  PROVE  LegacyMeant' /\ KeysDone'
<1> DEFINE k == Job.slot
<1>0. /\ FieldsInv /\ KeysDone /\ LegacyMeant /\ OneJob /\ Web \in Writers
      /\ Job = [at |-> Job.at, slot |-> Job.slot, req |-> Job.req]
  BY StoreAssumption DEF OneInv, FieldsInv, JobTypes, Job
<1>1. UNCHANGED <<ram, legit>> /\ Job.at \in {"keyOn", "keyHost"} /\ k \in LegacySlots
  BY <1>0 DEF SetKeyOn, SetKeyHost, Step, Job, KeysDone
<1>2. Meant(ram[k], k) /\ legacy \in [LegacySlots -> [on: BOOLEAN, host: Hosts]]
  <2>1. loaded /\ k \in Slots
    BY <1>0, <1>1, SlotFacts DEF FieldsInv, AskedBy, Idle, Job
  <2> QED BY <2>1, <1>0 DEF FieldsInv, FieldsMeant, StoreTypes
<1>3. CASE SetKeyOn(Web)
  <2>1. Job.at = "keyOn" /\ Job' = [at |-> "keyHost", slot |-> k, req |-> Job.req]
    BY <1>0, <1>3, OneStepJob DEF SetKeyOn, Job
  <2>2. legacy' = [legacy EXCEPT ![k].on = ram[k].on]
    BY <1>3 DEF SetKeyOn, Job
  <2>3. LegacyMeant'
    BY <1>0, <1>1, <1>2, <2>2 DEF LegacyMeant, Meant
  <2>4. \A s \in LegacySlots : s < k => SameFields(s) /\ s # k
    BY <1>0, <1>1, <2>1 DEF KeysDone, LegacySlots
  <2>5. KeysDone'
    BY <1>1, <1>2, <2>1, <2>2, <2>4 DEF KeysDone, SameFields
  <2> QED BY <2>3, <2>5
<1>4. CASE SetKeyHost(Web)
  <2> DEFINE more == k + 1 \in LegacySlots
  <2>1. /\ Job.at = "keyHost"
        /\ Job' = [at |-> IF more THEN "keyOn" ELSE "commit",
                   slot |-> IF more THEN k + 1 ELSE 1, req |-> Job.req]
    <3>1. CASE more
      BY <3>1, <1>0, <1>4, OneStepJob DEF SetKeyHost, Job
    <3>2. CASE ~more
      BY <3>2, <1>0, <1>4, OneStepJob DEF SetKeyHost, Job
    <3> QED BY <3>1, <3>2
  <2>2. legacy' = [legacy EXCEPT ![k].host = ram[k].host]
    BY <1>4 DEF SetKeyHost, Job
  <2>3. LegacyMeant'
    BY <1>0, <1>1, <1>2, <2>2 DEF LegacyMeant, Meant
  <2>4. /\ legacy[k].on = ram[k].on
        /\ \A s \in LegacySlots : s < k => SameFields(s) /\ s # k
    BY <1>0, <1>1, <2>1 DEF KeysDone, LegacySlots
  <2>5. \A s \in LegacySlots : s < k \/ s = k => SameFields(s)'
    BY <1>1, <1>2, <2>2, <2>4 DEF SameFields
  <2>6. \A s \in LegacySlots : (s < k + 1 \/ ~more) => s < k \/ s = k
    BY <1>1 DEF LegacySlots
  <2>7. KeysDone'
    BY <2>1, <2>5, <2>6, <1>1 DEF KeysDone
  <2> QED BY <2>3, <2>7
<1> QED BY <1>3, <1>4

(* The other steps of a store, and failures, leave the keys alone. *)
LEMMA OneStores ==
  ASSUME OneInv, Job.at \notin Reading,
         StoreSlots(Posts, Enables) \/ Failure \/ UNCHANGED vars
  PROVE  OneInv'
<1>0. /\ FieldsInv /\ KeysDone /\ LegacyMeant /\ OneJob /\ Web \in Writers
      /\ Job = [at |-> Job.at, slot |-> Job.slot, req |-> Job.req]
  BY StoreAssumption DEF OneInv, FieldsInv, JobTypes, Job
<1>1. FieldsInv' /\ Job'.at \notin Reading /\ alone' \in [Writers -> BOOLEAN]
  <2>1. FieldsInv'
    BY <1>0, FieldsStep
  <2>2. \A w \in Writers : job'[w].at \in {"idle", "save"} \cup Copying \cup Saved
    BY <2>1 DEF FieldsInv, JobTypes
  <2> QED BY <1>0, <2>1, <2>2 DEF FieldsInv, JobTypes, Copying, Saved, Reading, Job
<1>2. SUFFICES OneJob' /\ UNCHANGED <<test, backup, before, calm>> /\ LegacyMeant' /\ KeysDone'
  BY <1>1 DEF OneInv
<1>3. CASE UNCHANGED vars
  BY <1>0, <1>3 DEF vars, flash, tests, OneJob, LegacyMeant, KeysDone, SameFields, Job
<1>4. CASE Load \/ LoadFails
  <2>1. Job.at = "idle"
    BY <1>0, <1>4 DEF FieldsInv, AskedBy, Idle, Job, Load, LoadFails
  <2>2. UNCHANGED <<legacy, job, test, backup, before, calm>>
    BY <1>4 DEF OneInv, Load, LoadFails, flash, tests
  <2>3. \A s \in Slots : legit[s] \subseteq legit'[s]
    <3>1. CASE LoadFails
      BY <3>1 DEF LoadFails
    <3>2. CASE Load
      <4>1. FromFlash \in [Slots -> Config] /\ legit \in [Slots -> SUBSET Config]
        <5>1. 1 \in Slots
          BY StoreAssumption DEF Slots
        <5> QED BY <5>1, <1>0, FlashMeant DEF FieldsInv, FieldsMeant, StoreTypes
      <4>2. \A s \in Slots : FromFlash[s].named
        BY <1>0, FlashNamed DEF FieldsInv
      <4> QED BY <3>2, <4>1, <4>2, LoadFacts
    <3> QED BY <1>4, <3>1, <3>2
  <2>4. LegacyMeant'
    BY <1>0, <2>2, <2>3, SlotFacts DEF LegacyMeant
  <2> QED BY <1>0, <2>1, <2>2, <2>4 DEF OneJob, KeysDone, Job
<1>5. CASE Reset
  <2>1. /\ UNCHANGED <<legacy, legit, test, backup, before, calm>>
        /\ job' = [w \in Writers |-> NoJob]
    BY <1>5 DEF OneInv, Reset, Forget, flash
  <2> QED BY <1>0, <2>1 DEF OneJob, LegacyMeant, KeysDone, Job, NoJob
<1>6. ASSUME NEW req, NEW first, BeginSet(Web, first, req), UNCHANGED tests
      PROVE  OneJob' /\ UNCHANGED <<test, backup, before, calm>> /\ LegacyMeant' /\ KeysDone'
  <2>1. /\ job' = [job EXCEPT ![Web] = [at |-> "flags", slot |-> first, req |-> req]]
        /\ UNCHANGED <<legacy, test, backup, before, calm>>
    BY <1>6 DEF BeginSet, Begin, OneInv, tests
  <2>2. OneJob' /\ Job'.at = "flags"
    BY <1>0, <2>1 DEF OneJob, Job
  <2>3. \A s \in LegacySlots : legit[s] \subseteq legit'[s]
    BY <1>6, SlotFacts DEF BeginSet
  <2> QED BY <1>0, <2>1, <2>2, <2>3 DEF LegacyMeant, KeysDone
<1>7. CASE CopyFlags(Web) \/ CopyRest(Web) \/ Settle(Web) \/ Save(Web)
  <2>1. UNCHANGED <<legacy, legit, test, backup, before, calm>>
    BY <1>7 DEF CopyFlags, CopyRest, Settle, Save, Step, tests
  <2>2. PICK to, slot :
          /\ to \in Copying \cup {"save", "keyOn"} /\ (to = "keyOn" => slot = 1)
          /\ \/ Step(Web, "flags", to, slot) \/ Step(Web, "rest", to, slot)
             \/ Step(Web, "settle", to, slot) \/ Step(Web, "save", to, slot)
    BY <1>7 DEF CopyFlags, CopyRest, Settle, Save, Copying
  <2>3. OneJob' /\ Job' = [at |-> to, slot |-> slot, req |-> Job.req]
    BY <1>0, <2>2, OneStepJob
  <2> QED BY <1>0, <2>1, <2>2, <2>3 DEF LegacyMeant, KeysDone, LegacySlots, Copying
<1>8. CASE SetKeyOn(Web) \/ SetKeyHost(Web)
  <2>1. UNCHANGED <<test, backup, before, calm>>
    BY <1>8 DEF SetKeyOn, SetKeyHost, Step, tests
  <2>2. PICK from, to, slot : Step(Web, from, to, slot)
    BY <1>8 DEF SetKeyOn, SetKeyHost
  <2> QED BY <1>0, <1>8, <2>1, <2>2, OneStepJob, OneKeys
<1>9. CASE Commit(Web)
  <2>1. /\ UNCHANGED <<ram, legacy, test, backup, before, calm>>
        /\ Step(Web, "commit", "idle", 1)
        /\ legit' = [s \in Slots |-> IF alone[Web] /\ s \in DOMAIN Job.req
                                       THEN {Sanitize(Job.req[s])} ELSE legit[s]]
    BY <1>9 DEF Commit, Step, tests, Job
  <2>2. OneJob' /\ Job.at = "commit" /\ Job' = [at |-> "idle", slot |-> 1, req |-> Job.req]
    BY <1>0, <2>1, OneStepJob
  <2>3. ASSUME NEW s \in LegacySlots
        PROVE  /\ \E a \in legit'[s] : legacy'[s].on = a.on
               /\ \E b \in legit'[s] : legacy'[s].host = b.host
    <3>1. s \in Slots
      BY SlotFacts
    <3>2. CASE alone[Web] /\ s \in DOMAIN Job.req
      <4>1. legit'[s] = {Sanitize(Job.req[s])}
        BY <2>1, <3>1, <3>2
      <4>2. ram[s] = Sanitize(Job.req[s])
        BY <1>0, <2>2, <3>2 DEF FieldsInv, DoneBy, Idle, Job, Copying
      <4>3. SameFields(s)
        BY <1>0, <2>2 DEF KeysDone
      <4> QED BY <2>1, <4>1, <4>2, <4>3 DEF SameFields
    <3>3. CASE ~(alone[Web] /\ s \in DOMAIN Job.req)
      BY <1>0, <2>1, <3>1, <3>3 DEF LegacyMeant
    <3> QED BY <3>2, <3>3
  <2> QED BY <2>1, <2>2, <2>3 DEF LegacyMeant, KeysDone
<1>10. CASE Fails(Web)
  <2>1. /\ UNCHANGED <<legacy, legit, test, backup, before, calm>>
        /\ job' = [job EXCEPT ![Web].at = "idle"]
    BY <1>10 DEF Fails, tests, OneInv
  <2>2. OneJob' /\ Job'.at = "idle"
    BY <1>0, <2>1 DEF OneJob, Job
  <2> QED BY <1>0, <2>1, <2>2 DEF LegacyMeant, KeysDone
<1>11. ASSUME NEW w \in Writers,
              \/ CopyFlags(w) \/ CopyRest(w) \/ Settle(w) \/ Save(w)
              \/ SetKeyOn(w) \/ SetKeyHost(w) \/ Commit(w) \/ Fails(w)
       PROVE  w = Web
  BY <1>0, <1>11, OnlyWeb
<1>12. CASE \/ \E req \in Posts : PostSlots(req)
            \/ \E s \in Enables, on \in BOOLEAN : SlotEnable(s, on)
  BY <1>6, <1>12 DEF PostSlots, SlotEnable
<1> QED BY <1>3, <1>4, <1>5, <1>7, <1>8, <1>9, <1>10, <1>11, <1>12 DEF StoreSlots, Failure

(* What is so between the calls of one writer, without the keys. *)
IdleStore ==
  /\ StoreTypes /\ FieldsMeant /\ OneJob
  /\ Job = [at |-> "idle", slot |-> Job.slot, req |-> Job.req] /\ Job.slot \in Slots
  /\ alone \in [Writers -> BOOLEAN] /\ test = "off"

LEMMA IdleFields == IdleStore => FieldsInv
<1> SUFFICES ASSUME IdleStore PROVE FieldsInv
  OBVIOUS
<1>1. 1 \in Slots /\ Web \in Writers
  BY StoreAssumption DEF Slots
<1>2. ASSUME NEW w \in Writers
      PROVE  /\ job[w] = [at |-> job[w].at, slot |-> job[w].slot, req |-> job[w].req]
             /\ job[w].at = "idle" /\ job[w].slot \in Slots
  <2>1. CASE w = Web
    BY <2>1, <1>1 DEF IdleStore, Job
  <2>2. CASE w # Web
    BY <2>2, <1>1 DEF IdleStore, OneJob, NoJob
  <2> QED BY <2>1, <2>2
<1>3. JobTypes /\ Snapshot /\ \A w \in Writers : Idle(w)
  BY <1>2 DEF IdleStore, OneJob, JobTypes, Snapshot, Idle
<1> QED BY <1>3 DEF IdleStore, FieldsInv, AskedBy, DoneBy

LEMMA IdleFieldsNext == IdleStore' => FieldsInv'
BY IdleFields, PTL

(* What the post of a key does to the keys and to what is meant. *)
LEMMA KeyPosted ==
  ASSUME StoreTypes, LegacyMeant, NEW s \in LegacySlots, NEW h \in KeyPosts,
         legacy' = [legacy EXCEPT ![s].host = h], legit' = WithHost(s, h)
  PROVE  /\ legit' \in [Slots -> SUBSET Config]
         /\ \A t \in Slots : legit[t] \subseteq legit'[t]
         /\ legit'[s] = legit[s] \cup {[c EXCEPT !.host = h] : c \in legit[s]}
         /\ legacy \in [LegacySlots -> [on: BOOLEAN, host: Hosts]]
         /\ legacy' \in [LegacySlots -> [on: BOOLEAN, host: Hosts]]
         /\ legacy'[s].host = h /\ legacy'[s].on = legacy[s].on
         /\ \A t \in LegacySlots \ {s} : legacy'[t] = legacy[t]
         /\ LegacyMeant'
<1>1. h \in Hosts /\ LegacySlots \subseteq Slots
  BY StoreAssumption, SlotFacts
<1>2. /\ legit \in [Slots -> SUBSET Config] /\ legit' \in [Slots -> SUBSET Config]
      /\ \A t \in Slots : legit[t] \subseteq legit'[t]
      /\ legit'[s] = legit[s] \cup {[c EXCEPT !.host = h] : c \in legit[s]}
  <2>1. legit \in [Slots -> SUBSET Config] /\ s \in Slots
    BY <1>1 DEF StoreTypes
  <2>2. \A c \in legit[s] : [c EXCEPT !.host = h] \in Config
    BY <1>1, <2>1 DEF Config
  <2> QED BY <2>1, <2>2 DEF WithHost
<1>3. /\ legacy \in [LegacySlots -> [on: BOOLEAN, host: Hosts]]
      /\ legacy' \in [LegacySlots -> [on: BOOLEAN, host: Hosts]]
      /\ legacy'[s].host = h /\ legacy'[s].on = legacy[s].on
      /\ \A t \in LegacySlots \ {s} : legacy'[t] = legacy[t]
  BY <1>1 DEF StoreTypes
<1>4. LegacyMeant'
  <2>1. \A t \in LegacySlots \ {s} : /\ \E a \in legit'[t] : legacy'[t].on = a.on
                                     /\ \E b \in legit'[t] : legacy'[t].host = b.host
    BY <1>1, <1>2, <1>3 DEF LegacyMeant
  <2>2. \E a \in legit'[s] : legacy'[s].on = a.on
    BY <1>1, <1>2, <1>3 DEF LegacyMeant
  <2>3. \E b \in legit'[s] : legacy'[s].host = b.host
    <3>1. PICK a \in legit[s] : legacy[s].on = a.on
      BY DEF LegacyMeant
    <3>2. [a EXCEPT !.host = h] \in legit'[s] /\ a \in Config
      BY <1>1, <1>2
    <3>3. [a EXCEPT !.host = h].host = h
      BY <3>2 DEF Config
    <3> QED BY <1>3, <3>2, <3>3
  <2> QED BY <2>1, <2>2, <2>3 DEF LegacyMeant
<1> QED BY <1>2, <1>3, <1>4

(* A key is posted: the reading begins. *)
LEMMA OnePostKey ==
  ASSUME OneInv, NEW s \in LegacySlots, NEW h \in KeyPosts, PostKey(s, h)
  PROVE  OneInv'
<1> DEFINE req == [t \in {s} |-> h]
<1>0. Web \in Writers /\ h \in Hosts /\ LegacySlots \subseteq Slots /\ 1 \in LegacySlots
  BY StoreAssumption, SlotFacts DEF LegacySlots
<1>1. /\ Job.at = "idle" /\ loaded /\ UNCHANGED <<ram, loaded, blob, kind, tests>>
      /\ job' = [job EXCEPT ![Web] = [at |-> "blank", slot |-> 1, req |-> req]]
      /\ alone' = [v \in Writers |-> IF v = Web THEN \A u \in Writers \ {Web} : Idle(u)
                                               ELSE alone[v] /\ Idle(v)]
      /\ calm' = (calm /\ Web = Tester)
      /\ legacy' = [legacy EXCEPT ![s].host = h] /\ legit' = WithHost(s, h)
  BY DEF PostKey, Begin, Idle, Job
<1>2. FieldsInv /\ LegacyMeant /\ OneJob /\ calm = FALSE
  BY <1>1 DEF OneInv, Reading
<1>3. OneJob' /\ Job' = [at |-> "blank", slot |-> 1, req |-> req]
  BY <1>0, <1>1, <1>2 DEF OneJob, Job
<1>4. alone' \in [Writers -> BOOLEAN] /\ alone'[Web]
  <2>1. \A u \in Writers \ {Web} : Idle(u)
    BY <1>2 DEF OneJob, NoJob, Idle
  <2> QED BY <1>0, <1>1, <2>1
<1>5. /\ legit' \in [Slots -> SUBSET Config] /\ LegacyMeant'
      /\ \A t \in Slots : legit[t] \subseteq legit'[t]
      /\ legit'[s] = legit[s] \cup {[c EXCEPT !.host = h] : c \in legit[s]}
  BY <1>1, <1>2, KeyPosted DEF FieldsInv
<1>6. /\ legacy \in [LegacySlots -> [on: BOOLEAN, host: Hosts]]
      /\ legacy' \in [LegacySlots -> [on: BOOLEAN, host: Hosts]]
      /\ legacy'[s].host = h /\ legacy'[s].on = legacy[s].on
      /\ \A t \in LegacySlots \ {s} : legacy'[t] = legacy[t]
  BY <1>1, <1>2, KeyPosted DEF FieldsInv
<1>7. StoreTypes'
  BY <1>1, <1>2, <1>5, <1>6 DEF FieldsInv, StoreTypes
<1>8. Valid /\ \A t \in Slots : Meant(ram[t], t) /\ Meant(Sanitize(blob[t]), t)
  BY <1>1, <1>2 DEF FieldsInv, FieldsMeant, BlobMeant
<1>9. \A t \in Slots : Meant(ram[t], t)' /\ Meant(Sanitize(blob[t]), t)'
  BY <1>1, <1>5, <1>8, MeantGrows DEF Meant, Sanitize
<1>11. ReadBack'
  <2>1. \A t \in Slots : ~IsRead(t)'
    BY <1>3 DEF IsRead, LegacySlots
  <2>2. DOMAIN Job'.req = {s} /\ \A t \in DOMAIN Job'.req : legacy'[t].host = Job'.req[t]
    BY <1>3, <1>6
  <2>3. loaded' /\ Valid' /\ Job'.at = "blank" /\ Job'.slot = 1
    BY <1>1, <1>3, <1>8 DEF Valid
  <2> QED BY <1>0, <1>4, <1>9, <2>1, <2>2, <2>3 DEF ReadBack, InRead
<1>12. BlobMeant'
  BY <1>1, <1>8, <1>9 DEF BlobMeant, Valid
<1> HIDE DEF req
<1>13. ReadingInv'
  BY <1>3, <1>7, <1>11, <1>12 DEF ReadingInv
<1> QED BY <1>1, <1>2, <1>3, <1>4, <1>5, <1>13 DEF OneInv, tests, Reading

LEMMA OnePostKeyUnloaded ==
  ASSUME OneInv, NEW s \in LegacySlots, NEW h \in KeyPosts, PostKeyUnloaded(s, h)
  PROVE  OneInv'
<1>0. Web \in Writers /\ h \in Hosts /\ LegacySlots \subseteq Slots
  BY StoreAssumption, SlotFacts
<1>1. /\ ~loaded /\ UNCHANGED <<ram, loaded, blob, kind, job, alone, tests, calm>>
      /\ legacy' = [legacy EXCEPT ![s].host = h] /\ legit' = WithHost(s, h)
  BY DEF PostKeyUnloaded
<1>2. /\ FieldsInv /\ LegacyMeant /\ OneJob /\ Job.at = "idle" /\ Job' = Job /\ OneJob'
      /\ Job = [at |-> Job.at, slot |-> Job.slot, req |-> Job.req] /\ Job.slot \in Slots
  <2>1. Job.at \notin Reading
    BY <1>1 DEF OneInv, ReadingInv, ReadBack
  <2>2. FieldsInv
    BY <2>1 DEF OneInv
  <2> QED BY <1>0, <1>1, <2>1, <2>2 DEF OneInv, OneJob, FieldsInv, JobTypes, AskedBy, Idle, Job
<1>5. /\ legit' \in [Slots -> SUBSET Config] /\ LegacyMeant'
      /\ \A t \in Slots : legit[t] \subseteq legit'[t]
      /\ legit'[s] = legit[s] \cup {[c EXCEPT !.host = h] : c \in legit[s]}
  BY <1>1, <1>2, KeyPosted DEF FieldsInv
<1>6. /\ legacy \in [LegacySlots -> [on: BOOLEAN, host: Hosts]]
      /\ legacy' \in [LegacySlots -> [on: BOOLEAN, host: Hosts]]
      /\ legacy'[s].host = h /\ legacy'[s].on = legacy[s].on
      /\ \A t \in LegacySlots \ {s} : legacy'[t] = legacy[t]
  BY <1>1, <1>2, KeyPosted DEF FieldsInv
<1>7. StoreTypes'
  BY <1>1, <1>2, <1>5, <1>6 DEF FieldsInv, StoreTypes
<1>8. FieldsMeant'
  <2>1. ASSUME Valid, NEW t \in Slots PROVE Meant(Sanitize(blob[t]), t)'
    <3>1. Meant(Sanitize(blob[t]), t)
      BY <1>2, <2>1 DEF FieldsInv, FieldsMeant, BlobMeant
    <3> QED BY <1>1, <1>5, <3>1, MeantGrows DEF Meant, Sanitize
  <2>2. ASSUME ~Valid, NEW t \in Slots PROVE LegacyConfig(t)' \in legit'[t]
    <3>1. LegacyConfig(t) \in legit[t]
      BY <1>2, <2>2 DEF FieldsInv, FieldsMeant, BlobMeant
    <3>2. CASE t = s
      <4>1. LegacyConfig(s)' = [LegacyConfig(s) EXCEPT !.host = h]
        BY <1>6 DEF LegacyConfig, Default
      <4> QED BY <1>5, <3>1, <3>2, <4>1
    <3>3. CASE t # s
      BY <1>5, <1>6, <3>1, <3>3 DEF LegacyConfig
    <3> QED BY <3>2, <3>3
  <2> QED BY <1>1, <2>1, <2>2 DEF FieldsMeant, BlobMeant, Valid
<1>9. FieldsInv'
  <2>1. IdleStore'
    BY <1>1, <1>2, <1>7, <1>8 DEF IdleStore, OneInv, tests
  <2> QED BY <2>1, IdleFieldsNext
<1>11. KeysDone' /\ Job'.at \notin Reading
  BY <1>2 DEF KeysDone, Reading
<1> QED BY <1>1, <1>2, <1>5, <1>9, <1>11 DEF OneInv, tests

(* What is left to show of a step of the reading is what it does to the slot it *)
(* is at: either that is being read still, or it is meant again.               *)
LEMMA OneReadStep ==
  ASSUME OneInv, Job.at \in Reading \ {"saveRead"}, NEW k \in LegacySlots, k = Job.slot,
         NEW to \in Reading, NEW slot \in LegacySlots, NEW req,
         OneJob', Job' = [at |-> to, slot |-> slot, req |-> req],
         DOMAIN req \subseteq DOMAIN Job.req, \A s \in DOMAIN req : req[s] = Job.req[s],
         UNCHANGED <<blob, legacy, loaded, kind, alone, tests, calm>>,
         legit' \in [Slots -> SUBSET Config], \A s \in Slots : legit[s] \subseteq legit'[s],
         ram' \in [Slots -> Config], ram'[k].named,
         \A s \in Slots \ {k} : ram'[s] = ram[s],
         \/ /\ to \in {"readOn", "readHost"} /\ slot = k
            /\ to = "readHost" => \E a \in legit'[slot] : ram'[slot].on = a.on
         \/ /\ to = (IF k + 1 \in LegacySlots THEN "blank" ELSE "saveRead")
            /\ slot = (IF k + 1 \in LegacySlots THEN k + 1 ELSE 1)
            /\ Meant(ram[k], k)'
            /\ k \in DOMAIN req => ram'[k].host = req[k]
  PROVE  OneInv'
<1>1. /\ StoreTypes /\ BlobMeant /\ ReadBack /\ LegacyMeant /\ k \in LegacySlots
      /\ k \in Slots
  BY SlotFacts DEF OneInv, ReadingInv, ReadBack
<1>2. StoreTypes' /\ LegacyMeant'
  BY <1>1, SlotFacts DEF StoreTypes, LegacyMeant
<1>3. BlobMeant'
  <2>1. \A s \in Slots : Meant(Sanitize(blob[s]), s)
    BY <1>1 DEF BlobMeant, ReadBack
  <2>2. \A s \in Slots : Meant(Sanitize(blob[s]), s)'
    BY <2>1, MeantGrows DEF Meant, Sanitize
  <2> QED BY <1>1, <2>2 DEF BlobMeant, Valid, ReadBack
<1>4. ASSUME NEW s \in Slots, s # k
      PROVE  /\ (IsRead(s))' => IsRead(s)
             /\ Meant(ram[s], s)'
  <2>1. Meant(ram[s], s) /\ ram'[s] = ram[s]
    BY <1>1, <1>4 DEF ReadBack
  <2>2. Meant(ram[s], s)'
    BY <2>1, MeantGrows DEF Meant
  <2>3. (IsRead(s))' <=> s \in LegacySlots /\ (s < slot \/ to = "saveRead")
    BY DEF IsRead
  <2>4. IsRead(s) <=> s \in LegacySlots /\ s < k
    BY DEF IsRead
  <2>5. s \in LegacySlots /\ (s < slot \/ to = "saveRead") => s < k
    BY <1>1, <1>4 DEF LegacySlots
  <2> QED BY <2>2, <2>3, <2>4, <2>5
<1>5. /\ (IsRead(k))' => to \notin {"readOn", "readHost"}
      /\ InRead' <=> to \in {"readOn", "readHost"}
      /\ InRead' => slot = k
  BY <1>1 DEF IsRead, InRead, LegacySlots
<1>6. ASSUME NEW s \in Slots
      PROVE  /\ (IsRead(s))' => ram'[s].named
             /\ (InRead' /\ s = slot) \/ Meant(ram[s], s)'
  <2>1. CASE s = k
    BY <1>5, <2>1
  <2>2. CASE s # k
    BY <1>1, <1>4, <2>2 DEF ReadBack
  <2> QED BY <2>1, <2>2
<1>7. ASSUME NEW s \in DOMAIN req
      PROVE  legacy'[s].host = req[s] /\ ((IsRead(s))' => ram'[s].host = req[s])
  <2>1. s \in Slots /\ legacy[s].host = req[s] /\ (IsRead(s) => ram[s].host = req[s])
    BY <1>1, SlotFacts DEF ReadBack
  <2>2. CASE s = k
    BY <1>5, <2>1, <2>2
  <2>3. CASE s # k
    BY <1>4, <2>1, <2>3
  <2> QED BY <2>2, <2>3
<1>8. ReadBack'
  <2>1. DOMAIN req \subseteq LegacySlots /\ loaded' /\ Valid' /\ alone'[Web]
    BY <1>1 DEF ReadBack, Valid
  <2>2. /\ to = "readHost" => \E a \in legit'[slot] : ram'[slot].on = a.on
        /\ InRead' => ram'[slot].named
    BY <1>5
  <2> QED BY <1>6, <1>7, <2>1, <2>2 DEF ReadBack
<1>9. ReadingInv'
  BY <1>2, <1>3, <1>8 DEF ReadingInv
<1> QED BY <1>2, <1>9 DEF OneInv, tests

(* Where a step of the reading is. *)
LEMMA Reads ==
  ASSUME OneInv, Job.at \in Reading
  PROVE  /\ StoreTypes /\ ReadBack /\ LegacyMeant /\ OneJob
         /\ Job = [at |-> Job.at, slot |-> Job.slot, req |-> Job.req]
         /\ Job.slot \in LegacySlots /\ Job.slot \in Slots
BY SlotFacts DEF OneInv, ReadingInv, ReadBack

(* Of what cannot be read the history keeps a configuration without it. *)
LEMMA LossIsMeant ==
  ASSUME StoreTypes, LegacyMeant, NEW k \in LegacySlots, NEW lost,
         legit' = [legit EXCEPT ![k] = WithLoss(k, lost)]
  PROVE  /\ legit' \in [Slots -> SUBSET Config]
         /\ \A s \in Slots : legit[s] \subseteq legit'[s]
         /\ "on" \in lost => \E a \in legit'[k] : a.on = Default.on
         /\ "host" \in lost => \E b \in legit'[k] : b.host = NoHost
<1>1. k \in Slots /\ legit \in [Slots -> SUBSET Config]
  BY SlotFacts DEF StoreTypes
<1>2. legit'[k] = WithLoss(k, lost) /\ \A s \in Slots \ {k} : legit'[s] = legit[s]
  BY <1>1
<1>3. PICK c \in legit[k] : TRUE
  BY DEF LegacyMeant
<1>4. c \in Config /\ Without(c, lost) \in legit'[k]
  BY <1>1, <1>2, <1>3, LossFacts
<1>5. /\ legit' \in [Slots -> SUBSET Config]
      /\ \A s \in Slots : legit[s] \subseteq legit'[s]
  BY <1>1, <1>2, LossFacts
<1> QED BY <1>4, <1>5, WithoutFacts

LEMMA OneBlank ==
  ASSUME OneInv, Blank(Web)
  PROVE  OneInv'
<1> DEFINE k == Job.slot
<1>1. /\ Step(Web, "blank", "readOn", k) /\ UNCHANGED <<blob, legacy, legit>>
      /\ ram' = [ram EXCEPT ![k] = Default] /\ Job.at = "blank"
  BY DEF Blank, Step, Job
<1>2. /\ StoreTypes /\ ReadBack /\ OneJob /\ k \in LegacySlots /\ k \in Slots
      /\ Job = [at |-> Job.at, slot |-> k, req |-> Job.req]
  BY <1>1, Reads DEF Reading
<1>3. OneJob' /\ Job' = [at |-> "readOn", slot |-> k, req |-> Job.req]
  BY <1>1, <1>2, OneStepJob
<1>4. /\ ram' \in [Slots -> Config] /\ ram'[k].named
      /\ \A s \in Slots \ {k} : ram'[s] = ram[s]
  BY <1>1, <1>2, DefaultIsConfig DEF StoreTypes
<1>5. UNCHANGED <<loaded, kind, alone, tests, calm>>
  BY <1>1 DEF Step
<1>6. legit' \in [Slots -> SUBSET Config] /\ \A s \in Slots : legit[s] \subseteq legit'[s]
  BY <1>1, <1>2 DEF StoreTypes
<1>7. Job.at \in Reading \ {"saveRead"} /\ "readOn" \in Reading
  BY <1>1 DEF Reading
<1> HIDE DEF k
<1> QED BY <1>1, <1>2, <1>3, <1>4, <1>5, <1>6, <1>7, OneReadStep DEF k

LEMMA OneReadOn ==
  ASSUME OneInv, ReadOn(Web)
  PROVE  OneInv'
<1> DEFINE k == Job.slot
<1>1. /\ Step(Web, "readOn", "readHost", k) /\ UNCHANGED <<blob, legacy>>
      /\ Job.at = "readOn"
      /\ \/ ram' = [ram EXCEPT ![k].on = legacy[k].on] /\ legit' = legit
         \/ ram' = [ram EXCEPT ![k].on = Default.on]
            /\ legit' = [legit EXCEPT ![k] = WithLoss(k, {"on"})]
  BY DEF ReadOn, Step, Job
<1>2. /\ StoreTypes /\ ReadBack /\ OneJob /\ k \in LegacySlots /\ k \in Slots
      /\ Job = [at |-> Job.at, slot |-> k, req |-> Job.req] /\ LegacyMeant
  BY <1>1, Reads DEF Reading
<1>3. OneJob' /\ Job' = [at |-> "readHost", slot |-> k, req |-> Job.req]
  BY <1>1, <1>2, OneStepJob
<1>4. ram[k].named /\ ram[k] \in Config /\ ram \in [Slots -> Config]
  BY <1>1, <1>2 DEF ReadBack, InRead, StoreTypes
<1>5. /\ legit' \in [Slots -> SUBSET Config] /\ \A s \in Slots : legit[s] \subseteq legit'[s]
      /\ \E v \in BOOLEAN : /\ ram' = [ram EXCEPT ![k].on = v]
                            /\ \E a \in legit'[k] : a.on = v
  <2>1. CASE ram' = [ram EXCEPT ![k].on = legacy[k].on] /\ legit' = legit
    <3>1. legacy[k].on \in BOOLEAN /\ \E a \in legit'[k] : a.on = legacy[k].on
      BY <1>2, <2>1 DEF StoreTypes, LegacyMeant
    <3> QED BY <1>2, <2>1, <3>1 DEF StoreTypes
  <2>2. CASE /\ ram' = [ram EXCEPT ![k].on = Default.on]
             /\ legit' = [legit EXCEPT ![k] = WithLoss(k, {"on"})]
    <3>1. \E a \in legit'[k] : a.on = Default.on
      BY <1>2, <2>2, LossIsMeant
    <3>2. legit' \in [Slots -> SUBSET Config] /\ \A s \in Slots : legit[s] \subseteq legit'[s]
      BY <1>2, <2>2, LossIsMeant
    <3>3. Default.on \in BOOLEAN
      BY DEF Default
    <3> QED BY <2>2, <3>1, <3>2, <3>3
  <2> QED BY <1>1, <2>1, <2>2
<1>6. /\ ram' \in [Slots -> Config] /\ ram'[k].named
      /\ \A s \in Slots \ {k} : ram'[s] = ram[s]
      /\ \E a \in legit'[k] : ram'[k].on = a.on
  <2>1. PICK v \in BOOLEAN : ram' = [ram EXCEPT ![k].on = v] /\ \E a \in legit'[k] : a.on = v
    BY <1>5
  <2>2. ram'[k] = [ram[k] EXCEPT !.on = v]
    BY <1>2, <1>4, <2>1
  <2>3. ram'[k] \in Config /\ ram'[k].named /\ ram'[k].on = v
    BY <1>4, <2>2 DEF Config
  <2> HIDE DEF k
  <2> QED BY <1>2, <1>4, <2>1, <2>3
<1>7. UNCHANGED <<loaded, kind, alone, tests, calm>>
  BY <1>1 DEF Step
<1>8. Job.at \in Reading \ {"saveRead"} /\ "readHost" \in Reading
  BY <1>1 DEF Reading
<1> HIDE DEF k
<1> QED BY <1>1, <1>2, <1>3, <1>5, <1>6, <1>7, <1>8, OneReadStep DEF k

(* The host is read, or it cannot be. *)
LEMMA OneReadHost ==
  ASSUME OneInv, ReadHost(Web) \/ MissHost(Web)
  PROVE  OneInv'
<1>0. PICK k \in LegacySlots : k = Job.slot
  <2>1. Job.at \in Reading
    BY DEF ReadHost, MissHost, Step, Job, Reading
  <2> QED BY <2>1, Reads
<1> DEFINE more == k + 1 \in LegacySlots
           to == IF more THEN "blank" ELSE "saveRead"
           next == IF more THEN k + 1 ELSE 1
<1>1. Job.at = "readHost"
  BY DEF ReadHost, MissHost, Step, Job
<1>2. /\ StoreTypes /\ ReadBack /\ OneJob /\ k \in LegacySlots /\ k \in Slots
      /\ Job = [at |-> Job.at, slot |-> k, req |-> Job.req] /\ LegacyMeant
  BY <1>0, <1>1, Reads DEF Reading
<1>3. /\ ram[k].named /\ ram[k] \in Config /\ ram \in [Slots -> Config]
      /\ \E a \in legit[k] : ram[k].on = a.on
  BY <1>0, <1>1, <1>2 DEF ReadBack, InRead, StoreTypes
<1>4. /\ UNCHANGED <<blob, legacy, loaded, kind, alone, tests, calm>>
      /\ legit' \in [Slots -> SUBSET Config] /\ \A s \in Slots : legit[s] \subseteq legit'[s]
      /\ OneJob'
      /\ \E h \in Hosts : \E req :
           /\ Job' = [at |-> to, slot |-> next, req |-> req]
           /\ DOMAIN req \subseteq DOMAIN Job.req /\ \A s \in DOMAIN req : req[s] = Job.req[s]
           /\ ram' = [ram EXCEPT ![k].host = h]
           /\ \E b \in legit'[k] : b.host = h
           /\ k \in DOMAIN req => h = req[k]
  <2>1. CASE ReadHost(Web)
    <3>1. /\ Step(Web, "readHost", to, next) /\ UNCHANGED <<blob, legacy, legit>>
          /\ ram' = [ram EXCEPT ![k].host = legacy[k].host]
      BY <1>0, <2>1 DEF ReadHost, Step, Job
    <3>2. OneJob' /\ Job' = [at |-> to, slot |-> next, req |-> Job.req]
      BY <1>2, <3>1, OneStepJob
    <3>3. /\ legacy[k].host \in Hosts /\ \E b \in legit'[k] : b.host = legacy[k].host
          /\ k \in DOMAIN Job.req => legacy[k].host = Job.req[k]
      BY <1>2, <3>1 DEF StoreTypes, LegacyMeant, ReadBack
    <3>4. legit' \in [Slots -> SUBSET Config] /\ \A s \in Slots : legit[s] \subseteq legit'[s]
      BY <1>2, <3>1 DEF StoreTypes
    <3>5. UNCHANGED <<loaded, kind, alone, tests, calm>>
      BY <3>1 DEF Step
    <3> HIDE DEF to, next
    <3> QED BY <3>1, <3>2, <3>3, <3>4, <3>5
  <2>2. CASE MissHost(Web)
    <3> DEFINE req == [t \in DOMAIN Job.req \ {k} |-> Job.req[t]]
    <3>1. /\ UNCHANGED <<blob, legacy, loaded, kind, alone, tests, calm>>
          /\ job' = [job EXCEPT ![Web] = [at |-> to, slot |-> next, req |-> req]]
          /\ ram' = [ram EXCEPT ![k].host = NoHost]
          /\ legit' = [legit EXCEPT ![k] = WithLoss(k, {"host"})]
      BY <1>0, <2>2 DEF MissHost, Job, flash
    <3>2. OneJob' /\ Job' = [at |-> to, slot |-> next, req |-> req]
      BY <1>2, <3>1, StoreAssumption DEF OneJob, Job
    <3>3. /\ NoHost \in Hosts /\ \E b \in legit'[k] : b.host = NoHost
          /\ legit' \in [Slots -> SUBSET Config]
          /\ \A s \in Slots : legit[s] \subseteq legit'[s]
      BY <1>2, <3>1, LossIsMeant, StoreAssumption
    <3>4. /\ DOMAIN req \subseteq DOMAIN Job.req /\ \A s \in DOMAIN req : req[s] = Job.req[s]
          /\ k \notin DOMAIN req
      OBVIOUS
    <3> HIDE DEF to, next, req
    <3> QED BY <3>1, <3>2, <3>3, <3>4
  <2> QED BY <2>1, <2>2
<1>host. PICK h \in Hosts : \E req :
        /\ Job' = [at |-> to, slot |-> next, req |-> req]
        /\ DOMAIN req \subseteq DOMAIN Job.req /\ \A s \in DOMAIN req : req[s] = Job.req[s]
        /\ ram' = [ram EXCEPT ![k].host = h]
        /\ \E b \in legit'[k] : b.host = h
        /\ k \in DOMAIN req => h = req[k]
  BY <1>4
<1>5. PICK req :
        /\ Job' = [at |-> to, slot |-> next, req |-> req]
        /\ DOMAIN req \subseteq DOMAIN Job.req /\ \A s \in DOMAIN req : req[s] = Job.req[s]
        /\ ram' = [ram EXCEPT ![k].host = h]
        /\ \E b \in legit'[k] : b.host = h
        /\ k \in DOMAIN req => h = req[k]
  BY <1>host
<1>6. /\ ram' \in [Slots -> Config] /\ ram'[k].named /\ ram'[k].host = h
      /\ ram'[k].on = ram[k].on /\ \A s \in Slots \ {k} : ram'[s] = ram[s]
  <2>1. ram'[k] = [ram[k] EXCEPT !.host = h]
    BY <1>2, <1>3, <1>5
  <2>2. /\ ram'[k] \in Config /\ ram'[k].named /\ ram'[k].host = h
        /\ ram'[k].on = ram[k].on
    BY <1>3, <2>1 DEF Config
  <2> QED BY <1>2, <1>3, <1>5, <2>2
<1>7. Meant(ram[k], k)'
  <2>1. \E a \in legit'[k] : ram'[k].on = a.on
    BY <1>2, <1>3, <1>4, <1>6
  <2> QED BY <1>5, <1>6, <2>1 DEF Meant
<1>8. /\ to \in Reading /\ next \in LegacySlots
      /\ Job.at \in Reading \ {"saveRead"}
  BY <1>1, <1>2 DEF Reading, LegacySlots
<1> QED BY <1>0, <1>4, <1>5, <1>6, <1>7, <1>8, OneReadStep

(* When all is read, RAM is meant again, whatever is meant of what was posted. *)
LEMMA AllRead ==
  ASSUME OneInv, Job.at = "saveRead", NEW s \in Slots
  PROVE  /\ Meant(ram[s], s) /\ ram[s] \in Config
         /\ s \in DOMAIN Job.req => ram[s].named /\ ram[s].host = Job.req[s]
<1>1. StoreTypes /\ ReadBack
  BY DEF OneInv, Reading, ReadingInv
<1> QED BY <1>1 DEF StoreTypes, ReadBack, IsRead, InRead

LEMMA OneSaveRead ==
  ASSUME OneInv, SaveRead(Web)
  PROVE  OneInv'
<1> DEFINE r == Job.req
<1>1. /\ Step(Web, "saveRead", "idle", 1) /\ UNCHANGED <<ram, legacy>> /\ blob' = ram
      /\ Job.at = "saveRead" /\ UNCHANGED <<loaded, kind, alone, tests, calm>>
      /\ legit' = [s \in Slots |-> IF alone[Web] /\ s \in DOMAIN r
                                     THEN {[c EXCEPT !.host = r[s]] : c \in legit[s]}
                                     ELSE legit[s]]
  BY DEF SaveRead, Step, Job
<1>2. StoreTypes /\ ReadBack /\ LegacyMeant /\ OneJob
      /\ Job = [at |-> Job.at, slot |-> Job.slot, req |-> Job.req]
  BY <1>1 DEF OneInv, Reading, ReadingInv
<1>3. OneJob' /\ Job' = [at |-> "idle", slot |-> 1, req |-> r] /\ 1 \in Slots
  BY <1>1, <1>2, OneStepJob, StoreAssumption DEF Slots
<1>4. loaded /\ Valid /\ alone[Web] /\ DOMAIN r \subseteq LegacySlots
  BY <1>2 DEF ReadBack
<1>5. \A s \in DOMAIN r : /\ s \in Slots /\ r[s] = legacy[s].host /\ r[s] \in Hosts
                          /\ legit'[s] = {[c EXCEPT !.host = r[s]] : c \in legit[s]}
                          /\ legit[s] \subseteq Config
  BY <1>1, <1>2, <1>4, SlotFacts DEF ReadBack, StoreTypes
<1>6. \A s \in Slots \ DOMAIN r : legit'[s] = legit[s]
  BY <1>1
<1>7. \A s \in DOMAIN r : /\ legit'[s] \subseteq Config
                          /\ \E a \in legit'[s] : legacy[s].on = a.on
                          /\ \E b \in legit'[s] : legacy[s].host = b.host
  <2> SUFFICES ASSUME NEW s \in DOMAIN r
               PROVE  /\ legit'[s] \subseteq Config
                      /\ \E a \in legit'[s] : legacy[s].on = a.on
                      /\ \E b \in legit'[s] : legacy[s].host = b.host
    OBVIOUS
  <2>1. \A c \in legit[s] : /\ [c EXCEPT !.host = r[s]] \in Config
                            /\ [c EXCEPT !.host = r[s]].on = c.on
                            /\ [c EXCEPT !.host = r[s]].host = r[s]
    BY <1>5 DEF Config
  <2>2. PICK a \in legit[s] : legacy[s].on = a.on
    BY <1>2, <1>4 DEF LegacyMeant
  <2>3. legit'[s] = {[c EXCEPT !.host = r[s]] : c \in legit[s]} /\ r[s] = legacy[s].host
    BY <1>5
  <2>4. [a EXCEPT !.host = r[s]] \in legit'[s]
    BY <2>2, <2>3
  <2> HIDE DEF r
  <2> QED BY <2>1, <2>2, <2>3, <2>4
<1>8. StoreTypes'
  <2>1. legit' \in [Slots -> SUBSET Config]
    <3>1. \A s \in Slots : legit'[s] \in SUBSET Config
      BY <1>2, <1>6, <1>7 DEF StoreTypes
    <3>2. legit' = [s \in Slots |-> legit'[s]]
      BY <1>1
    <3> QED BY <3>1, <3>2
  <2> QED BY <1>1, <1>2, <2>1 DEF StoreTypes
<1>9. LegacyMeant'
  BY <1>1, <1>2, <1>6, <1>7, SlotFacts DEF LegacyMeant
<1>10. ASSUME NEW s \in Slots PROVE Meant(ram[s], s)' /\ Meant(Sanitize(blob[s]), s)'
  <2>1. /\ Meant(ram[s], s) /\ ram[s] \in Config /\ Meant(Sanitize(ram[s]), s)
        /\ s \in DOMAIN r => ram[s].named /\ ram[s].host = r[s]
    BY <1>1, AllRead, SanitizedIsMeant
  <2>2. CASE s \in DOMAIN r
    <3>1. ram[s].named /\ ram[s].host = r[s] /\ Sanitize(ram[s]) = ram[s]
      BY <2>1, <2>2 DEF Sanitize
    <3>2. Meant(ram[s], s)'
      <4>1. PICK a \in legit[s] : ram[s].on = a.on
        BY <2>1 DEF Meant
      <4>2. a \in Config /\ [a EXCEPT !.host = r[s]] \in legit'[s] /\ r[s] \in Hosts
        BY <1>5, <2>2, <4>1
      <4>3. [a EXCEPT !.host = r[s]].on = a.on /\ [a EXCEPT !.host = r[s]].host = r[s]
        BY <4>2 DEF Config
      <4> HIDE DEF r
      <4> QED BY <1>1, <3>1, <4>1, <4>2, <4>3 DEF Meant
    <3>3. Sanitize(blob[s])' = ram'[s]
      BY <1>1, <3>1 DEF Sanitize
    <3> QED BY <3>2, <3>3 DEF Meant
  <2>3. CASE s \notin DOMAIN r
    BY <1>1, <1>6, <2>1, <2>3 DEF Meant, Sanitize
  <2> QED BY <2>2, <2>3
<1>11. FieldsInv'
  <2>1. FieldsMeant'
    BY <1>1, <1>4, <1>10 DEF FieldsMeant, BlobMeant, Valid
  <2>2. IdleStore'
    BY <1>1, <1>3, <1>8, <2>1 DEF IdleStore, OneInv, tests
  <2> QED BY <2>2, IdleFieldsNext
<1>12. KeysDone' /\ Job'.at \notin Reading
  BY <1>3 DEF KeysDone, Reading
<1> QED BY <1>1, <1>3, <1>9, <1>11, <1>12 DEF OneInv, tests

(* The saving fails, or the device is reset while it reads. *)
LEMMA OneReadFails ==
  ASSUME OneInv, Job.at \in Reading, Fails(Web)
  PROVE  OneInv'
<1>1. /\ Job.at = "saveRead" /\ UNCHANGED <<ram, loaded, kind, legacy, legit, alone, tests>>
      /\ job' = [job EXCEPT ![Web].at = "idle"] /\ blob' \in {blob, ram} /\ calm' = FALSE
  BY DEF Fails, Reading, Job
<1>2. /\ StoreTypes /\ BlobMeant /\ ReadBack /\ LegacyMeant /\ OneJob /\ Web \in Writers
      /\ Job = [at |-> Job.at, slot |-> Job.slot, req |-> Job.req]
  BY StoreAssumption DEF OneInv, ReadingInv
<1>3. /\ OneJob' /\ Job' = [at |-> "idle", slot |-> Job.slot, req |-> Job.req]
      /\ Job.slot \in Slots
  <2>1. OneJob' /\ Job' = [Job EXCEPT !.at = "idle"]
    BY <1>1, <1>2 DEF OneJob, Job
  <2> QED BY <1>2, <2>1, SlotFacts DEF ReadBack
<1>4. StoreTypes'
  BY <1>1, <1>2 DEF StoreTypes
<1>5. FieldsMeant'
  <2>1. loaded /\ Valid
    BY <1>2 DEF ReadBack
  <2>2. \A s \in Slots : Meant(ram[s], s) /\ Meant(Sanitize(ram[s]), s)
    BY <1>1, AllRead, SanitizedIsMeant
  <2>3. \A s \in Slots : Meant(Sanitize(blob[s]), s)
    BY <1>2, <2>1 DEF BlobMeant
  <2> QED BY <1>1, <2>1, <2>2, <2>3 DEF FieldsMeant, BlobMeant, Valid, Meant
<1>6. FieldsInv'
  <2>1. IdleStore'
    BY <1>1, <1>3, <1>4, <1>5 DEF IdleStore, OneInv, tests
  <2> QED BY <2>1, IdleFieldsNext
<1>7. KeysDone' /\ Job'.at \notin Reading
  BY <1>3 DEF KeysDone, Reading
<1> QED BY <1>1, <1>2, <1>3, <1>6, <1>7 DEF OneInv, LegacyMeant, tests

LEMMA OneReadReset ==
  ASSUME OneInv, Job.at \in Reading, Reset
  PROVE  OneInv'
<1>1. /\ UNCHANGED <<blob, kind, legacy, legit>> /\ loaded' = FALSE
      /\ job' = [w \in Writers |-> NoJob] /\ alone' = [w \in Writers |-> TRUE]
      /\ ram' = [s \in Slots |-> [Default EXCEPT !.named = FALSE]]
      /\ test' = "off" /\ backup' = <<>> /\ before' = <<>> /\ calm' = FALSE
  BY DEF Reset, Forget, flash
<1>2. StoreTypes /\ BlobMeant /\ LegacyMeant /\ Web \in Writers /\ 1 \in Slots
  BY StoreAssumption DEF OneInv, ReadingInv, Slots
<1>3. OneJob' /\ Job' = NoJob
  BY <1>1, <1>2 DEF OneJob, Job
<1>4. StoreTypes'
  <2>1. ram' \in [Slots -> Config]
    BY <1>1, DefaultIsConfig DEF Default, Config
  <2> QED BY <1>1, <1>2, <2>1 DEF StoreTypes
<1>5. FieldsMeant'
  BY <1>1, <1>2 DEF FieldsMeant, BlobMeant, Valid, Meant, Sanitize, LegacyConfig
<1>6. FieldsInv'
  <2>1. IdleStore'
    BY <1>1, <1>2, <1>3, <1>4, <1>5 DEF IdleStore, NoJob
  <2> QED BY <2>1, IdleFieldsNext
<1>7. KeysDone' /\ Job'.at \notin Reading
  BY <1>3 DEF KeysDone, Reading, NoJob
<1> QED BY <1>1, <1>2, <1>3, <1>6, <1>7 DEF OneInv, LegacyMeant

LEMMA OneStep ==
  ASSUME OneInv,
         StoreSlots(Posts, Enables) \/ Failure \/ StoreKeys \/ UNCHANGED vars
  PROVE  OneInv'
<1>1. CASE StoreKeys
  <2>1. ASSUME NEW w \in Writers,
               Blank(w) \/ ReadOn(w) \/ ReadHost(w) \/ MissHost(w) \/ SaveRead(w)
        PROVE  OneInv'
    <3>1. w = Web
      BY <2>1, OnlyWeb DEF OneInv
    <3> QED BY <2>1, <3>1, OneBlank, OneReadOn, OneReadHost, OneSaveRead
  <2> QED BY <1>1, <2>1, OnePostKey, OnePostKeyUnloaded DEF StoreKeys
<1>2. CASE /\ StoreSlots(Posts, Enables) \/ Failure \/ UNCHANGED vars
           /\ Job.at \notin Reading
  BY <1>2, OneStores
<1>3. CASE UNCHANGED vars /\ Job.at \in Reading
  <2>1. /\ UNCHANGED <<ram, loaded, blob, kind, legacy, job, legit, alone>> /\ Job' = Job
        /\ UNCHANGED <<test, backup, before, calm>>
    BY <1>3 DEF vars, flash, tests, Job
  <2>2. StoreTypes /\ BlobMeant /\ ReadBack /\ LegacyMeant /\ OneJob
    BY <1>3 DEF OneInv, ReadingInv
  <2>3. StoreTypes' /\ BlobMeant'
    BY <2>1, <2>2 DEF StoreTypes, BlobMeant, Valid, Meant, Sanitize, LegacyConfig
  <2>4. ReadBack'
    <3>1. (Valid' <=> Valid) /\ (InRead' <=> InRead)
      BY <2>1 DEF Valid, InRead
    <3>2. \A s :
            /\ (IsRead(s))' <=> IsRead(s)
            /\ SameFields(s)' <=> SameFields(s)
            /\ Meant(ram[s], s)' <=> Meant(ram[s], s)
      BY <2>1 DEF IsRead, SameFields, Meant
    <3> QED BY <2>1, <2>2, <3>1, <3>2 DEF ReadBack
  <2>5. LegacyMeant' /\ OneJob'
    BY <2>1, <2>2 DEF LegacyMeant, OneJob
  <2> QED BY <1>3, <2>1, <2>3, <2>4, <2>5 DEF OneInv, ReadingInv
<1>4. CASE (StoreSlots(Posts, Enables) \/ Failure) /\ Job.at \in Reading
  <2>1. /\ loaded /\ OneJob /\ ~Idle(Web)
        /\ Job.at \notin {"idle", "flags", "rest", "settle", "save", "keyOn", "keyHost", "commit"}
    BY <1>4 DEF OneInv, ReadingInv, ReadBack, Reading, Idle, Job
  <2>2. \A w \in Writers : ~(\/ CopyFlags(w) \/ CopyRest(w) \/ Settle(w) \/ Save(w)
                             \/ SetKeyOn(w) \/ SetKeyHost(w) \/ Commit(w))
    <3>1. ASSUME NEW w \in Writers,
                 \/ CopyFlags(w) \/ CopyRest(w) \/ Settle(w) \/ Save(w)
                 \/ SetKeyOn(w) \/ SetKeyHost(w) \/ Commit(w)
          PROVE  FALSE
      <4>1. w = Web
        BY <2>1, <3>1, OnlyWeb
      <4> QED BY <2>1, <3>1, <4>1 DEF CopyFlags, CopyRest, Settle, Save, SetKeyOn, SetKeyHost,
                                      Commit, Step, Job
    <3> QED BY <3>1
  <2>3. ~Load /\ ~LoadFails
    BY <2>1 DEF Load, LoadFails
  <2>4. /\ \A req : ~PostSlots(req)
        /\ \A s, on : ~SlotEnable(s, on)
    BY <2>1 DEF PostSlots, SlotEnable, BeginSet, Begin
  <2>5. Reset \/ \E w \in Writers : Fails(w)
    BY <1>4, <2>2, <2>3, <2>4 DEF StoreSlots, Failure
  <2>6. ASSUME NEW w \in Writers, Fails(w) PROVE OneInv'
    <3>1. w = Web
      BY <2>1, <2>6, OnlyWeb
    <3> QED BY <1>4, <2>6, <3>1, OneReadFails
  <2> QED BY <1>4, <2>5, <2>6, OneReadReset
<1> QED BY <1>1, <1>2, <1>3, <1>4

-----------------------------------------------------------------------------
(* The self-test beside the HTTP task.  While nothing else has happened since it *)
(* began, it is the only writer, and what it has stored and restored is known.   *)
Settled ==
  loaded => \A s \in Slots :
    ram[s].named \/ \E w \in Writers : job[w].at = "settle" /\ job[w].slot = s

TestTypes ==
  /\ calm \in BOOLEAN
  /\ test = "off" => backup = <<>> /\ before = <<>> /\ ~calm
  /\ test # "off" => before \in [Slots -> Config] /\ loaded /\ Tester \in Writers
  /\ test = "restoring" => backup \in [Slots -> Config]

Undisturbed ==
  calm =>
    /\ \A w \in Writers \ {Tester} : Idle(w)
    /\ \A s \in Slots : before[s].named
    /\ test = "snapshot" => Idle(Tester) /\ ram = before
    /\ \A s \in DOMAIN backup : backup[s] = before[s]
    /\ test = "restoring" => IF Idle(Tester) THEN ram = before /\ blob = before
                                             ELSE job[Tester].req = before /\ alone[Tester]

TestInv == Settled /\ TestTypes /\ Undisturbed

LEMMA TestInitially == Init => TestInv
BY DEF Init, TestInv, Settled, TestTypes, Undisturbed

LEMMA SettledStep ==
  ASSUME FieldsInv, Settled, StoreSlots(Posts, Enables) \/ Failure \/ RunSelfTest
  PROVE  Settled'
<1>0. /\ job = [v \in Writers |-> job[v]] /\ ram \in [Slots -> Config]
      /\ \A v \in Writers : job[v].slot \in Slots
  BY DEF FieldsInv, JobTypes, StoreTypes
<1>1. CASE Load
  <2>1. \A s \in Slots : FromFlash[s].named
    BY FlashNamed DEF FieldsInv
  <2>2. FromFlash \in [Slots -> Config] /\ legit \in [Slots -> SUBSET Config]
    <3>1. 1 \in Slots
      BY StoreAssumption DEF Slots
    <3> QED BY <3>1, FlashMeant DEF FieldsInv, FieldsMeant, StoreTypes
  <2>3. \A s \in Slots : ram'[s].named
    BY <1>1, <2>1, <2>2, LoadFacts
  <2> QED BY <2>3 DEF Settled
<1>2. CASE LoadFails \/ Reset
  BY <1>2 DEF LoadFails, Reset, Settled
<1>3. ASSUME NEW w, NEW first, NEW req, BeginSet(w, first, req)
      PROVE  Settled'
  BY <1>0, <1>3 DEF BeginSet, Begin, Settled, Idle
<1>4. ASSUME NEW w \in Writers, Fails(w)
      PROVE  Settled'
  BY <1>0, <1>4 DEF Fails, Settled
<1>5. ASSUME NEW w \in Writers, NEW from, NEW to, NEW slot, Step(w, from, to, slot),
             from # "settle", \A s \in Slots : ram'[s].named = ram[s].named
      PROVE  Settled'
  BY <1>0, <1>5 DEF Step, Settled
<1>6. ASSUME NEW w \in Writers, CopyRest(w)
      PROVE  Settled'
  <2>1. Step(w, "rest", "settle", job[w].slot)
    BY <1>6 DEF CopyRest
  <2>2. \A s \in Slots \ {job[w].slot} : ram'[s] = ram[s]
    BY <1>0, <1>6 DEF CopyRest
  <2>3. /\ job[w].at = "rest" /\ job'[w].at = "settle" /\ job'[w].slot = job[w].slot
        /\ \A v \in Writers \ {w} : job'[v] = job[v]
        /\ loaded' = loaded
    <3>1. JobTypes /\ job[w].slot \in Slots
      BY DEF FieldsInv, JobTypes
    <3>2. /\ job[w].at = "rest" /\ \A v \in Writers \ {w} : job'[v] = job[v]
          /\ job'[w] = [at |-> "settle", slot |-> job[w].slot, req |-> job[w].req]
          /\ UNCHANGED <<loaded, kind, alone, test, backup>>
      BY <2>1, <3>1, FieldsStepJob
    <3> QED BY <3>2
  <2> QED BY <2>2, <2>3 DEF Settled
<1>7. ASSUME NEW w \in Writers, Settle(w)
      PROVE  Settled'
  <2>1. PICK to, slot : Step(w, "settle", to, slot)
    BY <1>7 DEF Settle
  <2>2. /\ \A s \in Slots \ {job[w].slot} : ram'[s] = ram[s]
        /\ ram'[job[w].slot].named
    BY <1>0, <1>7, SanitizeFacts DEF Settle
  <2> QED BY <1>0, <2>1, <2>2 DEF Step, Settled
<1>8. ASSUME NEW w \in Writers, CopyFlags(w)
      PROVE  Settled'
  <2>1. \A s \in Slots : ram'[s].named = ram[s].named
    BY <1>0, <1>8 DEF CopyFlags, Config
  <2> QED BY <1>5, <1>8, <2>1 DEF CopyFlags
<1>9. ASSUME NEW w \in Writers, Save(w) \/ SetKeyOn(w) \/ SetKeyHost(w) \/ Commit(w)
      PROVE  Settled'
  <2>1. PICK from, to, slot : Step(w, from, to, slot) /\ from # "settle"
    BY <1>9 DEF Save, SetKeyOn, SetKeyHost, Commit
  <2> QED BY <1>5, <1>9, <2>1 DEF Save, SetKeyOn, SetKeyHost, Commit
<1>10. CASE TestStarts \/ TestSnapshot \/ TestEnds
  BY <1>10 DEF TestStarts, TestSnapshot, TestEnds, Settled
<1>11. CASE TestRestores \/ \E req \in Tests : TestStores(req)
  BY <1>3, <1>11 DEF TestRestores, TestStores
<1>12. CASE \/ \E req \in Posts : PostSlots(req)
            \/ \E s \in Enables, on \in BOOLEAN : SlotEnable(s, on)
  BY <1>3, <1>12 DEF PostSlots, SlotEnable
<1> QED BY <1>1, <1>2, <1>4, <1>6, <1>7, <1>8, <1>9, <1>10, <1>11, <1>12
        DEF StoreSlots, Failure, RunSelfTest

LEMMA TestTypesStep ==
  ASSUME FieldsInv, TestInv, StoreSlots(Posts, Enables) \/ Failure \/ RunSelfTest
  PROVE  TestTypes'
<1>0. /\ TestTypes /\ Snapshot /\ ram \in [Slots -> Config]
      /\ \A w \in Writers : ~Idle(w) => loaded
  BY DEF TestInv, FieldsInv, StoreTypes, AskedBy
<1>1. CASE Load \/ LoadFails \/ Reset
  <2>1. CASE Load
    BY <1>0, <2>1 DEF Load, TestTypes, tests
  <2>2. CASE LoadFails
    <3>1. ~loaded /\ UNCHANGED <<loaded, test, backup, before>> /\ calm' = FALSE
      BY <2>2 DEF LoadFails, tests
    <3>2. test = "off"
      BY <1>0, <3>1 DEF TestTypes
    <3> QED BY <1>0, <3>1, <3>2 DEF TestTypes
  <2>3. CASE Reset
    <3>1. test' = "off" /\ backup' = <<>> /\ before' = <<>> /\ calm' = FALSE
      BY <2>3 DEF Reset, Forget
    <3> QED BY <3>1 DEF TestTypes
  <2> QED BY <1>1, <2>1, <2>2, <2>3
<1>2. ASSUME NEW w, NEW first, NEW req, BeginSet(w, first, req), UNCHANGED tests
      PROVE  TestTypes'
  BY <1>0, <1>2 DEF BeginSet, Begin, TestTypes, tests
<1>3. CASE TestRestores
  <2>1. /\ test = "running" /\ test' = "restoring" /\ UNCHANGED <<backup, before, loaded>>
        /\ Tester \in Writers /\ calm' = (calm /\ Tester = Tester)
    BY <1>3 DEF TestRestores, BeginSet, Begin
  <2> QED BY <1>0, <2>1 DEF TestTypes, Snapshot
<1>4. ASSUME NEW w \in Writers,
             \/ CopyFlags(w) \/ CopyRest(w) \/ Settle(w)
             \/ Save(w) \/ SetKeyOn(w) \/ SetKeyHost(w) \/ Commit(w) \/ Fails(w)
      PROVE  TestTypes'
  <2>1. UNCHANGED <<loaded, test, backup, before>>
    BY <1>4 DEF CopyFlags, CopyRest, Settle, Save, SetKeyOn, SetKeyHost, Commit, Fails, Step, tests
  <2>2. CASE Fails(w)
    <3>1. calm' = FALSE
      BY <2>2 DEF Fails
    <3> QED BY <1>0, <2>1, <3>1 DEF TestTypes
  <2>3. CASE ~Fails(w)
    <3>1. calm' = calm
      BY <1>4, <2>3 DEF CopyFlags, CopyRest, Settle, Save, SetKeyOn, SetKeyHost, Commit, Step
    <3> QED BY <1>0, <2>1, <3>1 DEF TestTypes
  <2> QED BY <2>2, <2>3
<1>5. CASE TestStarts
  BY <1>0, <1>5 DEF TestStarts, TestTypes
<1>6. CASE TestSnapshot
  <2>1. /\ test = "snapshot" /\ test' \in {"running", "snapshot"}
        /\ UNCHANGED <<loaded, before, calm>>
    BY <1>6 DEF TestSnapshot
  <2> QED BY <1>0, <2>1 DEF TestTypes
<1>7. CASE TestEnds
  BY <1>7 DEF TestEnds, Forget, TestTypes
<1>8. CASE \/ \E req \in Posts : PostSlots(req)
           \/ \E s \in Enables, on \in BOOLEAN : SlotEnable(s, on)
           \/ \E req \in Tests : TestStores(req)
  BY <1>2, <1>8 DEF PostSlots, SlotEnable, TestStores
<1> QED BY <1>1, <1>3, <1>4, <1>5, <1>6, <1>7, <1>8 DEF StoreSlots, Failure, RunSelfTest

(* The only writer there is goes on: at the end of the restoring, what it stored *)
(* is all there is.                                                              *)
LEMMA TesterGoesOn ==
  ASSUME FieldsInv, TestInv, calm, NEW w \in Writers,
         \/ CopyFlags(w) \/ CopyRest(w) \/ Settle(w)
         \/ Save(w) \/ SetKeyOn(w) \/ SetKeyHost(w) \/ Commit(w)
  PROVE  Undisturbed'
<1>1. PICK from, to, slot : /\ Step(w, from, to, slot) /\ from # "idle"
                            /\ to = "idle" => Commit(w)
  <2>1. CASE CopyFlags(w) \/ CopyRest(w) \/ Save(w) \/ SetKeyOn(w)
    BY <2>1 DEF CopyFlags, CopyRest, Save, SetKeyOn
  <2>2. CASE Settle(w)
    BY <2>2 DEF Settle
  <2>3. CASE SetKeyHost(w)
    BY <2>3 DEF SetKeyHost
  <2>4. CASE Commit(w)
    BY <2>4 DEF Commit
  <2> QED BY <2>1, <2>2, <2>3, <2>4
<1>2. /\ job[w].at # "idle" /\ job'[w].at = to /\ job'[w].req = job[w].req
      /\ \A v \in Writers \ {w} : job'[v] = job[v]
      /\ UNCHANGED <<loaded, alone, test, backup, before, calm>>
  <2>1. JobTypes
    BY DEF FieldsInv
  <2>2. /\ job[w].at = from /\ job'[w] = [at |-> to, slot |-> slot, req |-> job[w].req]
        /\ \A v \in Writers \ {w} : job'[v] = job[v]
        /\ UNCHANGED <<loaded, kind, alone, test, backup>>
    <3>1. Step(w, from, to, slot)
      BY <1>1
    <3> QED BY <2>1, <3>1, FieldsStepJob
  <2>3. UNCHANGED <<before, calm>>
    BY <1>1 DEF Step, tests
  <2> QED BY <1>1, <2>2, <2>3
<1>3. w = Tester /\ test # "snapshot" /\ Undisturbed /\ TestTypes
  BY <1>2 DEF TestInv, Undisturbed, Idle
<1>4. test = "restoring" => job[w].req = before /\ alone[w]
  BY <1>2, <1>3 DEF Undisturbed, Idle
<1>5. ASSUME test = "restoring", to = "idle"
      PROVE  ram' = before /\ blob' = before
  <2>1. /\ job[w].at = "commit" /\ UNCHANGED <<ram, blob>> /\ DoneBy(w)
    BY <1>1, <1>5 DEF Commit, Step, FieldsInv
  <2>2. before \in [Slots -> Config] /\ ram \in [Slots -> Config]
    BY <1>3, <1>5 DEF TestTypes, FieldsInv, StoreTypes
  <2>3. blob = ram /\ \A s \in Slots : ram[s] = Sanitize(before[s])
    BY <1>2, <1>4, <1>5, <2>1, <2>2 DEF DoneBy, Idle, Copying, Saved
  <2>4. \A s \in Slots : ram[s] = before[s]
    BY <1>3, <2>3 DEF Undisturbed, Sanitize
  <2> QED BY <2>1, <2>2, <2>3, <2>4
<1>6. /\ \A v \in Writers \ {Tester} : (Idle(v))'
      /\ \A s \in Slots : before'[s].named
      /\ \A s \in DOMAIN backup' : backup'[s] = before'[s]
  BY <1>2, <1>3 DEF Undisturbed, Idle
<1>7. test' = "restoring" => IF (Idle(Tester))' THEN ram' = before' /\ blob' = before'
                                               ELSE job'[Tester].req = before' /\ alone'[Tester]
  BY <1>2, <1>3, <1>4, <1>5 DEF Idle
<1> QED BY <1>2, <1>3, <1>6, <1>7 DEF Undisturbed

LEMMA UndisturbedStep ==
  ASSUME FieldsInv, TestInv, StoreSlots(Posts, Enables) \/ Failure \/ RunSelfTest
  PROVE  Undisturbed'
<1>0. Undisturbed /\ TestTypes /\ Settled /\ Snapshot
  BY DEF TestInv, FieldsInv
<1>1. CASE Load
  <2>1. ~calm' /\ TRUE
    BY <1>0, <1>1 DEF Load, TestTypes, FieldsInv, Snapshot
  <2> QED BY <2>1 DEF Undisturbed
<1>2. CASE LoadFails \/ Reset \/ TestEnds \/ \E w \in Writers : Fails(w)
  <2>1. calm' = FALSE
    BY <1>2 DEF LoadFails, Reset, TestEnds, Forget, Fails
  <2> QED BY <2>1 DEF Undisturbed
<1>3. CASE \/ \E req \in Posts : PostSlots(req)
           \/ \E s \in Enables, on \in BOOLEAN : SlotEnable(s, on)
  <2>1. ~calm'
    BY <1>3 DEF PostSlots, SlotEnable, BeginSet, Begin
  <2> QED BY <2>1 DEF Undisturbed
<1>4. ASSUME NEW w \in Writers,
             \/ CopyFlags(w) \/ CopyRest(w) \/ Settle(w)
             \/ Save(w) \/ SetKeyOn(w) \/ SetKeyHost(w) \/ Commit(w)
      PROVE  Undisturbed'
  <2>1. CASE calm
    BY <1>4, <2>1, TesterGoesOn
  <2>2. CASE ~calm
    <3>1. calm' = calm
      BY <1>4 DEF CopyFlags, CopyRest, Settle, Save, SetKeyOn, SetKeyHost, Commit, Step
    <3> QED BY <2>2, <3>1 DEF Undisturbed
  <2> QED BY <2>1, <2>2
<1>5. CASE TestStarts
  <2>1. /\ test' = "snapshot" /\ backup' = <<>> /\ before' = ram /\ UNCHANGED <<ram, job>>
        /\ loaded /\ Tester \in Writers /\ calm' = \A w \in Writers : Idle(w)
    BY <1>5 DEF TestStarts
  <2>2. DOMAIN backup' = {}
    BY <2>1
  <2>3. calm' => \A s \in Slots : ram[s].named
    BY <1>0, <2>1 DEF Settled, Idle
  <2> QED BY <2>1, <2>2, <2>3 DEF Undisturbed, Idle
<1>6. CASE TestSnapshot
  <2> SUFFICES ASSUME calm PROVE Undisturbed'
    BY <1>6 DEF TestSnapshot, Undisturbed
  <2>1. PICK k \in 0..(NumSlots - 1) : /\ backup \in [1..k -> Config]
                                      /\ Cardinality(DOMAIN backup) = k
    BY <1>0, <1>6, SnapshotLength DEF TestSnapshot
  <2>2. /\ backup' = [t \in 1..(k + 1) |-> IF t = k + 1 THEN ram[t] ELSE backup[t]]
        /\ test = "snapshot" /\ test' \in {"running", "snapshot"}
        /\ UNCHANGED <<ram, job, before, calm>>
    BY <1>6, <2>1 DEF TestSnapshot
  <2>3. /\ Idle(Tester) /\ ram = before /\ \A s \in DOMAIN backup : backup[s] = before[s]
        /\ \A w \in Writers \ {Tester} : Idle(w)
        /\ \A s \in Slots : before[s].named
    BY <1>0, <2>2 DEF Undisturbed
  <2>4. \A t \in 1..(k + 1) : t = k + 1 \/ t \in DOMAIN backup
    BY <2>1, StoreAssumption
  <2>5. \A t \in DOMAIN backup' : backup'[t] = before'[t]
    BY <2>2, <2>3, <2>4
  <2> QED BY <2>2, <2>3, <2>5 DEF Undisturbed, Idle
<1>7. CASE TestRestores \/ \E req \in Tests : TestStores(req)
  <2> SUFFICES ASSUME calm PROVE Undisturbed'
    BY <1>7 DEF TestRestores, TestStores, BeginSet, Begin, Undisturbed
  <2>1. PICK req : /\ BeginSet(Tester, 1, req) /\ test = "running"
                   /\ UNCHANGED <<backup, before>>
                   /\ test' = "running" \/ (test' = "restoring" /\ req = backup)
    BY <1>7 DEF TestRestores, TestStores, tests
  <2>2. /\ Tester \in Writers
        /\ job' = [job EXCEPT ![Tester] = [at |-> "flags", slot |-> 1, req |-> req]]
        /\ alone' = [v \in Writers |-> IF v = Tester
                                        THEN \A u \in Writers \ {Tester} : Idle(u)
                                        ELSE alone[v] /\ Idle(v)]
    BY <2>1 DEF BeginSet, Begin
  <2>3. /\ \A w \in Writers \ {Tester} : Idle(w) /\ job'[w] = job[w]
        /\ \A s \in Slots : before[s].named
        /\ \A s \in DOMAIN backup : backup[s] = before[s]
    BY <1>0, <2>2 DEF Undisturbed
  <2>4. /\ job'[Tester] = [at |-> "flags", slot |-> 1, req |-> req] /\ alone'[Tester]
    BY <2>2, <2>3 DEF FieldsInv, JobTypes
  <2>5. backup = before
    <3>1. backup \in [Slots -> Config] /\ before \in [Slots -> Config]
      BY <1>0, <2>1 DEF Snapshot, TestTypes
    <3> QED BY <2>3, <3>1
  <2> QED BY <2>1, <2>3, <2>4, <2>5 DEF Undisturbed, Idle
<1> QED BY <1>1, <1>2, <1>3, <1>4, <1>5, <1>6, <1>7 DEF StoreSlots, Failure, RunSelfTest

LEMMA TestStep ==
  ASSUME FieldsInv, TestInv,
         StoreSlots(Posts, Enables) \/ Failure \/ RunSelfTest \/ UNCHANGED vars
  PROVE  TestInv'
<1>1. CASE UNCHANGED vars
  BY <1>1 DEF vars, flash, tests, TestInv, Settled, TestTypes, Undisturbed, Idle
<1>2. CASE StoreSlots(Posts, Enables) \/ Failure \/ RunSelfTest
  BY <1>2, SettledStep, TestTypesStep, UndisturbedStep DEF TestInv
<1> QED BY <1>1, <1>2

PartsInv ==
  /\ part \in Parts
  /\ part # "selftest" => OneInv
  /\ part = "selftest" => FieldsInv /\ TestInv

LEMMA PartsInitially == MCInit => PartsInv
BY OneInitially, FieldsInitially, TestInitially DEF MCInit, PartsInv

LEMMA PartsStep == PartsInv /\ [MCNext]_<<part, vars>> => PartsInv'
<1> SUFFICES ASSUME PartsInv, [MCNext]_<<part, vars>> PROVE PartsInv'
  OBVIOUS
<1>1. /\ part' = part /\ part \in Parts
      /\ \/ StoreSlots(Posts, Enables) \/ Failure \/ UNCHANGED vars
         \/ part = "keys" /\ StoreKeys
         \/ part = "selftest" /\ RunSelfTest
  BY PartStores DEF PartsInv, MCNext
<1>2. CASE part = "selftest"
  BY <1>1, <1>2, FieldsStep, TestStep DEF PartsInv
<1>3. CASE part # "selftest"
  BY <1>1, <1>3, OneStep DEF PartsInv
<1> QED BY <1>2, <1>3

LEMMA OneFacts ==
  ASSUME OneInv
  PROVE  TypeOK /\ FieldsRecoverable /\ LegacyAgrees /\ SelfTestRestores
<1>1. StoreTypes /\ BlobMeant
  BY DEF OneInv, ReadingInv, FieldsInv, FieldsMeant
<1>2. FieldsRecoverable
  BY <1>1, BlobFacts
<1>3. LegacyAgrees
  <2> SUFFICES ASSUME NEW s \in LegacySlots, NEW c \in Config, legit[s] = {c}
               PROVE  legacy[s] = [on |-> c.on, host |-> c.host]
    BY DEF LegacyAgrees
  <2>1. legacy[s] \in [on: BOOLEAN, host: Hosts]
    BY <1>1 DEF StoreTypes
  <2>2. legacy[s].on = c.on /\ legacy[s].host = c.host
    BY DEF OneInv, LegacyMeant
  <2> QED BY <2>1, <2>2
<1>4. ASSUME NEW w \in Writers PROVE job[w].at \in Places /\ job[w].slot \in Slots
  <2>1. 1 \in Slots /\ LegacySlots \subseteq Slots
    BY StoreAssumption, SlotFacts DEF Slots
  <2>2. CASE w # Web
    BY <2>1, <2>2 DEF OneInv, OneJob, NoJob, Places
  <2>3. CASE w = Web /\ Job.at \in Reading
    BY <2>1, <2>3 DEF OneInv, ReadingInv, ReadBack, Reading, Places, Job
  <2>4. CASE w = Web /\ Job.at \notin Reading
    BY <2>4 DEF OneInv, FieldsInv, JobTypes, Copying, Saved, Places
  <2> QED BY <2>2, <2>3, <2>4
<1>5. TypeOK
  <2>1. alone \in [Writers -> BOOLEAN] /\ test = "off"
        /\ backup = <<>> /\ before = <<>> /\ calm = FALSE
    BY DEF OneInv
  <2>2. DOMAIN backup = {}
    BY <2>1
  <2>3. before \in [Slots -> Config] \cup {<<>>} /\ calm \in BOOLEAN
    BY <2>1
  <2> QED BY <1>1, <1>4, <2>1, <2>2, <2>3 DEF TypeOK, StoreTypes
<1>6. SelfTestRestores
  BY DEF SelfTestRestores, OneInv
<1> QED BY <1>2, <1>3, <1>5, <1>6

LEMMA TestFacts ==
  ASSUME FieldsInv, TestInv
  PROVE  TypeOK /\ FieldsRecoverable /\ SelfTestRestores
<1>1. FieldsRecoverable
  BY FieldsFacts
<1>2. SelfTestRestores
  BY DEF SelfTestRestores, TestInv, Undisturbed
<1>3. \A w \in Writers : job[w].at \in Places /\ job[w].slot \in Slots
  BY DEF FieldsInv, JobTypes, Copying, Saved, Places
<1>4. \A s \in DOMAIN backup : backup[s] \in Config
  BY DEF FieldsInv, TestInv, TestTypes, Snapshot
<1>5. before \in [Slots -> Config] \cup {<<>>} /\ calm \in BOOLEAN
  BY DEF TestInv, TestTypes
<1>6. TypeOK
  BY <1>3, <1>4, <1>5 DEF TypeOK, FieldsInv, StoreTypes, JobTypes, Snapshot
<1> QED BY <1>1, <1>2, <1>6

(* Where configurations are posted under the legacy keys, too, or a self-test  *)
(* stores beside the HTTP task: a reset still brings back, field by field,     *)
(* what was requested; with one writer, the keys of a slot hold what was last  *)
(* acknowledged, so that reading them back changes nothing; and a self-test    *)
(* that nothing disturbed leaves the store as it found it.                     *)
THEOREM LegacyRecoversCorrect == MCSpec => []LegacyRecovers
<1>1. MCInit => PartsInv
  BY PartsInitially
<1>2. PartsInv /\ [MCNext]_<<part, vars>> => PartsInv'
  BY PartsStep
<1>3. PartsInv => LegacyRecovers
  BY OneFacts, TestFacts DEF PartsInv, LegacyRecovers
<1> QED BY <1>1, <1>2, <1>3, PTL DEF MCSpec

=============================================================================
