------------------------------ MODULE NtripStore ------------------------------
(***************************************************************************)
(* The store of the NTRIP slot configurations (main/ntrip_slots.c): a copy *)
(* in RAM, a blob with all slots in flash, and for the first two slots the *)
(* keys of the older firmware, which the configuration page still posts.   *)
(*                                                                         *)
(* None of it is locked.  The writers are the HTTP server task and the     *)
(* self-test task; a step is one copy of a part of a slot or one call of   *)
(* the NVS library, which fails or succeeds; a legacy key that cannot be   *)
(* read is taken for its default.  The device may be reset between any two *)
(* steps.                                                                  *)
(*                                                                         *)
(* Abstractions: of a configuration the model keeps enabled, use_tls, one  *)
(* of the strings the legacy keys hold (host) and whether name is empty;   *)
(* a value NVS has accepted survives a reset (the library writes through). *)
(***************************************************************************)
EXTENDS Integers, FiniteSets

CONSTANTS
  NumSlots,  \* NTRIP_SLOT_COUNT
  Writers,   \* the tasks that store: Web, and Tester where self-tests run
  Hosts,     \* hosts, NoHost among them
  NoHost,    \* the empty string
  Posts,     \* what POST /api/ntrip/slots stores: functions on Slots
  Enables,   \* slots the enable and disable handlers are called for
  KeyPosts,  \* hosts posted to POST /config under a legacy key
  Tests      \* what the self-test stores: functions on Slots

Slots       == 1..NumSlots
LegacySlots == 1..2

Config == [on: BOOLEAN, tls: BOOLEAN, host: Hosts, named: BOOLEAN]
Default == [on |-> FALSE, tls |-> FALSE, host |-> NoHost, named |-> TRUE]

Web    == "httpd"
Tester == "self-test"

ASSUME StoreAssumption ==
  /\ NumSlots \in Nat /\ NumSlots >= 2
  /\ Web \in Writers /\ Writers \subseteq {Web, Tester}
  /\ NoHost \in Hosts
  /\ Posts \subseteq [Slots -> Config]
  /\ Tests \subseteq [Slots -> Config]
  /\ Enables \subseteq Slots
  /\ KeyPosts \subseteq Hosts

VARIABLES
  ram, loaded,   \* s_ntrip_store, s_ntrip_store_loaded
  blob, kind,    \* in flash: the blob, which may be missing ("none") or of
                 \* another version or size ("bad")
  legacy,        \* in flash: the keys of the older firmware
  job,           \* job[w]: what writer w is doing: its place, the slot it is
                 \* at, and the configurations it stores
  legit,         \* legit[s]: history: the configuration last acknowledged for
                 \* the slot, those requested since, and any of these without
                 \* what a legacy key that could not be read had in it
  alone,         \* alone[w]: history: no other write overlaps the one of w
  test, backup,  \* the self-test: its phase and its snapshot
  before, calm   \* history: the store when the self-test began; nothing else
                 \* has happened since

flash == <<blob, kind, legacy>>
tests == <<test, backup, before>>
vars  == <<ram, loaded, flash, job, legit, alone, tests, calm>>

Places == {"idle", "flags", "rest", "settle", "save", "keyOn", "keyHost",
           "commit", "blank", "readOn", "readHost", "saveRead"}

NoJob == [at |-> "idle", slot |-> 1, req |-> <<>>]

Idle(w) == job[w].at = "idle"

(* ntrip_slot_sanitize: a slot without a name is put back to its default. *)
Sanitize(c) == IF c.named THEN c ELSE Default

LegacyConfig(s) ==
  IF s \in LegacySlots
    THEN [Default EXCEPT !.on = legacy[s].on, !.host = legacy[s].host]
    ELSE Default

Migrated == [s \in Slots |-> LegacyConfig(s)]

LegacyInUse ==
  \E s \in LegacySlots : legacy[s].on \/ legacy[s].host # NoHost

Valid == kind = "valid"

(* A configuration of which what is lost could not be read from its keys, and *)
(* a store of them.                                                          *)
Misreads == [LegacySlots -> SUBSET {"on", "host"}]

Without(c, lost) ==
  [c EXCEPT !.on   = IF "on" \in lost THEN Default.on ELSE @,
            !.host = IF "host" \in lost THEN Default.host ELSE @]

AllWithout(store, lost) ==
  [s \in Slots |-> IF s \in LegacySlots THEN Without(store[s], lost[s]) ELSE store[s]]

WithLoss(s, lost) == legit[s] \cup {Without(c, lost) : c \in legit[s]}

(* What ntrip_slots_store_load makes of the flash if it can read it. *)
FromFlash ==
  CASE kind = "none" ->
         IF LegacyInUse THEN Migrated ELSE [s \in Slots |-> Default]
    [] kind = "bad" -> Migrated
    [] OTHER -> [s \in Slots |-> Sanitize(blob[s])]

(* The flash of a new device, of one that ran a firmware without slots, and *)
(* of one that ran this one.                                                *)
Init ==
  /\ legacy \in [LegacySlots -> [on: BOOLEAN, host: Hosts]]
  /\ kind \in {"none", "bad", "valid"}
  /\ IF Valid THEN blob \in Posts \cup {[s \in Slots |-> Default]}
              ELSE blob = [s \in Slots |-> Default]
  /\ Valid => \A s \in LegacySlots :
       /\ blob[s].named
       /\ legacy[s] = [on |-> blob[s].on, host |-> blob[s].host]
  /\ ram = [s \in Slots |-> [Default EXCEPT !.named = FALSE]]
  /\ loaded = FALSE
  /\ job = [w \in Writers |-> NoJob]
  /\ legit = [s \in Slots |->
               {IF Valid THEN Sanitize(blob[s]) ELSE LegacyConfig(s)}]
  /\ alone = [w \in Writers |-> TRUE]
  /\ test = "off"
  /\ backup = <<>>
  /\ before = <<>>
  /\ calm = FALSE

-----------------------------------------------------------------------------
(* Loading, by whoever calls first; a rebuilt store is saved at once, with *)
(* what was lost.  (A key that fails when the firmware asks whether any is  *)
(* in use makes it store defaults: all is lost.)                           *)

Load ==
  /\ ~loaded
  /\ loaded' = TRUE
  /\ \/ /\ Valid
        /\ ram' = FromFlash
        /\ UNCHANGED <<blob, legit>>
     \/ \E lost \in Misreads :
          /\ ~Valid
          /\ ram' = AllWithout(FromFlash, lost)
          /\ blob' = ram'
          /\ legit' = [s \in Slots |-> IF s \in LegacySlots THEN WithLoss(s, lost[s])
                                                          ELSE legit[s]]
  /\ kind' = "valid"
  /\ UNCHANGED <<legacy, job, alone, tests, calm>>

LoadFails ==
  /\ ~loaded
  /\ \/ ram' = ram
     \/ ~Valid /\ \E lost \in Misreads : ram' = AllWithout(FromFlash, lost)
  /\ calm' = FALSE
  /\ UNCHANGED <<loaded, flash, job, legit, alone, tests>>

-----------------------------------------------------------------------------
(* Beginnings of the calls *)

Begin(w, at, first, req) ==
  /\ w \in Writers /\ Idle(w)
  /\ loaded
  /\ job' = [job EXCEPT ![w] = [at |-> at, slot |-> first, req |-> req]]
  /\ alone' = [v \in Writers |-> IF v = w THEN \A u \in Writers \ {w} : Idle(u)
                                          ELSE alone[v] /\ Idle(v)]
  /\ calm' = (calm /\ w = Tester)
  /\ UNCHANGED <<ram, loaded, blob, kind>>

(* While it is not acknowledged, a request may be seen before sanitize, too. *)
BeginSet(w, first, req) ==
  /\ Begin(w, "flags", first, req)
  /\ legit' = [s \in Slots |->
                IF s \in DOMAIN req
                  THEN legit[s] \cup {req[s], Sanitize(req[s])}
                  ELSE legit[s]]
  /\ UNCHANGED legacy

PostSlots(req) ==
  /\ BeginSet(Web, 1, req)
  /\ UNCHANGED tests

(* ntrip_runtime_slot_enable: the configuration read, changed and stored. *)
SlotEnable(s, on) ==
  /\ BeginSet(Web, s, [t \in {s} |-> [ram[t] EXCEPT !.on = on]])
  /\ UNCHANGED tests

WithHost(s, h) == [legit EXCEPT ![s] = @ \cup {[c EXCEPT !.host = h] : c \in @}]

(* POST /config with the host of slot s under its legacy key: the key is set *)
(* and the keys of both slots are read back into the store.                  *)
PostKey(s, h) ==
  /\ Begin(Web, "blank", 1, [t \in {s} |-> h])
  /\ legacy' = [legacy EXCEPT ![s].host = h]
  /\ legit' = WithHost(s, h)
  /\ UNCHANGED tests

(* The store cannot be loaded to be updated; the key is set all the same. *)
PostKeyUnloaded(s, h) ==
  /\ ~loaded
  /\ legacy' = [legacy EXCEPT ![s].host = h]
  /\ legit' = WithHost(s, h)
  /\ UNCHANGED <<ram, loaded, blob, kind, job, alone, tests, calm>>

-----------------------------------------------------------------------------
(* Steps of the calls *)

Step(w, from, to, slot) ==
  /\ job[w].at = from
  /\ job' = [job EXCEPT ![w].at = to, ![w].slot = slot]
  /\ UNCHANGED <<loaded, kind, alone, tests, calm>>

CopyFlags(w) ==
  LET s == job[w].slot IN
  /\ Step(w, "flags", "rest", s)
  /\ ram' = [ram EXCEPT ![s].on = job[w].req[s].on, ![s].tls = job[w].req[s].tls]
  /\ UNCHANGED <<blob, legacy, legit>>

CopyRest(w) ==
  LET s == job[w].slot IN
  /\ Step(w, "rest", "settle", s)
  /\ ram' = [ram EXCEPT ![s].host = job[w].req[s].host,
                        ![s].named = job[w].req[s].named]
  /\ UNCHANGED <<blob, legacy, legit>>

(* mutant: the slot is left as it was posted *)
SettleUnchecked(w) ==
  LET s == job[w].slot IN
  /\ IF s + 1 \in DOMAIN job[w].req THEN Step(w, "settle", "flags", s + 1)
                                    ELSE Step(w, "settle", "save", 1)
  /\ UNCHANGED <<ram, blob, legacy, legit>>

Settle(w) ==
  LET s == job[w].slot IN
  /\ IF s + 1 \in DOMAIN job[w].req THEN Step(w, "settle", "flags", s + 1)
                                    ELSE Step(w, "settle", "save", 1)
  /\ ram' = [ram EXCEPT ![s] = Sanitize(@)]
  /\ UNCHANGED <<blob, legacy, legit>>

SaveNothing(w) ==                                                     \* mutant
  /\ Step(w, "save", "keyOn", 1)
  /\ UNCHANGED <<ram, blob, legacy, legit>>

Save(w) ==
  /\ Step(w, "save", "keyOn", 1)
  /\ blob' = ram
  /\ UNCHANGED <<ram, legacy, legit>>

SetKeyOn(w) ==
  LET s == job[w].slot IN
  /\ Step(w, "keyOn", "keyHost", s)
  /\ legacy' = [legacy EXCEPT ![s].on = ram[s].on]
  /\ UNCHANGED <<ram, blob, legit>>

SetKeyHostOnce(w) ==                                                  \* mutant
  LET s == job[w].slot IN
  /\ Step(w, "keyHost", "commit", 1)
  /\ legacy' = [legacy EXCEPT ![s].host = ram[s].host]
  /\ UNCHANGED <<ram, blob, legit>>

SetKeyHost(w) ==
  LET s == job[w].slot IN
  /\ IF s + 1 \in LegacySlots THEN Step(w, "keyHost", "keyOn", s + 1)
                              ELSE Step(w, "keyHost", "commit", 1)
  /\ legacy' = [legacy EXCEPT ![s].host = ram[s].host]
  /\ UNCHANGED <<ram, blob, legit>>

(* The call returns ESP_OK. *)
Commit(w) ==
  /\ Step(w, "commit", "idle", 1)
  /\ legit' = [s \in Slots |->
                IF alone[w] /\ s \in DOMAIN job[w].req
                  THEN {Sanitize(job[w].req[s])}
                  ELSE legit[s]]
  /\ UNCHANGED <<ram, blob, legacy>>

(* ntrip_slot_read_legacy, straight into the store. *)
Blank(w) ==
  LET s == job[w].slot IN
  /\ Step(w, "blank", "readOn", s)
  /\ ram' = [ram EXCEPT ![s] = Default]
  /\ UNCHANGED <<blob, legacy, legit>>

ReadOn(w) ==
  LET s == job[w].slot IN
  /\ Step(w, "readOn", "readHost", s)
  /\ \/ ram' = [ram EXCEPT ![s].on = legacy[s].on] /\ legit' = legit
     \/ ram' = [ram EXCEPT ![s].on = Default.on]
        /\ legit' = [legit EXCEPT ![s] = WithLoss(s, {"on"})]
  /\ UNCHANGED <<blob, legacy>>

ReadHost(w) ==
  LET s == job[w].slot IN
  /\ IF s + 1 \in LegacySlots THEN Step(w, "readHost", "blank", s + 1)
                              ELSE Step(w, "readHost", "saveRead", 1)
  /\ ram' = [ram EXCEPT ![s].host = legacy[s].host]
  /\ UNCHANGED <<blob, legacy, legit>>

(* The host is left blank, and if it was the one posted, what the call will *)
(* acknowledge is not what it stores.                                      *)
MissHost(w) ==
  LET s == job[w].slot
      posted == DOMAIN job[w].req IN
  /\ job[w].at = "readHost"
  /\ job' = [job EXCEPT ![w] =
               [at   |-> IF s + 1 \in LegacySlots THEN "blank" ELSE "saveRead",
                slot |-> IF s + 1 \in LegacySlots THEN s + 1 ELSE 1,
                req  |-> [t \in posted \ {s} |-> job[w].req[t]]]]
  /\ ram' = [ram EXCEPT ![s].host = NoHost]
  /\ legit' = [legit EXCEPT ![s] = WithLoss(s, {"host"})]
  /\ UNCHANGED <<loaded, flash, alone, tests, calm>>

SaveRead(w) ==
  /\ Step(w, "saveRead", "idle", 1)
  /\ blob' = ram
  /\ legit' = [s \in Slots |->
                IF alone[w] /\ s \in DOMAIN job[w].req
                  THEN {[c EXCEPT !.host = job[w].req[s]] : c \in legit[s]}
                  ELSE legit[s]]
  /\ UNCHANGED <<ram, legacy>>

(* An NVS call fails and the function returns the error; the blob may have *)
(* been written when only its commit failed.                               *)
Fails(w) ==
  /\ job[w].at \in {"save", "keyOn", "keyHost", "commit", "saveRead"}
  /\ job' = [job EXCEPT ![w].at = "idle"]
  /\ \/ blob' = blob
     \/ job[w].at \in {"save", "saveRead"} /\ blob' = ram
  /\ calm' = FALSE
  /\ UNCHANGED <<ram, loaded, kind, legacy, legit, alone, tests>>

-----------------------------------------------------------------------------
(* The self-test: a snapshot slot by slot, its own configurations, and the *)
(* snapshot again, whatever became of the steps between.                   *)

Forget == test' = "off" /\ backup' = <<>> /\ before' = <<>> /\ calm' = FALSE

TestStarts ==
  /\ Tester \in Writers
  /\ loaded
  /\ test = "off"
  /\ test' = "snapshot"
  /\ backup' = <<>>
  /\ before' = ram
  /\ calm' = \A w \in Writers : Idle(w)
  /\ UNCHANGED <<ram, loaded, flash, job, legit, alone>>

TestSnapshot ==
  LET s == Cardinality(DOMAIN backup) + 1 IN
  /\ test = "snapshot"
  /\ backup' = [t \in 1..s |-> IF t = s THEN ram[t] ELSE backup[t]]
  /\ test' = IF s = NumSlots THEN "running" ELSE "snapshot"
  /\ UNCHANGED <<ram, loaded, flash, job, legit, alone, before, calm>>

TestStores(req) ==
  /\ test = "running"
  /\ BeginSet(Tester, 1, req)
  /\ UNCHANGED tests

TestRestores ==
  /\ test = "running"
  /\ BeginSet(Tester, 1, backup)
  /\ test' = "restoring"
  /\ UNCHANGED <<backup, before>>

TestEnds ==
  /\ test = "restoring"
  /\ Idle(Tester)
  /\ Forget
  /\ UNCHANGED <<ram, loaded, flash, job, legit, alone>>

-----------------------------------------------------------------------------
Reset ==
  /\ ram' = [s \in Slots |-> [Default EXCEPT !.named = FALSE]]
  /\ loaded' = FALSE
  /\ job' = [w \in Writers |-> NoJob]
  /\ alone' = [w \in Writers |-> TRUE]
  /\ Forget
  /\ UNCHANGED <<flash, legit>>

StoreSlots(posts, enables) ==
  \/ Load
  \/ \E req \in posts : PostSlots(req)
  \/ \E s \in enables, on \in BOOLEAN : SlotEnable(s, on)
  \/ \E w \in Writers :
       \/ CopyFlags(w) \/ CopyRest(w) \/ Settle(w)
       \/ Save(w) \/ SetKeyOn(w) \/ SetKeyHost(w) \/ Commit(w)

Failure == LoadFails \/ Reset \/ \E w \in Writers : Fails(w)

StoreKeys ==
  \/ \E s \in LegacySlots, h \in KeyPosts : PostKey(s, h) \/ PostKeyUnloaded(s, h)
  \/ \E w \in Writers :
       \/ Blank(w) \/ ReadOn(w) \/ ReadHost(w) \/ MissHost(w) \/ SaveRead(w)

RunSelfTest ==
  \/ TestStarts \/ TestSnapshot \/ TestRestores \/ TestEnds
  \/ \E req \in Tests : TestStores(req)

Next == StoreSlots(Posts, Enables) \/ Failure \/ StoreKeys \/ RunSelfTest

Spec == Init /\ [][Next]_vars

-----------------------------------------------------------------------------
(* Properties *)

Requested(s) == {c \in [on: BOOLEAN, host: Hosts] :
                  \E a, b \in legit[s] : c.on = a.on /\ c.host = b.host}

(* The types of the variables. *)
TypeOK ==
  /\ ram \in [Slots -> Config] /\ loaded \in BOOLEAN
  /\ blob \in [Slots -> Config] /\ kind \in {"none", "bad", "valid"}
  /\ legacy \in [LegacySlots -> [on: BOOLEAN, host: Hosts]]
  /\ \A w \in Writers : job[w].at \in Places /\ job[w].slot \in Slots
  /\ legit \in [Slots -> SUBSET Config]
  /\ alone \in [Writers -> BOOLEAN]
  /\ test \in {"off", "snapshot", "running", "restoring"}
  /\ \A s \in DOMAIN backup : backup[s] \in Config
  /\ before \in [Slots -> Config] \cup {<<>>} /\ calm \in BOOLEAN

(* A reset at any moment, during a store or after a failed one, brings back *)
(* for every slot, whole, the configuration acknowledged last or one that   *)
(* was requested since; only of what was taken over from the legacy keys a  *)
(* part may be blank, if its key could not be read.                         *)
Recoverable == \A s \in Slots : FromFlash[s] \in legit[s]

(* The same for enabled and the legacy strings, each by itself: what is left *)
(* of it when configurations are posted under the legacy keys, too.  Nothing *)
(* but a key that could not be read makes a part blank, and only until the   *)
(* next whole configuration of the slot is acknowledged.                     *)
FieldsRecoverable ==
  \A s \in Slots : [on |-> FromFlash[s].on, host |-> FromFlash[s].host] \in Requested(s)

(* Whatever instant the supervisor or a slot's task copies a configuration, *)
(* every field of it was acknowledged last or requested since, or is blank   *)
(* since a key could not be read.                                           *)
ReadersSeeRequested ==
  loaded => \A s \in Slots : [on |-> ram[s].on, host |-> ram[s].host] \in Requested(s)

(* Between calls the legacy keys of a slot whose last store was acknowledged *)
(* hold what was stored, so that reading them back changes nothing.          *)
LegacyAgrees ==
  (\A w \in Writers : Idle(w)) =>
    \A s \in LegacySlots, c \in Config :
      legit[s] = {c} => legacy[s] = [on |-> c.on, host |-> c.host]

(* A self-test that nothing disturbed leaves the store, in RAM and in flash, *)
(* as it found it.                                                           *)
SelfTestRestores ==
  test = "restoring" /\ Idle(Tester) /\ calm => ram = before /\ blob = before
=============================================================================
