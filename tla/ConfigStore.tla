---------------------------- MODULE ConfigStore ----------------------------
(***************************************************************************)
(* The settings of the device: config.c, which keeps one NVS key for every *)
(* entry of CONFIG_ITEMS, and the handlers of GET and POST /config, which   *)
(* print all of them and store what a payload holds, key by key, before     *)
(* they have the device restarted.  The services read their settings when   *)
(* they start.  Any call of NVS may fail, and so may the creation of the     *)
(* task that restarts the device; only those that set a value are looked at. *)
(*                                                                          *)
(* A stored value is its bytes, read as an unsigned number; ByteValues, the *)
(* values of a byte (256 in the code), scales the widths.  A text of a      *)
(* payload or of an answer is <<form, n>>: a decimal number, a colour, an   *)
(* address, a word that is no number, nothing, or CONFIG_VALUE_UNCHANGED.   *)
(***************************************************************************)
EXTENDS Integers, Sequences, FiniteSets

CONSTANTS
  Items,       \* CONFIG_ITEMS: a sequence of [type, secret, legacy, def]
  Posts,       \* payloads of users: functions from places of Items to texts
  ByteValues,
  MaxPosts, MaxResets, MaxFaults

VARIABLES
  stored,      \* what NVS holds for each item, or Absent
  committed,   \* what of it survives a reset for certain
  running,     \* the settings the services read when the device started
  page,        \* the last answer to GET /config, and whether it is current
  job,         \* the POST being handled
  answer,      \* the status of the last POST: "none", "ok" or "error"
  restarting,  \* config_restart_task waits for its second to pass
  adrift,      \* history: since the device started a post was acknowledged with
               \* no restart to come, or then a setting could not be read
  legit,       \* per item, the values an acknowledged or a later post meant
  posts, resets, faults

vars == <<stored, committed, running, page, job, answer, restarting, adrift,
          legit, posts, resets, faults>>

Keys   == 1..Len(Items)
Absent == -1
Types  == {"bool", "int8", "uint8", "uint16", "int32", "uint32", "ip", "color", "string"}

-----------------------------------------------------------------------------
(* Values and their texts *)

Size(type) == CASE type \in {"bool", "int8", "uint8"} -> 1
                [] type = "uint16" -> 2
                [] type \in {"int32", "uint32", "ip", "color"} -> 4
                [] OTHER -> 1
Signed(type) == type \in {"bool", "int8", "int32"}
Range(bytes) == CASE bytes = 1 -> ByteValues
                  [] bytes = 2 -> ByteValues * ByteValues
                  [] bytes = 4 -> ByteValues * ByteValues * ByteValues * ByteValues
Word == Range(4)                    \* a long of the processor has 32 bits
Values(type) == 0..((IF type = "string" THEN Word ELSE Range(Size(type))) - 1)
Low(type, n) == n % Range(Size(type))   \* what the cast to the type keeps

Forms == {"number", "color", "ip", "word", "empty", "unchanged"}

(* What is left of a colour are six digits, of an address four bytes. *)
Proper(k, text) ==
  /\ text \in Forms \X Int
  /\ text[1] = "color" => text[2] \in 0..(ByteValues * ByteValues * ByteValues - 1)
  /\ text[1] = "ip" \/ Items[k].type = "string" => text[2] \in 0..(Word - 1)

ConfigAssumption ==
  /\ ByteValues \in Nat \ {0, 1} /\ Len(Items) \in Nat
  /\ \A k \in Keys :
       /\ Items[k].type \in Types /\ Items[k].def \in Values(Items[k].type)
       /\ {Items[k].secret, Items[k].legacy} \subseteq BOOLEAN
  /\ \A texts \in Posts : DOMAIN texts \subseteq Keys /\ \A k \in DOMAIN texts : Proper(k, texts[k])
  /\ {MaxPosts, MaxResets, MaxFaults} \subseteq Nat

(* strtol and strtoul stop at the limits of a long; a word gives 0. *)
Strtol(n)  == IF n < -(Word \div 2) THEN -(Word \div 2)
              ELSE IF n >= Word \div 2 THEN Word \div 2 - 1 ELSE n
Strtoul(n) == IF n >= Word \/ -n >= Word THEN Word - 1 ELSE n % Word

(* The getters of the services: the bytes read with the item's type. *)
Typed(k, raw) ==
  LET t == Items[k].type IN
  IF Signed(t) /\ raw >= Range(Size(t)) \div 2 THEN raw - Range(Size(t)) ELSE raw

Raw(k, store)  == IF store[k] = Absent THEN Items[k].def ELSE store[k]
Settings(store) == [k \in Keys |-> Typed(k, Raw(k, store))]

(* config_get_handler prints the bytes of any number as they lie in a wide    *)
(* variable that was 0; colours lose their alpha, secrets are hidden.         *)
Printed(k, raw) ==
  LET t == Items[k].type IN
  IF Items[k].secret /\ (t # "string" \/ raw # 0) THEN <<"unchanged", 0>>
  ELSE CASE t = "color"  -> <<"color", raw \div ByteValues>>
         [] t = "ip"     -> <<"ip", raw>>
         [] t = "string" -> IF raw = 0 THEN <<"empty", 0>> ELSE <<"word", raw>>
         [] OTHER        -> <<"number", raw>>

Skipped(k, text) ==
  text[1] = "unchanged" \/ (text[1] = "empty" /\ Items[k].type # "string")

Refused == -2

(* A color that is not black gets the alpha of the default. *)
Rgba(k, n) == IF n = 0 THEN 0 ELSE (n * ByteValues) + (Items[k].def % ByteValues)

(* The bytes config_post_handler stores for a text, or Refused.  The number 0 *)
(* is taken only from "0".                                                    *)
Bytes(k, text) ==
  LET t == Items[k].type
      n == text[2] IN
  IF t = "string" THEN n
  ELSE IF text[1] # (IF t \in {"color", "ip"} THEN t ELSE "number") THEN Refused
  ELSE CASE t = "color" -> Rgba(k, n)
         [] t = "ip"    -> n
         [] Signed(t)   -> Low(t, Strtol(n))
         [] OTHER       -> Low(t, Strtoul(n))

(* What the sender of a text meant, where the type can hold it. *)
Fits(k, text) ==
  LET t == Items[k].type IN
  text[1] = "number" =>
    IF Signed(t) THEN -(Range(Size(t)) \div 2) <= text[2] /\ text[2] < Range(Size(t)) \div 2
                 ELSE 0 <= text[2] /\ text[2] < Range(Size(t))
Meant(k, text) ==
  IF text[1] = "number" /\ Fits(k, text) THEN text[2]
  ELSE Typed(k, Bytes(k, text))

(* What a post is to change *)
Names(texts, k) == k \in DOMAIN texts /\ ~Skipped(k, texts[k])
-----------------------------------------------------------------------------
NoPage == [texts |-> <<>>, fresh |-> FALSE]
Idle   == [at |-> "idle", key |-> 0, texts |-> <<>>, back |-> FALSE]

Init ==
  /\ stored \in {[k \in Keys |-> Absent]}
  /\ committed = stored
  /\ running = Settings(stored)
  /\ page = NoPage /\ job = Idle /\ answer = "none" /\ restarting = FALSE
  /\ adrift = FALSE
  /\ legit = [k \in Keys |-> {Settings(stored)[k]}]
  /\ posts = 0 /\ resets = 0 /\ faults = 0

Fault == faults < MaxFaults /\ faults' = faults + 1

(* A value that cannot be read is taken for the default, a text for an empty one. *)
Blank(k) == IF Items[k].type = "string" THEN 0 ELSE Items[k].def

Get ==
  /\ job = Idle
  /\ \/ /\ page' = [texts |-> [k \in Keys |-> Printed(k, Raw(k, stored))], fresh |-> TRUE]
        /\ UNCHANGED faults
     \/ \E unread \in Keys :
          /\ Fault
          /\ page' = [texts |-> [k \in Keys |->
                         Printed(k, IF k = unread THEN Blank(k) ELSE Raw(k, stored))],
                      fresh |-> FALSE]
  /\ UNCHANGED <<stored, committed, running, job, answer, restarting, adrift, legit,
                 posts, resets>>

(* The first place from k on whose key is in the payload, or past the end *)
NextKey(texts, k) ==
  CHOOSE j \in k..(Len(Items) + 1) :
    /\ j = Len(Items) + 1 \/ j \in DOMAIN texts
    /\ \A i \in k..(j - 1) : i \notin DOMAIN texts

Begin(texts, back) ==
  /\ job = Idle /\ posts < MaxPosts /\ posts' = posts + 1
  /\ job' = [at |-> "items", key |-> NextKey(texts, 1), texts |-> texts, back |-> back]
  /\ legit' = [k \in Keys |->
                IF Names(texts, k) /\ Bytes(k, texts[k]) # Refused
                  THEN legit[k] \cup {Meant(k, texts[k])} ELSE legit[k]]
  /\ UNCHANGED <<stored, committed, running, page, answer, restarting, adrift, resets,
                 faults>>

PostConfig == \E texts \in Posts : Begin(texts, FALSE)

(* The page posts back all it was given. *)
PostBack ==
  /\ page # NoPage
  /\ Begin(page.texts, page.fresh)

SetItem ==
  LET k    == job.key
      text == job.texts[k]
  IN
  /\ job.at = "items" /\ k \in Keys
  /\ Skipped(k, text) \/ Bytes(k, text) # Refused
  /\ stored' = IF Skipped(k, text) THEN stored
                                   ELSE [stored EXCEPT ![k] = Bytes(k, text)]
  /\ page' = [page EXCEPT !.fresh = @ /\ (job.back \/ stored' = stored)]
  /\ job' = [job EXCEPT !.key = NextKey(job.texts, k + 1)]
  /\ UNCHANGED <<committed, running, answer, restarting, adrift, legit, posts, resets, faults>>

(* A value that is none, or an NVS call that fails: what was set before stays *)
(* set, and is neither committed nor taken back.                              *)
RefuseItem ==
  LET k == job.key IN
  /\ job.at = "items" /\ k \in Keys /\ ~Skipped(k, job.texts[k])
  /\ \/ Bytes(k, job.texts[k]) = Refused /\ UNCHANGED faults
     \/ Fault
  /\ job' = Idle /\ answer' = "error"
  /\ UNCHANGED <<stored, committed, running, page, restarting, adrift, legit, posts, resets>>

(* ntrip_slots_sync_from_legacy, when a key of the payload is a legacy one;   *)
(* NtripStore says what it does to the slots.                                 *)
HasLegacy == \E k \in DOMAIN job.texts : Items[k].legacy

Sync ==
  /\ job.at = "items" /\ job.key \notin Keys
  /\ job' = [job EXCEPT !.at = "commit"]
  /\ committed' = IF HasLegacy THEN stored ELSE committed
  /\ UNCHANGED <<stored, running, page, answer, restarting, adrift, legit,
                 posts, resets, faults>>

SyncFails ==
  /\ job.at = "items" /\ job.key \notin Keys /\ HasLegacy /\ Fault
  /\ job' = Idle /\ answer' = "error"
  /\ UNCHANGED <<stored, committed, running, page, restarting, adrift, legit, posts, resets>>

RestartForSlots ==     \* mutant: only a change of the slots restarts the device
  restarting' = (restarting \/ HasLegacy) /\ UNCHANGED adrift
StartRestart == restarting' = TRUE /\ UNCHANGED adrift

(* No memory for the task: the settings wait for another restart or a reset. *)
RestartFails == adrift' = (adrift \/ ~restarting) /\ UNCHANGED restarting

CommitNothing == UNCHANGED committed   \* mutant: config_commit is left out
CommitStore == committed' = stored

(* The post is answered with success whatever becomes of the last two calls. *)
CommitPost ==
  /\ CommitStore
  /\ legit' = [k \in Keys |->
       IF Names(job.texts, k) THEN {Meant(k, job.texts[k])} ELSE legit[k]]

Acknowledge ==
  /\ job.at = "commit"
  /\ \/ CommitPost /\ StartRestart /\ UNCHANGED faults
     \/ /\ Fault
        /\ CommitPost \/ UNCHANGED <<committed, legit>>
        /\ StartRestart \/ RestartFails
  /\ job' = Idle /\ answer' = "ok"
  /\ UNCHANGED <<stored, running, page, posts, resets>>

(* The slot store and the receiver commit on the same handle, in their own time. *)
OtherCommits ==
  /\ committed # stored /\ CommitStore
  /\ UNCHANGED <<stored, running, page, job, answer, restarting, adrift, legit,
                 posts, resets, faults>>

(* Of what was set since the last commit anything may be lost; and a service *)
(* may start without a setting.                                              *)
Boot ==
  /\ \E kept \in SUBSET {k \in Keys : stored[k] # committed[k]} :
       stored' = [k \in Keys |-> IF k \in kept THEN stored[k] ELSE committed[k]]
  /\ committed' = stored'
  /\ \/ running' = Settings(stored') /\ adrift' = FALSE /\ UNCHANGED faults
     \/ \E k \in Keys : /\ Fault
                        /\ running' = [Settings(stored') EXCEPT ![k] = Typed(k, Blank(k))]
                        /\ adrift' = TRUE
  /\ page' = [page EXCEPT !.fresh = @ /\ stored' = stored]
  /\ job' = Idle /\ restarting' = FALSE /\ answer' = "none"
  /\ UNCHANGED <<legit, posts>>

(* config_restart_task, also in the middle of the next POST *)
Restart == restarting /\ Boot /\ UNCHANGED resets

Reset == resets < MaxResets /\ resets' = resets + 1 /\ Boot

Handler == SetItem \/ RefuseItem \/ Sync \/ SyncFails \/ Acknowledge

Next == Get \/ PostConfig \/ PostBack \/ Handler \/ OtherCommits \/ Restart \/ Reset

Spec == Init /\ [][Next]_vars

(* The HTTP task and the timer of the restart run. *)
Fairness == WF_vars(Handler) /\ WF_vars(Restart)

FairSpec == Spec /\ Fairness
-----------------------------------------------------------------------------
TypeOK ==
  /\ \A k \in Keys : {stored[k], committed[k]} \subseteq {Absent} \cup Values(Items[k].type)
  /\ job.at \in {"idle", "items", "commit"} /\ job.key \in 0..(Len(Items) + 1)
  /\ answer \in {"none", "ok", "error"} /\ {restarting, adrift} \subseteq BOOLEAN
  /\ posts \in 0..MaxPosts /\ resets \in 0..MaxResets /\ faults \in 0..MaxFaults

(* Whatever POSTs fail half way, and whenever the device restarts: each       *)
(* setting in NVS is what the last POST that was committed meant by it, as a  *)
(* number the item's type holds, or what a later one meant.                   *)
StoreIsMeant ==
  \A k \in Keys : {Settings(stored)[k], Settings(committed)[k]} \subseteq legit[k]

(* The texts from which POST cannot get back what GET printed: negative       *)
(* 32-bit numbers, and a black that is not transparent, as the default is.    *)
Restorable(k, raw) ==
  /\ Items[k].type = "int32" => raw < Word \div 2
  /\ Items[k].type = "color" /\ raw \div ByteValues = 0 => raw = 0

(* A page that posts back what GET gave it, hidden secrets among it, changes  *)
(* no setting, up to the texts above.                                         *)
PageKeeps ==
  [][SetItem /\ job.back /\ page.fresh /\ Restorable(job.key, Raw(job.key, stored))
       => Settings(stored') = Settings(stored)]_vars

(* Once no more POSTs come the services run with the settings in NVS, unless  *)
(* the last POST was answered with an error, or acknowledged with no restart  *)
(* to follow, or a setting could not be read when the device started.  Any    *)
(* restart under way, of an earlier POST too, makes up for a missing one.     *)
TakesEffect == <>[](running = Settings(stored) \/ answer = "error" \/ adrift)
=============================================================================
