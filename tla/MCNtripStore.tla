---------------------------- MODULE MCNtripStore ----------------------------
(***************************************************************************)
(* NtripStore in three settings; part says which of them a behaviour is of. *)
(* reset: the HTTP task alone, stores and single slots.  keys: the same     *)
(* with posts under the legacy keys.  selftest: the self-test beside it.    *)
(***************************************************************************)
EXTENDS NtripStore

Parts == {"reset", "keys", "selftest"}

CONSTANT Settings  \* of each part, to bound TLC's run: whether the device is new, what
                   \* is posted, and the slots that are enabled and disabled

ASSUME SettingsAssumption ==
  \A p \in Parts :
    Settings[p].posts \subseteq Posts /\ Settings[p].enables \subseteq Enables

C(on, tls, host) == [on |-> on, tls |-> tls, host |-> host, named |-> TRUE]

MCHosts == {"", "a"}

(* Two whole stores that differ in every field, the second with a slot whose *)
(* name was left empty, and for the self-test one that leaves slot 2 alone.   *)
Full   == [s \in Slots |-> C(TRUE, TRUE, "a")]
Cleared == [s \in Slots |-> C(FALSE, FALSE, "")]
Unnamed == [Cleared EXCEPT ![2].named = FALSE, ![2].on = TRUE]
User    == [Cleared EXCEPT ![1].host = "a"]
MCPosts == {Full, Cleared, Unnamed, User}
MCTests == {[Cleared EXCEPT ![1].on = TRUE]}

MCSettings ==
  [reset    |-> [new |-> FALSE, posts |-> {Full, Unnamed}, enables |-> {1}],
   keys     |-> [new |-> FALSE, posts |-> {Full}, enables |-> {}],
   selftest |-> [new |-> TRUE, posts |-> {User}, enables |-> {}]]

VARIABLE part

MCInit ==
  /\ Init
  /\ part \in Parts
  /\ Settings[part].new => kind = "none" /\ ~LegacyInUse

MCNext ==
  /\ \/ StoreSlots(Settings[part].posts, Settings[part].enables)
     \/ Failure
     \/ part = "keys" /\ StoreKeys
     \/ part = "selftest" /\ RunSelfTest
  /\ UNCHANGED part

MCSpec == MCInit /\ [][MCNext]_<<part, vars>>

(* With one writer and no legacy keys, whole configurations come back. *)
WholeRecovers == part = "reset" => Recoverable

(* Without legacy keys, but with two writers, readers see what was asked for. *)
ReadersSee == part # "keys" => ReadersSeeRequested

(* With posts under the legacy keys, or with the self-test as a second writer, *)
(* it is still so field by field; with one writer keys and slots agree between *)
(* calls; and the self-test leaves what it found.                             *)
LegacyRecovers ==
  /\ TypeOK
  /\ FieldsRecoverable
  /\ part # "selftest" => LegacyAgrees
  /\ SelfTestRestores
=============================================================================
