-------------------------------- MODULE Receiver --------------------------------
(***************************************************************************)
(* The command side of the GNSS receiver (main/receiver.c): profiles are   *)
(* lists of commands that the HTTP server task puts into a bounded queue   *)
(* and a command task writes to the UART, repeating those that are not     *)
(* answered in time.  Every status request polls, and a poll applies the   *)
(* stored profile if that has not been done.                               *)
(*                                                                         *)
(* All HTTP handlers run in one task (web).  A step is one locked section, *)
(* one call of the queue, one write to the UART or one call of the store.  *)
(* A command is its ticket, the number of commands accepted before it;     *)
(* time is left out: an answer and the end of the wait come in any order.  *)
(***************************************************************************)
EXTENDS Integers, Sequences

CONSTANTS
  Profiles,                       \* receiver_profile_t
  NoProfile, Diagnostics, Survey, \* three of them
  Length,         \* Length[p]: the number of commands of profile p
  Expects,        \* the positions in a profile of commands with an expected answer
  MaskAt,         \* the position of SIGNALMASK, or of what follows without a mask
  Masks,          \* whether the signal mask in flash may be too long for it
  QueueLength,    \* RECEIVER_COMMAND_QUEUE_LENGTH
  RetryCount,     \* RECEIVER_COMMAND_RETRY_COUNT
  Device,         \* what the receiver is, and what the configuration says it is
  ConfiguredType,
  MaxCalls,       \* bound: calls of the API and posts that change the profile
  Faults          \* whether the store and the UART driver may fail

Types == {"unknown", "unicore", "ublox"}

ASSUME ReceiverAssumption ==
  /\ {NoProfile, Diagnostics, Survey} \subseteq Profiles
  /\ Length \in [Profiles -> Nat \ {0}]
  /\ \A p \in Profiles : MaskAt \in 1..Length[p]
  /\ Masks \subseteq BOOLEAN
  /\ Expects \subseteq Nat
  /\ QueueLength \in Nat \ {0} /\ RetryCount \in Nat /\ MaxCalls \in Nat
  /\ Device \in Types /\ ConfiguredType \in Types
  /\ Faults \in BOOLEAN

VARIABLES
  stored,                  \* the profile in flash
  longMask,                \* the signal mask in flash is too long for a command
  configured, applied,     \* configured_profile, applied_profile
  autoQueued, surveying,   \* auto_apply_queued, survey_active
  detected,                \* detected_type
  web,                     \* the HTTP task: its place, the profile it applies
                           \* and the position of the next command
  queue,                   \* command_queue
  task, cmd,               \* the command task: its place, its command
  busy, matched,           \* command_busy, expect_matched
  ticket, calls,           \* counters: the next ticket, calls so far
  begun, first,            \* history: first ticket of the last application,
                           \* and of the last that was completed
  tried, last,             \* history: tickets given to the UART, the latest one
  attempt                  \* history: the application a poll began last, if no
                           \* call has begun one since

flash   == <<stored, longMask>>
profile == <<configured, applied, autoQueued, attempt>>
side    == <<task, cmd, busy, matched, tried, last>>
vars    == <<flash, profile, surveying, detected, web, queue, side, ticket,
             calls, begun, first>>

Idle == [at |-> "idle", profile |-> NoProfile, index |-> 1]

Command(t, expects) == [ticket |-> t, expects |-> expects, retries |-> RetryCount]

(* receiver_detect *)
DetectedType == IF detected = "unknown" THEN ConfiguredType ELSE detected

Init ==
  /\ stored \in Profiles /\ longMask \in Masks
  /\ configured = stored
  /\ applied = NoProfile
  /\ autoQueued = FALSE /\ surveying = FALSE
  /\ detected = "unknown"
  /\ web = Idle
  /\ queue = <<>>
  /\ task = "receive" /\ cmd = Command(0, FALSE)
  /\ busy = FALSE /\ matched = FALSE
  /\ ticket = 1 /\ calls = 0
  /\ begun = 1 /\ first = 1
  /\ tried = {} /\ last = 0
  /\ attempt = "none"

-----------------------------------------------------------------------------
(* The HTTP server task: calls that change the profile *)

Call(at, p) ==
  /\ web.at = "idle"
  /\ calls < MaxCalls
  /\ calls' = calls + 1
  /\ web' = [at |-> at, profile |-> p, index |-> 1]
  /\ UNCHANGED <<flash, profile, detected, queue, side, ticket, begun, first>>

(* POST /api/gnss/profile/apply *)
ApplyProfile(p, persist) ==
  /\ Call(IF persist THEN "store" ELSE "reset", p)
  /\ UNCHANGED surveying

(* receiver_base_start_survey, always persistent: the survey counts as active *)
(* before its profile is stored or applied, and if that fails.                *)
StartSurvey ==
  /\ Call("store", Survey)
  /\ surveying' = TRUE

(* receiver_base_apply_fixed, receiver_base_clear *)
EndSurvey(p) ==
  /\ Call("store", p)
  /\ surveying' = FALSE

(* receiver_base_stop_survey sends a command of its own first. *)
StopSurvey ==
  /\ Call("stop", Diagnostics)
  /\ surveying' = FALSE

(* POST /config with the keys of the profile and of the mask: only the next *)
(* poll, and the next application, take notice.                             *)
PostProfile(p) ==
  /\ web.at = "idle"
  /\ calls < MaxCalls
  /\ calls' = calls + 1
  /\ stored' = p /\ longMask' \in Masks
  /\ UNCHANGED <<profile, surveying, detected, web, queue, side, ticket, begun, first>>

(* xQueueSend without waiting *)
Enqueue(expects) ==
  /\ Len(queue) < QueueLength
  /\ queue' = Append(queue, Command(ticket, expects))
  /\ ticket' = ticket + 1

(* POST /api/gnss/command; refused for a u-blox receiver. *)
SendCommand(expects) ==
  /\ web.at = "idle"
  /\ calls < MaxCalls
  /\ calls' = calls + 1
  /\ DetectedType # "ublox"
  /\ Enqueue(expects)
  /\ UNCHANGED <<flash, profile, surveying, detected, web, side, begun, first>>

(* SURVEY STOP; the result of the call is ignored. *)
SendStop ==
  /\ web.at = "stop"
  /\ web' = [web EXCEPT !.at = "store"]
  /\ \/ DetectedType # "ublox" /\ Enqueue(FALSE)
     \/ DetectedType = "ublox" /\ UNCHANGED <<queue, ticket>>
     \/ Len(queue) = QueueLength /\ UNCHANGED <<queue, ticket>>
  /\ UNCHANGED <<flash, profile, surveying, detected, side, calls, begun, first>>

StoreProfile ==
  /\ web.at = "store"
  /\ stored' = web.profile
  /\ web' = [web EXCEPT !.at = "reset"]
  /\ UNCHANGED <<longMask, profile, surveying, detected, queue, side, ticket, calls, begun, first>>

StoreFails ==
  /\ Faults
  /\ web.at = "store"
  /\ stored' \in {stored, web.profile}
  /\ web' = Idle
  /\ UNCHANGED <<longMask, profile, surveying, detected, queue, side, ticket, calls, begun, first>>

-----------------------------------------------------------------------------
(* Applying a profile *)

ResetProfile ==
  /\ web.at = "reset"
  /\ configured' = web.profile
  /\ applied' = NoProfile
  /\ autoQueued' = FALSE /\ attempt' = "none"
  /\ surveying' = (surveying /\ web.profile = Survey)
  /\ web' = [web EXCEPT !.at = "detect"]
  /\ UNCHANGED <<flash, detected, queue, side, ticket, calls, begun, first>>

DetectType ==
  /\ web.at = "detect"
  /\ web' = IF DetectedType = "unicore" THEN [web EXCEPT !.at = "queue"] ELSE Idle
  /\ begun' = IF DetectedType = "unicore" THEN ticket ELSE begun
  /\ UNCHANGED <<flash, profile, surveying, detected, queue, side, ticket, calls, first>>

(* receiver_queue_formatted refuses a command for which the queue has no room, *)
(* or its field: only the mask can be longer than that.                        *)
MaskTooLong == longMask /\ web.index = MaskAt

QueueNext ==
  /\ web.at = "queue" /\ web.index <= Length[web.profile]
  /\ ~MaskTooLong /\ Enqueue(web.index \in Expects)
  /\ web' = [web EXCEPT !.index = @ + 1]
  /\ UNCHANGED <<flash, profile, surveying, detected, side, calls, begun, first>>

GoesOn ==                                  \* mutant: the command is skipped
  /\ web.at = "queue" /\ web.index <= Length[web.profile]
  /\ Len(queue) = QueueLength \/ MaskTooLong
  /\ web' = [web EXCEPT !.index = @ + 1]
  /\ UNCHANGED <<flash, profile, surveying, detected, queue, side, ticket, calls, begun, first>>

(* A command is refused: what was queued stays, nothing is taken back, and *)
(* auto_apply_queued stays set where a poll had set it.                    *)
GiveUp ==
  /\ web.at = "queue" /\ web.index <= Length[web.profile]
  /\ Len(queue) = QueueLength \/ MaskTooLong
  /\ web' = Idle
  /\ attempt' = IF attempt = "begun" THEN "given up" ELSE attempt
  /\ UNCHANGED <<flash, configured, applied, autoQueued, surveying, detected, queue, side,
                 ticket, calls, begun, first>>

(* mutant: auto_apply_queued stays set *)
FinishKeepsFlag ==
  /\ web.at = "queue" /\ web.index > Length[web.profile]
  /\ applied' = web.profile
  /\ surveying' = (web.profile = Survey)
  /\ web' = Idle
  /\ first' = begun /\ attempt' = "none"
  /\ UNCHANGED <<flash, configured, autoQueued, detected, queue, side, ticket, calls, begun>>

Finish ==
  /\ web.at = "queue" /\ web.index > Length[web.profile]
  /\ applied' = web.profile
  /\ autoQueued' = FALSE
  /\ surveying' = (web.profile = Survey)
  /\ web' = Idle
  /\ first' = begun /\ attempt' = "none"
  /\ UNCHANGED <<flash, configured, detected, queue, side, ticket, calls, begun>>

(* receiver_poll: the stored profile is looked at in one locked section and *)
(* marked in the next.                                                      *)
Poll ==
  /\ web.at = "idle"
  /\ configured' = stored
  /\ web' = IF /\ stored # NoProfile /\ detected = "unicore"
               /\ applied # stored /\ ~autoQueued /\ ~busy
              THEN [at |-> "mark", profile |-> stored, index |-> 1]
              ELSE Idle
  /\ UNCHANGED <<flash, applied, autoQueued, attempt, surveying, detected, queue,
                 side, ticket, calls, begun, first>>

MarkQueued ==
  /\ web.at = "mark"
  /\ autoQueued' = TRUE
  /\ web' = [web EXCEPT !.at = "queue"]
  /\ begun' = ticket /\ attempt' = "begun"
  /\ UNCHANGED <<flash, configured, applied, surveying, detected, queue, side, ticket, calls, first>>

-----------------------------------------------------------------------------
(* The UART handler *)

DetectDevice ==
  /\ detected = "unknown" /\ Device # "unknown"
  /\ detected' = Device
  /\ UNCHANGED <<flash, profile, surveying, web, queue, side, ticket, calls, begun, first>>

(* A line that contains the expected token, an answer or not. *)
MatchLine ==
  /\ busy /\ cmd.expects /\ ~matched
  /\ matched' = TRUE
  /\ UNCHANGED <<flash, profile, surveying, detected, web, queue, task, cmd, busy,
                 tried, last, ticket, calls, begun, first>>

-----------------------------------------------------------------------------
(* The command task *)

CommandStep(from, to) ==
  /\ task = from
  /\ task' = to
  /\ UNCHANGED <<flash, profile, surveying, detected, web, ticket, calls, begun, first>>

Receive ==
  /\ CommandStep("receive", "taken")
  /\ queue # <<>>
  /\ cmd' = Head(queue)
  /\ queue' = Tail(queue)
  /\ UNCHANGED <<busy, matched, tried, last>>

Announce ==
  /\ CommandStep("taken", "write")
  /\ busy' = TRUE
  /\ matched' = FALSE
  /\ UNCHANGED <<queue, cmd, tried, last>>

Write ==
  /\ CommandStep("write", "wait")
  /\ tried' = tried \cup {cmd.ticket}
  /\ last' = cmd.ticket
  /\ UNCHANGED <<queue, cmd, busy, matched>>

(* The driver refuses the command, and it is given up. *)
WriteFails ==
  /\ Faults
  /\ CommandStep("write", "receive")
  /\ tried' = tried \cup {cmd.ticket}
  /\ last' = cmd.ticket
  /\ busy' = FALSE
  /\ UNCHANGED <<queue, cmd, matched>>

Done ==
  /\ CommandStep("wait", "done")
  /\ cmd.expects => matched
  /\ UNCHANGED <<queue, cmd, busy, matched, tried, last>>

RetryToBack ==                                                        \* mutant
  /\ cmd.retries > 0
  /\ cmd' = [cmd EXCEPT !.retries = @ - 1]
  /\ queue' = IF Len(queue) < QueueLength THEN Append(queue, cmd') ELSE queue

RetryForever ==                                                       \* mutant
  /\ cmd.retries > 0
  /\ cmd' = cmd
  /\ queue' = IF Len(queue) < QueueLength THEN <<cmd>> \o queue ELSE queue

(* A queue that has filled meanwhile has no room at its front either, and the *)
(* command is lost.                                                           *)
Retry ==
  /\ cmd.retries > 0
  /\ cmd' = [cmd EXCEPT !.retries = @ - 1]
  /\ queue' = IF Len(queue) < QueueLength THEN <<cmd'>> \o queue ELSE queue

(* The last look at matched is 100 ms before the end of the wait, so that it *)
(* may end without an answer that has come.                                  *)
TimesOut ==
  /\ CommandStep("wait", "done")
  /\ cmd.expects
  /\ \/ Retry
     \/ cmd.retries = 0 /\ UNCHANGED <<queue, cmd>>
  /\ UNCHANGED <<busy, matched, tried, last>>

Release ==
  /\ CommandStep("done", "receive")
  /\ busy' = FALSE
  /\ matched' = FALSE
  /\ UNCHANGED <<queue, cmd, tried, last>>

-----------------------------------------------------------------------------
Applying == StoreProfile \/ ResetProfile \/ DetectType \/ QueueNext \/ GiveUp
            \/ Finish \/ MarkQueued \/ SendStop

Commanding == Receive \/ Announce \/ Write \/ Done \/ TimesOut \/ Release

Next ==
  \/ \E p \in Profiles : \/ \E persist \in BOOLEAN : ApplyProfile(p, persist)
                         \/ PostProfile(p)
  \/ \E p \in Profiles \ {NoProfile, Survey} : EndSurvey(p)
  \/ StartSurvey \/ StopSurvey
  \/ \E expects \in BOOLEAN : SendCommand(expects)
  \/ Applying \/ StoreFails \/ Poll
  \/ DetectDevice \/ MatchLine
  \/ Commanding \/ WriteFails

Spec == Init /\ [][Next]_vars

(* Both tasks run, the status is requested again and again, and the receiver *)
(* is heard.                                                                 *)
Fairness == WF_vars(Applying) /\ WF_vars(Commanding) /\ WF_vars(Poll) /\ WF_vars(DetectDevice)

LiveSpec == Spec /\ Fairness

-----------------------------------------------------------------------------
(* Properties *)

(* The types of the variables; the queue is as long as it may be. *)
TypeOK ==
  /\ {stored, configured, applied, web.profile} \subseteq Profiles
  /\ autoQueued \in BOOLEAN /\ surveying \in BOOLEAN
  /\ detected \in Types
  /\ web.at \in {"idle", "store", "stop", "reset", "detect", "mark", "queue"}
  /\ web.index \in 1..(Length[web.profile] + 1)
  /\ Len(queue) <= QueueLength
  /\ \A i \in 1..Len(queue) : queue[i].ticket \in 1..(ticket - 1)
  /\ task \in {"receive", "taken", "write", "wait", "done"}
  /\ cmd.ticket \in 0..(ticket - 1) /\ cmd.retries \in 0..RetryCount
  /\ busy \in BOOLEAN /\ matched \in BOOLEAN /\ longMask \in BOOLEAN
  /\ attempt \in {"none", "begun", "given up"}
  /\ ticket \in Nat \ {0} /\ calls \in 0..MaxCalls
  /\ begun \in 1..ticket /\ first \in 1..ticket
  /\ tried \subseteq 1..(ticket - 1) /\ last \in 0..(ticket - 1)

(* Commands go to the receiver in the order in which they were accepted, and *)
(* a repeated one before any that was accepted after it.                     *)
InOrder == [][last' >= last]_last

(* The profile that counts as applied was accepted whole: when everything *)
(* queued is done, each of its commands has been given to the UART, even if *)
(* some were repeated, or lost on their way back into a full queue.         *)
AppliedWasSent ==
  applied # NoProfile /\ queue = <<>> /\ task = "receive" =>
    first..(first + Length[applied] - 1) \subseteq tried

(* However answers come or fail to come, the queue empties. *)
QueueDrains == []<>(queue = <<>> /\ task = "receive")

(* The stored profile of a receiver that can be configured ends up applied. *)
ProfileApplied ==
  Device = "unicore" => <>[](stored # NoProfile => applied = stored)

(* The same unless a poll gave its application up, for lack of room or a mask *)
(* too long, and no call has had one begun since: no order of calls, polls and *)
(* posts makes the device forget to apply it, and what a call gave up a poll   *)
(* tries again.                                                                *)
AppliedUnlessGivenUp ==
  Device = "unicore" =>
    <>[](attempt = "given up" \/ (stored # NoProfile => applied = stored))
=============================================================================
